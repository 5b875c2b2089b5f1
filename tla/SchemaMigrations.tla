-------------------------- MODULE SchemaMigrations --------------------------
(***************************************************************************)
(* Two Alembic histories over one database.  The library has a single      *)
(* baseline (alembic/versions/k2l3m4n5o6p7) that creates its tables        *)
(* unconditionally.  The sample application has its own version table and  *)
(* two revisions: 0001 creates whatever library tables are missing, 0002   *)
(* creates the secret table or adopts one that another program made.       *)
(*                                                                         *)
(* A command is a plan of statements.  PostgreSQL runs the whole plan in   *)
(* one transaction and checks foreign keys; SQLite commits each DDL        *)
(* statement by itself and accepts dangling references.  Columns, defaults *)
(* and the names of indexes are left out: a table's indexes are one        *)
(* statement after the table.                                              *)
(***************************************************************************)
EXTENDS Naturals, Sequences

CONSTANT Commands  \* the commands operators give

VARIABLES
    dialect,    \* the database the settings name
    db,         \* committed schema
    work,       \* schema as the running command sees it
    plan,       \* statements the running command still has to execute
    command     \* the running command

schemaVars == <<dialect, db, work, plan, command>>

ASSUME SchemaAssumption ==
    Commands \subseteq {"library upgrade", "library downgrade",
                        "app upgrade", "app downgrade"}

-----------------------------------------------------------------------------
(***************************************************************************)
(* The baseline: each table with the tables its foreign keys refer to, in  *)
(* the order of upgrade().                                                 *)
(***************************************************************************)
T(name, refs) == [name |-> name, refs |-> refs]

IdentityTables ==
    <<T("m8f_group", {}),
      T("m8flow_tenant", {}),
      T("permission_target", {}),
      T("user", {})>>

DefinitionTables ==
    <<T("bpmn_process_definition", {"m8flow_tenant"}),
      T("json_data", {"m8flow_tenant"}),
      T("principal", {"m8f_group", "user"}),
      T("process_model_bpmn_version", {"m8flow_tenant"})>>

MembershipTables ==
    <<T("user_group_assignment", {"m8f_group", "user"}),
      T("bpmn_process", {"bpmn_process_definition", "m8flow_tenant"})>>

GrantTables ==
    <<T("permission_assignment", {"permission_target", "principal"}),
      T("task_definition", {"bpmn_process_definition", "m8flow_tenant"})>>

InstanceTables ==
    <<T("process_instance", {"bpmn_process_definition", "bpmn_process",
                             "process_model_bpmn_version", "m8flow_tenant",
                             "user"})>>

HistoryTables ==
    <<T("process_instance_event", {"m8flow_tenant", "process_instance",
                                   "user"}),
      T("process_instance_metadata", {"m8flow_tenant", "process_instance"})>>

JobTables ==
    <<T("scheduler_job", {"bpmn_process_definition", "m8flow_tenant",
                          "process_instance"}),
      T("task", {"bpmn_process", "m8flow_tenant", "process_instance",
                 "task_definition"})>>

WorkTables ==
    <<T("future_task", {"task", "m8flow_tenant"}),
      T("work_item", {"user", "m8f_group", "m8flow_tenant",
                      "process_instance", "task"})>>

OwnerTables ==
    <<T("work_item_user", {"m8flow_tenant", "user", "work_item"})>>

\* Mutant: the owners of work items before the work items.
TablesSwapped ==
    IdentityTables \o DefinitionTables \o MembershipTables \o GrantTables
        \o InstanceTables \o HistoryTables \o JobTables \o OwnerTables
        \o WorkTables

\* Base.metadata.sorted_tables is the same order: by dependency, then name.
Tables ==
    IdentityTables \o DefinitionTables \o MembershipTables \o GrantTables
        \o InstanceTables \o HistoryTables \o JobTables \o WorkTables
        \o OwnerTables

LibraryTables == {Tables[i].name : i \in DOMAIN Tables}

\* The first and the second half of downgrade().
DroppedFirst ==
    <<"work_item_user", "work_item", "future_task", "task", "scheduler_job",
      "process_instance_metadata", "process_instance_event">>

DroppedLast ==
    <<"process_instance", "task_definition", "permission_assignment",
      "bpmn_process", "user_group_assignment", "process_model_bpmn_version",
      "principal", "json_data", "bpmn_process_definition", "user",
      "permission_target", "m8flow_tenant", "m8f_group">>

\* The table of revision 0002, with the foreign keys written by hand.
SecretTable == T("secret", {"m8flow_tenant", "user"})

-----------------------------------------------------------------------------
(***************************************************************************)
(* Statements.  A database has tables, the tables whose indexes exist,     *)
(* named types, the version each history has stamped, and foreign: whether *)
(* the secret table was made by another program ("compatible" has the      *)
(* required columns and, as in the tests, no foreign keys of this          *)
(* application).                                                           *)
(***************************************************************************)
Do(kind, table) == [kind |-> kind, table |-> table, version |-> 0]

Stamp(history, version) ==
    [kind |-> history, table |-> "none", version |-> version]

Pairs(first, second, names) ==
    [i \in 1 .. 2 * Len(names) |->
        IF i % 2 = 1 THEN Do(first, names[(i + 1) \div 2])
        ELSE Do(second, names[i \div 2])]

Names == [i \in DOMAIN Tables |-> Tables[i].name]

Reversed(s) == [i \in DOMAIN s |-> s[Len(s) + 1 - i]]

BaselineUpgrade == Pairs("create", "index", Names) \o <<Stamp("library", 1)>>

\* drop_table knows no columns: the type of one is dropped by itself.
BaselineDowngrade ==
    Pairs("unindex", "drop", DroppedFirst \o DroppedLast)
        \o <<Do("drop type", "m8flow_tenant")>>
        \o <<Stamp("library", 0)>>

\* Mutant: 0001 creates its tables without checkfirst.
Upgrade1Plain == Pairs("create", "index", Names) \o <<Stamp("app", 1)>>

\* 0001: table.create(checkfirst=True), table.drop(checkfirst=True).
Upgrade1 == Pairs("create missing", "index", Names) \o <<Stamp("app", 1)>>

Downgrade1 ==
    [i \in DOMAIN Names |-> Do("drop present", Reversed(Names)[i])]
        \o <<Stamp("app", 0)>>

\* 0002: create or adopt the secret table; drop it if it is there.
Upgrade2 ==
    <<Do("create secret", "secret"), Do("index", "secret"), Stamp("app", 2)>>

Downgrade2 ==
    <<Do("unindex present", "secret"), Do("drop", "secret"), Stamp("app", 1)>>

\* command.upgrade("head") and command.downgrade("base") for each history.
PlanOf(c, d) ==
    CASE c = "library upgrade" ->
            IF d.library = 0 THEN BaselineUpgrade ELSE <<>>
      [] c = "library downgrade" ->
            IF d.library = 1 THEN BaselineDowngrade ELSE <<>>
      [] c = "app upgrade" ->
            (IF d.app = 0 THEN Upgrade1 ELSE <<>>)
                \o (IF d.app < 2 THEN Upgrade2 ELSE <<>>)
      [] c = "app downgrade" ->
            (IF d.app = 2 THEN Downgrade2 ELSE <<>>)
                \o (IF d.app > 0 THEN Downgrade1 ELSE <<>>)

RefsOf(t, d) ==
    IF t = "secret"
    THEN IF d.foreign = "none" THEN SecretTable.refs ELSE {}
    ELSE (CHOOSE x \in {Tables[i] : i \in DOMAIN Tables} : x.name = t).refs

AllTables == LibraryTables \cup {"secret"}

\* What a database may hold, and where each history may stand.
Schemas ==
    [tables : SUBSET AllTables, indexed : SUBSET AllTables,
     types : SUBSET {"tenantstatus"},
     foreign : {"none", "compatible", "incompatible"},
     library : {0, 1}, app : 0 .. 2]

\* A PostgreSQL database before the first start: each history at its base or
\* its head, every foreign key with its table, every table but an adopted one
\* with its indexes, the table of tenants with its type.  Whoever has users
\* has tenants, though no key says so.
SoundDatabase(d) ==
    /\ d \in [tables : SUBSET AllTables, indexed : SUBSET AllTables,
              types : SUBSET {"tenantstatus"},
              foreign : {"none", "compatible", "incompatible"},
              library : {0, 1}, app : {0, 2}]
    /\ \A t \in d.tables : RefsOf(t, d) \subseteq d.tables
    /\ \A t \in d.tables : t # "secret" \/ d.foreign = "none" => t \in d.indexed
    /\ "user" \in d.tables => "m8flow_tenant" \in d.tables
    /\ d.types = IF "m8flow_tenant" \in d.tables THEN {"tenantstatus"} ELSE {}
    /\ d.foreign # "none" => "secret" \in d.tables
    /\ d.app = 2 => d.foreign # "incompatible"

Checked == dialect = "postgresql"

\* The ENUM of m8flow_tenant.status; SQLite has no named types.
TypesOf(t) == IF Checked /\ t = "m8flow_tenant" THEN {"tenantstatus"} ELSE {}

Creatable(t, d) ==
    t \notin d.tables /\ (Checked => RefsOf(t, d) \subseteq d.tables)

Droppable(t, d) ==
    /\ t \in d.tables
    /\ Checked => \A other \in d.tables \ {t} : t \notin RefsOf(other, d)

\* Whether the database or the revision accepts the statement.
Accepted(s, d) ==
    CASE s.kind = "create" ->
            Creatable(s.table, d) /\ TypesOf(s.table) \cap d.types = {}
      [] s.kind = "create missing" ->
            s.table \in d.tables \/ Creatable(s.table, d)
      [] s.kind = "create secret" ->
            IF "secret" \in d.tables THEN d.foreign # "incompatible"
            ELSE Creatable("secret", d)
      [] s.kind = "unindex" -> s.table \in d.indexed
      [] s.kind = "unindex present" ->
            s.table \in d.tables => s.table \in d.indexed
      [] s.kind = "drop" -> Droppable(s.table, d)
      [] s.kind = "drop present" ->
            s.table \in d.tables => Droppable(s.table, d)
      [] s.kind = "drop type" ->
            TypesOf(s.table) \cap d.types # {} => s.table \notin d.tables
      [] OTHER -> TRUE

\* A table that exists is left as it is, and so are its indexes.
Skips(s, d) ==
    \/ s.kind \in {"create missing", "create secret"} /\ s.table \in d.tables
    \/ s.kind = "unindex present" /\ s.table \notin d.tables

\* Table.create(checkfirst=True) finds a type that is there, create_table does
\* not look; only Table.drop knows the types of the columns.
Executed(s, d) ==
    IF Skips(s, d) THEN d
    ELSE CASE s.kind \in {"create", "create missing", "create secret"} ->
                 [d EXCEPT !.tables = @ \cup {s.table},
                           !.types = @ \cup TypesOf(s.table)]
           [] s.kind = "index" -> [d EXCEPT !.indexed = @ \cup {s.table}]
           [] s.kind \in {"unindex", "unindex present"} ->
                 [d EXCEPT !.indexed = @ \ {s.table}]
           [] s.kind \in {"drop", "drop present"} ->
                 [d EXCEPT !.tables = @ \ {s.table}, !.indexed = @ \ {s.table},
                           !.types = IF s.kind = "drop present"
                                        /\ s.table \in d.tables
                                     THEN @ \ TypesOf(s.table) ELSE @,
                           !.foreign = IF s.table = "secret" THEN "none" ELSE @]
           [] s.kind = "drop type" ->
                 [d EXCEPT !.types = @ \ TypesOf(s.table)]
           [] s.kind = "library" -> [d EXCEPT !.library = s.version]
           [] s.kind = "app" -> [d EXCEPT !.app = s.version]

-----------------------------------------------------------------------------
(***************************************************************************)
(* Commands.                                                               *)
(***************************************************************************)
SchemaInit(product, schema) ==
    /\ dialect = product
    /\ db = schema
    /\ work = schema
    /\ plan = <<>>
    /\ command = "none"

BeginCommand(c) ==
    /\ command = "none"
    /\ command' = c
    /\ plan' = PlanOf(c, db)
    /\ work' = db
    /\ UNCHANGED <<dialect, db>>

\* An operator runs alembic by hand.
OperatorCommand ==
    \E c \in Commands : BeginCommand(c)

\* One statement.  SQLite commits it at once.
Execute ==
    /\ plan # <<>>
    /\ Accepted(Head(plan), work)
    /\ work' = Executed(Head(plan), work)
    /\ plan' = SubSeq(plan, IF Skips(Head(plan), work) THEN 3 ELSE 2,
                      Len(plan))
    /\ db' = IF Checked THEN db ELSE work'
    /\ UNCHANGED <<dialect, command>>

\* The end of context.begin_transaction().
CommitCommand ==
    /\ command # "none"
    /\ plan = <<>>
    /\ db' = work
    /\ command' = "none"
    /\ UNCHANGED <<dialect, work, plan>>

\* The command ends early: its transaction, if it has one, is rolled back.
Abandon ==
    /\ command' = "none"
    /\ plan' = <<>>
    /\ work' = db
    /\ UNCHANGED <<dialect, db>>

\* A statement is refused and the command raises.
Refuse ==
    /\ plan # <<>>
    /\ ~Accepted(Head(plan), work)
    /\ Abandon

-----------------------------------------------------------------------------
(***************************************************************************)
(* Properties.                                                             *)
(***************************************************************************)

\* The foreign keys of the secret table are there and enforced.
KeysHold == Checked /\ db.foreign = "none"

\* On PostgreSQL neither history is ever refused on its own account, from
\* whatever database it begins: the order of create_table and drop_table
\* respects all foreign keys.  What is refused is the library's upgrade over
\* tables that the application's 0001 has made, its downgrade when 0001 has
\* dropped them or secret still refers to them, an incompatible secret table,
\* and dropping the indexes of an adopted one.
RefusalIsForeign ==
    (Checked /\ plan # <<>> /\ ~Accepted(Head(plan), work)) =>
        \/ command = "library upgrade" /\ Head(plan).table \in db.tables
        \/ /\ command = "library downgrade"
           /\ \/ Head(plan).table \notin db.tables
              \/ "secret" \in db.tables /\ Head(plan).table \in SecretTable.refs
        \/ command = "app upgrade" /\ db.foreign = "incompatible"
        \/ command = "app downgrade" /\ db.foreign = "compatible"
=============================================================================

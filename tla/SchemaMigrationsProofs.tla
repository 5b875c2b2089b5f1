----------------------- MODULE SchemaMigrationsProofs -----------------------
(***************************************************************************)
(* The two histories of migrations, from any database to begin with: what  *)
(* each statement of a plan makes of it, and why the database accepts it.  *)
(***************************************************************************)
EXTENDS SchemaMigrations, Integers, TLAPS

-----------------------------------------------------------------------------
(***************************************************************************)
(* The tables of the library, in the order of upgrade().                   *)
(***************************************************************************)

\* The place of a table in that order.
Place(t) ==
    CASE t = "m8f_group" -> 1
      [] t = "m8flow_tenant" -> 2
      [] t = "permission_target" -> 3
      [] t = "user" -> 4
      [] t = "bpmn_process_definition" -> 5
      [] t = "json_data" -> 6
      [] t = "principal" -> 7
      [] t = "process_model_bpmn_version" -> 8
      [] t = "user_group_assignment" -> 9
      [] t = "bpmn_process" -> 10
      [] t = "permission_assignment" -> 11
      [] t = "task_definition" -> 12
      [] t = "process_instance" -> 13
      [] t = "process_instance_event" -> 14
      [] t = "process_instance_metadata" -> 15
      [] t = "scheduler_job" -> 16
      [] t = "task" -> 17
      [] t = "future_task" -> 18
      [] t = "work_item" -> 19
      [] t = "work_item_user" -> 20

\* The tables one by one: no name twice, and every foreign key refers to an
\* earlier table.  downgrade() drops them in the opposite order.
LEMMA TablesAre ==
    /\ DOMAIN Tables = 1 .. 20
    /\ \A i \in 1 .. 20 :
          /\ Place(Tables[i].name) = i /\ Tables[i].name # "secret"
          /\ \A r \in Tables[i].refs : Place(r) \in 1 .. i - 1 /\ Tables[Place(r)].name = r
    /\ Tables[2].name = "m8flow_tenant" /\ Tables[4].name = "user"
    /\ Tables[5].name = "bpmn_process_definition" /\ Tables[5].refs = {"m8flow_tenant"}
    /\ Len(DroppedFirst \o DroppedLast) = 20
    /\ \A k \in 1 .. 20 : (DroppedFirst \o DroppedLast)[k] = Tables[21 - k].name
<1>1. /\ Place("m8f_group") = 1
      /\ Place("m8flow_tenant") = 2
      /\ Place("permission_target") = 3
      /\ Place("user") = 4
      /\ Place("bpmn_process_definition") = 5
      /\ Place("json_data") = 6
      /\ Place("principal") = 7
      /\ Place("process_model_bpmn_version") = 8
      /\ Place("user_group_assignment") = 9
      /\ Place("bpmn_process") = 10
      /\ Place("permission_assignment") = 11
      /\ Place("task_definition") = 12
      /\ Place("process_instance") = 13
      /\ Place("process_instance_event") = 14
      /\ Place("process_instance_metadata") = 15
      /\ Place("scheduler_job") = 16
      /\ Place("task") = 17
      /\ Place("future_task") = 18
      /\ Place("work_item") = 19
      /\ Place("work_item_user") = 20
  BY DEF Place
<1>2. /\ Len(Tables) = 20 /\ DOMAIN Tables = 1 .. 20
      /\ Tables[1] = T("m8f_group", {})
      /\ Tables[2] = T("m8flow_tenant", {})
      /\ Tables[3] = T("permission_target", {})
      /\ Tables[4] = T("user", {})
      /\ Tables[5] = T("bpmn_process_definition", {"m8flow_tenant"})
      /\ Tables[6] = T("json_data", {"m8flow_tenant"})
      /\ Tables[7] = T("principal", {"m8f_group", "user"})
      /\ Tables[8] = T("process_model_bpmn_version", {"m8flow_tenant"})
      /\ Tables[9] = T("user_group_assignment", {"m8f_group", "user"})
      /\ Tables[10] = T("bpmn_process", {"bpmn_process_definition", "m8flow_tenant"})
      /\ Tables[11] = T("permission_assignment", {"permission_target", "principal"})
      /\ Tables[12] = T("task_definition", {"bpmn_process_definition", "m8flow_tenant"})
      /\ Tables[13] = T("process_instance", {"bpmn_process_definition", "bpmn_process",
                        "process_model_bpmn_version", "m8flow_tenant", "user"})
      /\ Tables[14] = T("process_instance_event", {"m8flow_tenant", "process_instance", "user"})
      /\ Tables[15] = T("process_instance_metadata", {"m8flow_tenant", "process_instance"})
      /\ Tables[16] = T("scheduler_job", {"bpmn_process_definition", "m8flow_tenant",
                        "process_instance"})
      /\ Tables[17] = T("task", {"bpmn_process", "m8flow_tenant", "process_instance",
                        "task_definition"})
      /\ Tables[18] = T("future_task", {"task", "m8flow_tenant"})
      /\ Tables[19] = T("work_item", {"user", "m8f_group", "m8flow_tenant",
                        "process_instance", "task"})
      /\ Tables[20] = T("work_item_user", {"m8flow_tenant", "user", "work_item"})
  BY SMTT(30) DEF Tables, IdentityTables, DefinitionTables, MembershipTables,
       GrantTables, InstanceTables, HistoryTables, JobTables, WorkTables, OwnerTables
<1>3. /\ Tables[1].name = "m8f_group"
      /\ Tables[2].name = "m8flow_tenant"
      /\ Tables[3].name = "permission_target"
      /\ Tables[4].name = "user"
      /\ Tables[5].name = "bpmn_process_definition"
      /\ Tables[6].name = "json_data"
      /\ Tables[7].name = "principal"
      /\ Tables[8].name = "process_model_bpmn_version"
      /\ Tables[9].name = "user_group_assignment"
      /\ Tables[10].name = "bpmn_process"
      /\ Tables[11].name = "permission_assignment"
      /\ Tables[12].name = "task_definition"
      /\ Tables[13].name = "process_instance"
      /\ Tables[14].name = "process_instance_event"
      /\ Tables[15].name = "process_instance_metadata"
      /\ Tables[16].name = "scheduler_job"
      /\ Tables[17].name = "task"
      /\ Tables[18].name = "future_task"
      /\ Tables[19].name = "work_item"
      /\ Tables[20].name = "work_item_user"
  BY <1>2 DEF T
<1>4. /\ Tables[1].refs = {}
      /\ Tables[2].refs = {}
      /\ Tables[3].refs = {}
      /\ Tables[4].refs = {}
      /\ Tables[5].refs = {"m8flow_tenant"}
      /\ Tables[6].refs = {"m8flow_tenant"}
      /\ Tables[7].refs = {"m8f_group", "user"}
      /\ Tables[8].refs = {"m8flow_tenant"}
      /\ Tables[9].refs = {"m8f_group", "user"}
      /\ Tables[10].refs = {"bpmn_process_definition", "m8flow_tenant"}
      /\ Tables[11].refs = {"permission_target", "principal"}
      /\ Tables[12].refs = {"bpmn_process_definition", "m8flow_tenant"}
      /\ Tables[13].refs = {"bpmn_process_definition", "bpmn_process",
                        "process_model_bpmn_version", "m8flow_tenant", "user"}
      /\ Tables[14].refs = {"m8flow_tenant", "process_instance", "user"}
      /\ Tables[15].refs = {"m8flow_tenant", "process_instance"}
      /\ Tables[16].refs = {"bpmn_process_definition", "m8flow_tenant", "process_instance"}
      /\ Tables[17].refs = {"bpmn_process", "m8flow_tenant", "process_instance",
                        "task_definition"}
      /\ Tables[18].refs = {"task", "m8flow_tenant"}
      /\ Tables[19].refs = {"user", "m8f_group", "m8flow_tenant", "process_instance", "task"}
      /\ Tables[20].refs = {"m8flow_tenant", "user", "work_item"}
  BY <1>2 DEF T
<1>5. ASSUME NEW i \in 1 .. 20
      PROVE  Place(Tables[i].name) = i /\ Tables[i].name # "secret"
  BY <1>1, <1>3
<1>6. ASSUME NEW i \in 1 .. 20, NEW r \in Tables[i].refs
      PROVE  Place(r) \in 1 .. i - 1
  BY <1>1, <1>4
<1>7. ASSUME NEW i \in 1 .. 20, NEW r \in Tables[i].refs
      PROVE  Tables[Place(r)].name = r
  BY <1>1, <1>3, <1>4
<1>8. Len(DroppedFirst \o DroppedLast) = 20
  BY DEF DroppedFirst, DroppedLast
<1>9. ASSUME NEW k \in 1 .. 20
      PROVE  (DroppedFirst \o DroppedLast)[k] = Tables[21 - k].name
  BY <1>3 DEF DroppedFirst, DroppedLast
<1>10. /\ Tables[2].name = "m8flow_tenant" /\ Tables[4].name = "user"
       /\ Tables[5].name = "bpmn_process_definition" /\ Tables[5].refs = {"m8flow_tenant"}
  BY <1>3, <1>4, Zenon
<1>11. DOMAIN Tables = 1 .. 20
  BY <1>2, Zenon
<1> QED
  BY <1>5, <1>6, <1>7, <1>8, <1>9, <1>10, <1>11, Zenon

\* The names as upgrade() creates the tables, and downgrade() drops them.
LEMMA NamesAre ==
    /\ DOMAIN Names = 1 .. 20 /\ Len(Names) = 20
    /\ LibraryTables = {Names[i] : i \in 1 .. 20}
    /\ \A i \in 1 .. 20 : Names[i] = Tables[i].name
    /\ \A i \in 1 .. 20 : Names[i] # "secret"
    /\ \A i, j \in 1 .. 20 : Names[i] = Names[j] => i = j
    /\ Names[2] = "m8flow_tenant" /\ Names[4] = "user"
    /\ Names[5] = "bpmn_process_definition"
<1>1. DOMAIN Names = 1 .. 20 /\ \A i \in 1 .. 20 : Names[i] = Tables[i].name
  BY TablesAre, Zenon DEF Names
<1>2. Len(Names) = 20
  BY <1>1
<1>3. LibraryTables = {Names[i] : i \in 1 .. 20}
  <2>1. DOMAIN Tables = 1 .. 20
    BY TablesAre, Zenon
  <2> QED
    BY <1>1, <2>1 DEF LibraryTables
<1>4. \A i \in 1 .. 20 : Names[i] # "secret"
  BY <1>1, TablesAre, Zenon
<1>5. \A i, j \in 1 .. 20 : Names[i] = Names[j] => i = j
  <2>1. \A i \in 1 .. 20 : Place(Names[i]) = i
    BY <1>1, TablesAre, Zenon
  <2> QED
    BY <2>1, Zenon
<1>6. 2 \in 1 .. 20 /\ 4 \in 1 .. 20 /\ 5 \in 1 .. 20
  OBVIOUS
<1>7. /\ Names[2] = "m8flow_tenant" /\ Names[4] = "user"
      /\ Names[5] = "bpmn_process_definition"
  BY <1>1, <1>6, TablesAre, Zenon
<1> QED
  BY <1>1, <1>2, <1>3, <1>4, <1>5, <1>7, Zenon

\* downgrade() drops in the opposite order.
LEMMA DroppedAre ==
    /\ Len(DroppedFirst \o DroppedLast) = 20
    /\ \A k \in 1 .. 20 : (DroppedFirst \o DroppedLast)[k] = Names[21 - k]
    /\ Len(Reversed(Names)) = 20
    /\ \A k \in 1 .. 20 : Reversed(Names)[k] = Names[21 - k]
<1>1. \A k \in 1 .. 20 : 21 - k \in 1 .. 20 /\ 20 + 1 - k = 21 - k
  OBVIOUS
<1>2. \A k \in 1 .. 20 : (DroppedFirst \o DroppedLast)[k] = Names[21 - k]
  BY <1>1, NamesAre, TablesAre, Zenon
<1>3. /\ DOMAIN Reversed(Names) = 1 .. 20
      /\ \A k \in 1 .. 20 : Reversed(Names)[k] = Names[21 - k]
  BY <1>1, NamesAre, Zenon DEF Reversed
<1>4. Len(Reversed(Names)) = 20
  BY <1>3
<1> QED
  BY <1>2, <1>3, <1>4, TablesAre, Zenon

\* The foreign keys of a table of the library.
LEMMA RefsAre ==
    ASSUME NEW i \in 1 .. 20, NEW d
    PROVE  /\ RefsOf(Names[i], d) = Tables[i].refs
           /\ \A r \in RefsOf(Names[i], d) : \E j \in 1 .. i - 1 : r = Names[j]
<1> DEFINE all == {Tables[j] : j \in DOMAIN Tables}
<1>1. Names[i] = Tables[i].name /\ Names[i] # "secret" /\ Tables[i] \in all
  BY NamesAre, TablesAre, Zenon
<1>2. \A x \in all : x.name = Names[i] => x = Tables[i]
  <2>1. \A j \in DOMAIN Tables : j \in 1 .. 20 /\ Place(Tables[j].name) = j
    BY TablesAre, Zenon
  <2>2. \A j \in DOMAIN Tables : Tables[j].name = Tables[i].name => j = i
    <3>1. Place(Tables[i].name) = i
      BY TablesAre, Zenon
    <3> QED
      BY <2>1, <3>1, Zenon
  <2> QED
    BY <1>1, <2>2, Zenon
<1>3. (CHOOSE x \in all : x.name = Names[i]) = Tables[i]
  <2> HIDE DEF all
  <2> QED
    BY <1>1, <1>2
<1>4. RefsOf(Names[i], d) = Tables[i].refs
  BY <1>1, <1>3, Zenon DEF RefsOf
<1>5. ASSUME NEW r \in Tables[i].refs PROVE \E j \in 1 .. i - 1 : r = Names[j]
  <2>1. Place(r) \in 1 .. i - 1 /\ Tables[Place(r)].name = r
    BY TablesAre, Zenon
  <2>2. Place(r) \in 1 .. 20
    BY <2>1
  <2> QED
    BY <2>1, <2>2, NamesAre, Zenon
<1> QED
  BY <1>4, <1>5, Zenon

-----------------------------------------------------------------------------
(***************************************************************************)
(* Statements and plans.                                                   *)
(***************************************************************************)

TableKinds ==
    {"create", "create missing", "create secret", "index", "unindex",
     "unindex present", "drop", "drop present", "drop type"}

Statements ==
    [kind : TableKinds, table : AllTables, version : {0}]
    \cup [kind : {"library"}, table : {"none"}, version : {0, 1}]
    \cup [kind : {"app"}, table : {"none"}, version : 0 .. 2]

\* The foreign keys of a secret table of revision 0002.
Keyed(w) ==
    "secret" \in w.tables /\ w.foreign = "none" =>
        "m8flow_tenant" \in w.tables /\ "user" \in w.tables

\* A statement on a table, and one on a version.
LEMMA StatementKinds ==
    ASSUME NEW s \in Statements
    PROVE  /\ s.kind \in TableKinds \cup {"library", "app"}
           /\ s.kind \in TableKinds => s.table \in AllTables
           /\ s.kind = "library" => s.version \in {0, 1}
           /\ s.kind = "app" => s.version \in 0 .. 2
BY Zenon DEF Statements, TableKinds

\* Which statements are never skipped.
LEMMA NeverSkipped ==
    ASSUME NEW s, NEW w,
           s.kind \in {"create", "index", "unindex", "drop", "drop present",
                      "drop type", "library", "app"}
    PROVE  ~Skips(s, w)
BY Zenon DEF Skips

\* There is one named type.
LEMMA NamedTypes == \A t : TypesOf(t) \subseteq {"tenantstatus"}
BY DEF TypesOf

\* The fields of the schema after a statement, for each kind.
Becomes(w, v, tables, indexed, foreign, library, app) ==
    /\ v \in Schemas
    /\ v.tables = tables /\ v.indexed = indexed /\ v.foreign = foreign
    /\ v.library = library /\ v.app = app

\* The schema after each kind of statement, field by field.
LEMMA After ==
    ASSUME NEW s \in Statements, NEW w \in Schemas, ~Skips(s, w)
    PROVE  /\ s.kind \in {"create", "create missing", "create secret"} =>
                 Becomes(w, Executed(s, w), w.tables \cup {s.table}, w.indexed,
                         w.foreign, w.library, w.app)
           /\ s.kind = "index" =>
                 Becomes(w, Executed(s, w), w.tables, w.indexed \cup {s.table},
                         w.foreign, w.library, w.app)
           /\ s.kind \in {"unindex", "unindex present"} =>
                 Becomes(w, Executed(s, w), w.tables, w.indexed \ {s.table},
                         w.foreign, w.library, w.app)
           /\ s.kind \in {"drop", "drop present"} =>
                 Becomes(w, Executed(s, w), w.tables \ {s.table}, w.indexed \ {s.table},
                         IF s.table = "secret" THEN "none" ELSE w.foreign,
                         w.library, w.app)
           /\ s.kind = "drop type" =>
                 Becomes(w, Executed(s, w), w.tables, w.indexed, w.foreign,
                         w.library, w.app)
           /\ s.kind = "library" =>
                 Becomes(w, Executed(s, w), w.tables, w.indexed, w.foreign,
                         s.version, w.app)
           /\ s.kind = "app" =>
                 Becomes(w, Executed(s, w), w.tables, w.indexed, w.foreign,
                         w.library, s.version)
<1>1. CASE s.kind \in {"create", "create missing", "create secret"}
  <2> DEFINE a == [w EXCEPT !.tables = w.tables \cup {s.table}]
             types == w.types \cup TypesOf(s.table)
  <2>1. s.table \in AllTables
    BY <1>1, StatementKinds DEF TableKinds
  <2>2. Executed(s, w) = [a EXCEPT !.types = types]
    <3>1. Executed(s, w) = [w EXCEPT !.tables = @ \cup {s.table},
                                     !.types = @ \cup TypesOf(s.table)]
      <4> HIDE DEF a, types
      <4> QED
        BY <1>1, Zenon DEF Executed
    <3> QED
      BY <3>1, Zenon
  <2>3. types \subseteq {"tenantstatus"}
    BY NamedTypes DEF Schemas
  <2>4. a \in Schemas /\ a.tables = w.tables \cup {s.table} /\ a.indexed = w.indexed
        /\ a.foreign = w.foreign /\ a.library = w.library /\ a.app = w.app
    BY <2>1 DEF Schemas
  <2> HIDE DEF a, types
  <2>5. Becomes(w, Executed(s, w), w.tables \cup {s.table}, w.indexed,
                w.foreign, w.library, w.app)
    BY <2>2, <2>3, <2>4 DEF Becomes, Schemas
  <2> QED
    BY <1>1, <2>5, Zenon
<1>2. CASE s.kind = "index"
  <2>1. Executed(s, w) = [w EXCEPT !.indexed = @ \cup {s.table}] /\ s.table \in AllTables
    BY <1>2, StatementKinds DEF TableKinds, Executed
  <2> QED
    BY <1>2, <2>1 DEF Becomes, Schemas
<1>3. CASE s.kind \in {"unindex", "unindex present"}
  <2>1. Executed(s, w) = [w EXCEPT !.indexed = @ \ {s.table}]
    BY <1>3 DEF Executed
  <2> QED
    BY <1>3, <2>1, Zenon DEF Becomes, Schemas
<1>4. CASE s.kind \in {"drop", "drop present"}
  <2> DEFINE f == IF s.table = "secret" THEN "none" ELSE w.foreign
             types == IF s.kind = "drop present" /\ s.table \in w.tables
                      THEN w.types \ TypesOf(s.table) ELSE w.types
             a == [w EXCEPT !.tables = @ \ {s.table}]
             b == [a EXCEPT !.indexed = w.indexed \ {s.table}]
             c == [b EXCEPT !.types = types]
  <2>1. Executed(s, w) = [c EXCEPT !.foreign = f]
    <3>1. Executed(s, w) =
             [w EXCEPT !.tables = @ \ {s.table}, !.indexed = @ \ {s.table},
                       !.types = IF s.kind = "drop present" /\ s.table \in w.tables
                                 THEN @ \ TypesOf(s.table) ELSE @,
                       !.foreign = IF s.table = "secret" THEN "none" ELSE @]
      <4> HIDE DEF a, b, c, f, types
      <4> QED
        BY <1>4, Zenon DEF Executed
    <3> QED
      BY <3>1, Zenon
  <2>2. a \in Schemas /\ a.tables = w.tables \ {s.table} /\ a.indexed = w.indexed
        /\ a.foreign = w.foreign /\ a.library = w.library /\ a.app = w.app
    BY DEF Schemas
  <2>3. f \in {"none", "compatible", "incompatible"}
    BY DEF Schemas
  <2>7. types \subseteq {"tenantstatus"}
    <3>1. w.types \subseteq {"tenantstatus"}
      BY DEF Schemas
    <3> QED
      BY <3>1, Zenon
  <2> HIDE DEF a, f, types
  <2>4. w.indexed \ {s.table} \subseteq AllTables
    BY DEF Schemas
  <2>5. b \in Schemas /\ b.tables = w.tables \ {s.table} /\ b.indexed = w.indexed \ {s.table}
        /\ b.foreign = w.foreign /\ b.library = w.library /\ b.app = w.app
    BY <2>2, <2>4 DEF Schemas
  <2> HIDE DEF b
  <2>8. c \in Schemas /\ c.tables = w.tables \ {s.table} /\ c.indexed = w.indexed \ {s.table}
        /\ c.foreign = w.foreign /\ c.library = w.library /\ c.app = w.app
    BY <2>5, <2>7 DEF Schemas
  <2> HIDE DEF c
  <2>6. Becomes(w, Executed(s, w), w.tables \ {s.table}, w.indexed \ {s.table},
                f, w.library, w.app)
    BY <2>1, <2>3, <2>8 DEF Becomes, Schemas
  <2> QED
    BY <1>4, <2>6, Zenon DEF f
<1>7. CASE s.kind = "drop type"
  <2>1. Executed(s, w) = [w EXCEPT !.types = @ \ TypesOf(s.table)]
    BY <1>7, Zenon DEF Executed
  <2>2. Becomes(w, Executed(s, w), w.tables, w.indexed, w.foreign, w.library, w.app)
    BY <2>1 DEF Becomes, Schemas
  <2> QED
    BY <1>7, <2>2, Zenon
<1>5. CASE s.kind = "library"
  <2>1. Executed(s, w) = [w EXCEPT !.library = s.version] /\ s.version \in {0, 1}
    BY <1>5, StatementKinds DEF Executed
  <2> QED
    BY <1>5, <2>1 DEF Becomes, Schemas
<1>6. CASE s.kind = "app"
  <2>1. Executed(s, w) = [w EXCEPT !.app = s.version] /\ s.version \in 0 .. 2
    BY <1>6, StatementKinds DEF Executed
  <2> QED
    BY <1>6, <2>1 DEF Becomes, Schemas
<1> QED
  BY <1>1, <1>2, <1>3, <1>4, <1>5, <1>6, <1>7, StatementKinds, Zenon DEF TableKinds

\* The named types after each kind of statement.
LEMMA TypesAfter ==
    ASSUME NEW s \in Statements, NEW w \in Schemas, ~Skips(s, w)
    PROVE  /\ s.kind \in {"create", "create missing", "create secret"} =>
                 Executed(s, w).types = w.types \cup TypesOf(s.table)
           /\ s.kind \in {"index", "unindex", "unindex present", "drop", "library", "app"} =>
                 Executed(s, w).types = w.types
           /\ s.kind = "drop present" =>
                 Executed(s, w).types =
                    IF s.table \in w.tables THEN w.types \ TypesOf(s.table) ELSE w.types
           /\ s.kind = "drop type" => Executed(s, w).types = w.types \ TypesOf(s.table)
<1> DEFINE fields == {"tables", "indexed", "types", "foreign", "library", "app"}
<1>1. DOMAIN w = fields
  BY Zenon DEF Schemas
<1>2. "types" \in fields /\ "types" # "tables" /\ "types" # "indexed"
      /\ "types" # "foreign" /\ "types" # "library" /\ "types" # "app"
  OBVIOUS
<1> HIDE DEF fields
<1>3. CASE s.kind \in {"create", "create missing", "create secret"}
  <2>1. Executed(s, w) = [w EXCEPT !.tables = @ \cup {s.table},
                                   !.types = @ \cup TypesOf(s.table)]
    BY <1>3, Zenon DEF Executed
  <2> QED
    BY <1>1, <1>2, <1>3, <2>1, Zenon
<1>4. CASE s.kind \in {"drop", "drop present"}
  <2>1. Executed(s, w) =
           [w EXCEPT !.tables = @ \ {s.table}, !.indexed = @ \ {s.table},
                     !.types = IF s.kind = "drop present" /\ s.table \in w.tables
                               THEN @ \ TypesOf(s.table) ELSE @,
                     !.foreign = IF s.table = "secret" THEN "none" ELSE @]
    BY <1>4, Zenon DEF Executed
  <2>2. Executed(s, w).types = IF s.kind = "drop present" /\ s.table \in w.tables
                               THEN w.types \ TypesOf(s.table) ELSE w.types
    BY <1>1, <1>2, <2>1, Zenon
  <2> QED
    BY <1>4, <2>2, Zenon
<1>5. CASE s.kind = "drop type"
  <2>1. Executed(s, w) = [w EXCEPT !.types = @ \ TypesOf(s.table)]
    BY <1>5, Zenon DEF Executed
  <2> QED
    BY <1>1, <1>2, <1>5, <2>1, Zenon
<1>6. CASE s.kind \in {"index", "unindex", "unindex present", "library", "app"}
  <2>1. \/ Executed(s, w) = [w EXCEPT !.indexed = @ \cup {s.table}]
        \/ Executed(s, w) = [w EXCEPT !.indexed = @ \ {s.table}]
        \/ Executed(s, w) = [w EXCEPT !.library = s.version]
        \/ Executed(s, w) = [w EXCEPT !.app = s.version]
    BY <1>6, Zenon DEF Executed
  <2>2. Executed(s, w).types = w.types
    BY <1>1, <1>2, <2>1, Zenon
  <2> QED
    BY <1>6, <2>2, Zenon
<1> QED
  BY <1>3, <1>4, <1>5, <1>6, Zenon

\* A function on 1 .. n is a sequence, and the same for two in a row.
LEMMA FunctionIsSeq ==
    ASSUME NEW S, NEW n \in Nat, NEW f \in [1 .. n -> S]
    PROVE  f \in Seq(S) /\ Len(f) = n
OBVIOUS

Follow(c, S, a, b) ==
    /\ c \in Seq(S) /\ Len(c) = Len(a) + Len(b)
    /\ \A i \in 1 .. Len(a) : c[i] = a[i]
    /\ \A i \in 1 .. Len(b) : c[i + Len(a)] = b[i]

\* What concatenation returns.
LEMMA InARow ==
    ASSUME NEW S, NEW a \in Seq(S), NEW b \in Seq(S), NEW c, c = a \o b
    PROVE  Follow(c, S, a, b)
BY DEF Follow

\* One more.
IsLonger(c, S, a, x) ==
    /\ c \in Seq(S) /\ Len(c) = Len(a) + 1 /\ c[Len(a) + 1] = x
    /\ \A i \in 1 .. Len(a) : c[i] = a[i]

\* And with one element.
LEMMA OneMore ==
    ASSUME NEW S, NEW a \in Seq(S), NEW x \in S, NEW c, c = a \o <<x>>
    PROVE  IsLonger(c, S, a, x)
BY DEF IsLonger

IsCut(c, S, s, m, n) ==
    /\ c \in Seq(S)
    /\ Len(c) = IF m <= n THEN n - m + 1 ELSE 0
    /\ \A i \in 1 .. n - m + 1 : c[i] = s[m + i - 1]

\* What SubSeq returns.
LEMMA Cut ==
    ASSUME NEW S, NEW s, NEW m \in Int, NEW n \in Int, \A i \in m .. n : s[i] \in S
    PROVE  IsCut(SubSeq(s, m, n), S, s, m, n)
<1>1. SubSeq(s, m, n) \in Seq(S)
  OBVIOUS
<1>2. Len(SubSeq(s, m, n)) = IF m <= n THEN n - m + 1 ELSE 0
  OBVIOUS
<1>3. \A i \in 1 .. n - m + 1 : SubSeq(s, m, n)[i] = s[m + i - 1]
  OBVIOUS
<1> QED
  BY <1>1, <1>2, <1>3 DEF IsCut

\* A sequence cut from its first element to its last is itself.
LEMMA WholeCut ==
    ASSUME NEW S, NEW s \in Seq(S)
    PROVE  SubSeq(s, 1, Len(s)) = s
OBVIOUS

\* Two sequences of one length with the same elements are the same.
LEMMA SameSequence ==
    ASSUME NEW S, NEW s \in Seq(S), NEW t \in Seq(S),
           Len(s) = Len(t), \A i \in 1 .. Len(s) : s[i] = t[i]
    PROVE  s = t
OBVIOUS

\* What is left of a plan from a position on.
Rest(P, pos) == SubSeq(P, pos, Len(P))

\* One or two statements further.
LEMMA RestStep ==
    ASSUME NEW S, NEW P \in Seq(S), NEW pos \in 1 .. Len(P) + 1, NEW p, p = Rest(P, pos)
    PROVE  /\ p # <<>> <=> pos <= Len(P)
           /\ pos <= Len(P) =>
                 Head(p) = P[pos] /\ SubSeq(p, 2, Len(p)) = Rest(P, pos + 1)
           /\ pos + 1 <= Len(P) => SubSeq(p, 3, Len(p)) = Rest(P, pos + 2)
<1>1. Len(P) \in Nat /\ pos \in Nat
  OBVIOUS
<1>2. p \in Seq(S) /\ Len(p) = Len(P) + 1 - pos
      /\ \A i \in 1 .. Len(P) + 1 - pos : p[i] = P[pos + i - 1]
  BY DEF Rest
<1>3. p # <<>> <=> pos <= Len(P)
  BY <1>1, <1>2
<1>4. ASSUME pos <= Len(P) PROVE Head(p) = P[pos]
  BY <1>1, <1>2, <1>4
<1>5. ASSUME NEW n \in {1, 2}, pos + n <= Len(P) + 1
      PROVE  SubSeq(p, n + 1, Len(p)) = Rest(P, pos + n)
  <2> DEFINE a == SubSeq(p, n + 1, Len(p))
             b == Rest(P, pos + n)
  <2>1. a \in Seq(S) /\ Len(a) = Len(P) + 1 - pos - n
        /\ \A i \in 1 .. Len(P) + 1 - pos - n : a[i] = p[n + i]
    BY <1>1, <1>2, <1>5
  <2>2. b \in Seq(S) /\ Len(b) = Len(P) + 1 - pos - n
        /\ \A i \in 1 .. Len(P) + 1 - pos - n : b[i] = P[pos + n + i - 1]
    <3>1. \A i \in pos + n .. Len(P) : P[i] \in S
      BY <1>1, <1>5
    <3>2. pos + n \in Int /\ Len(P) \in Int
      BY <1>1
    <3>3. IsCut(b, S, P, pos + n, Len(P))
      BY <3>1, <3>2, Cut, Zenon DEF Rest
    <3> HIDE DEF b
    <3>4. /\ b \in Seq(S)
          /\ Len(b) = IF pos + n <= Len(P) THEN Len(P) - (pos + n) + 1 ELSE 0
          /\ \A i \in 1 .. Len(P) - (pos + n) + 1 : b[i] = P[(pos + n) + i - 1]
      BY <3>3, Zenon DEF IsCut
    <3>5. Len(P) - (pos + n) + 1 = Len(P) + 1 - pos - n
      BY <1>1, <1>5
    <3>6. Len(b) = Len(P) + 1 - pos - n
      BY <1>1, <1>5, <3>4
    <3> QED
      BY <3>4, <3>5, <3>6, Zenon
  <2>3. ASSUME NEW i \in 1 .. Len(P) + 1 - pos - n
        PROVE  p[n + i] = P[pos + n + i - 1]
    <3>1. n + i \in 1 .. Len(P) + 1 - pos /\ pos + (n + i) - 1 = pos + n + i - 1
      BY <1>1, <1>5
    <3>2. p[n + i] = P[pos + (n + i) - 1]
      BY <1>2, <3>1, Zenon
    <3> QED
      BY <3>1, <3>2, Zenon
  <2> HIDE DEF a, b
  <2>4. Len(a) = Len(b) /\ \A i \in 1 .. Len(a) : a[i] = b[i]
    <3>1. Len(a) = Len(b)
      BY <2>1, <2>2, Zenon
    <3>2. ASSUME NEW i \in 1 .. Len(a) PROVE a[i] = b[i]
      BY <2>1, <2>2, <2>3, Zenon
    <3> QED
      BY <3>1, <3>2, Zenon
  <2>5. a = b
    BY <2>1, <2>2, <2>4, SameSequence, Zenon
  <2> QED
    BY <2>5 DEF a, b
<1>6. ASSUME pos <= Len(P) PROVE SubSeq(p, 2, Len(p)) = Rest(P, pos + 1)
  <2>1. 1 \in {1, 2} /\ pos + 1 <= Len(P) + 1 /\ 1 + 1 = 2
    BY <1>1, <1>6
  <2> QED
    BY <1>5, <2>1
<1>7. ASSUME pos + 1 <= Len(P) PROVE SubSeq(p, 3, Len(p)) = Rest(P, pos + 2)
  <2>1. 2 \in {1, 2} /\ pos + 2 <= Len(P) + 1 /\ 2 + 1 = 3
    BY <1>1, <1>7
  <2> QED
    BY <1>5, <2>1
<1> QED
  BY <1>3, <1>4, <1>6, <1>7

\* Two statements for every table.
TwoEach(Q, first, second, names) ==
    /\ Q \in Seq(Statements)
    /\ Len(Q) = 40
    /\ \A k \in 1 .. 20 : Q[2 * k - 1] = Do(first, names[k]) /\ Q[2 * k] = Do(second, names[k])

\* Pairs returns them.
LEMMA PairsAre ==
    ASSUME NEW first \in TableKinds, NEW second \in TableKinds, NEW names,
           Len(names) = 20, \A k \in 1 .. 20 : names[k] \in AllTables
    PROVE  TwoEach(Pairs(first, second, names), first, second, names)
<1> DEFINE S(i) == IF i % 2 = 1 THEN Do(first, names[(i + 1) \div 2])
                   ELSE Do(second, names[i \div 2])
           P == [i \in 1 .. 40 |-> S(i)]
<1>1. 2 * Len(names) = 40
  OBVIOUS
<1>2. Pairs(first, second, names) = P
  BY <1>1 DEF Pairs
<1>3. \A i \in 1 .. 40 : IF i % 2 = 1 THEN (i + 1) \div 2 \in 1 .. 20 ELSE i \div 2 \in 1 .. 20
  OBVIOUS
<1>4. \A k \in 1 .. 20 : Do(first, names[k]) \in Statements /\ Do(second, names[k]) \in Statements
  BY Zenon DEF Do, Statements
<1>5. P \in [1 .. 40 -> Statements]
  BY <1>3, <1>4, Zenon
<1>6. ASSUME NEW k \in 1 .. 20
      PROVE  P[2 * k - 1] = Do(first, names[k]) /\ P[2 * k] = Do(second, names[k])
  <2>1. /\ 2 * k - 1 \in 1 .. 40 /\ (2 * k - 1) % 2 = 1
        /\ ((2 * k - 1) + 1) \div 2 = k
    OBVIOUS
  <2>2. 2 * k \in 1 .. 40 /\ (2 * k) % 2 # 1 /\ (2 * k) \div 2 = k
    OBVIOUS
  <2> QED
    BY <2>1, <2>2, Zenon
<1> HIDE DEF P
<1>7. P \in Seq(Statements) /\ Len(P) = 40
  <2>1. PICK n \in Nat : n = 40
    OBVIOUS
  <2>2. P \in [1 .. n -> Statements]
    BY <1>5, <2>1, Zenon
  <2>3. P \in Seq(Statements) /\ Len(P) = n
    BY <2>2, FunctionIsSeq, Zenon
  <2> QED
    BY <2>1, <2>3
<1>8. TwoEach(P, first, second, names)
  BY <1>6, <1>7, Zenon DEF TwoEach
<1> QED
  BY <1>2, <1>8, Zenon

\* The plans of the four commands.
IsPairs(P, first, second, down) ==
    \A k \in 1 .. 20 :
        /\ P[2 * k - 1] = Do(first, Names[IF down THEN 21 - k ELSE k])
        /\ P[2 * k] = Do(second, Names[IF down THEN 21 - k ELSE k])

IsLibraryUp(P) ==
    /\ P \in Seq(Statements) /\ Len(P) = 41
    /\ IsPairs(P, "create", "index", FALSE)
    /\ P[41] = Stamp("library", 1)

IsLibraryDown(P) ==
    /\ P \in Seq(Statements) /\ Len(P) = 42
    /\ IsPairs(P, "unindex", "drop", TRUE)
    /\ P[41] = Do("drop type", "m8flow_tenant")
    /\ P[42] = Stamp("library", 0)

IsAppUp(P) ==
    /\ P \in Seq(Statements) /\ Len(P) = 44
    /\ IsPairs(P, "create missing", "index", FALSE)
    /\ P[41] = Stamp("app", 1)
    /\ P[42] = Do("create secret", "secret") /\ P[43] = Do("index", "secret")
    /\ P[44] = Stamp("app", 2)

IsAppDown(P) ==
    /\ P \in Seq(Statements) /\ Len(P) = 24
    /\ P[1] = Do("unindex present", "secret") /\ P[2] = Do("drop", "secret")
    /\ P[3] = Stamp("app", 1)
    /\ \A k \in 1 .. 20 : P[k + 3] = Do("drop present", Names[21 - k])
    /\ P[24] = Stamp("app", 0)

\* Only the statements themselves matter.
LEMMA SamePairs ==
    ASSUME NEW P, NEW Q, NEW first, NEW second, NEW down,
           IsPairs(Q, first, second, down), \A i \in 1 .. 41 : P[i] = Q[i]
    PROVE  IsPairs(P, first, second, down)
<1>1. \A k \in 1 .. 20 : 2 * k - 1 \in 1 .. 41 /\ 2 * k \in 1 .. 41
  OBVIOUS
<1> QED
  BY <1>1, Zenon DEF IsPairs

\* Tables and versions as statements have them.
LEMMA StatementsAre ==
    /\ \A k \in 1 .. 20 : Names[k] \in AllTables /\ 21 - k \in 1 .. 20
    /\ Stamp("library", 0) \in Statements /\ Stamp("library", 1) \in Statements
    /\ Stamp("app", 0) \in Statements /\ Stamp("app", 1) \in Statements
    /\ Stamp("app", 2) \in Statements
    /\ \A kind \in TableKinds, t \in AllTables : Do(kind, t) \in Statements
<1>1. \A k \in 1 .. 20 : Names[k] \in AllTables /\ 21 - k \in 1 .. 20
  <2>1. \A k \in 1 .. 20 : 21 - k \in 1 .. 20
    OBVIOUS
  <2> QED
    BY <2>1, NamesAre, Zenon DEF AllTables
<1>2. \A kind \in TableKinds, t \in AllTables : Do(kind, t) \in Statements
  BY DEF Do, Statements
<1>3. Stamp("library", 0) \in Statements /\ Stamp("library", 1) \in Statements
  BY DEF Stamp, Statements
<1>4. /\ Stamp("app", 0) \in Statements /\ Stamp("app", 1) \in Statements
      /\ Stamp("app", 2) \in Statements
  BY DEF Stamp, Statements
<1> QED
  BY <1>1, <1>2, <1>3, <1>4, Zenon

\* The places of the pairs.
LEMMA TwoByTwo == \A k \in 1 .. 20 : 2 * k - 1 \in 1 .. 40 /\ 2 * k \in 1 .. 40
OBVIOUS

\* Pairs, and a statement after them.
Stamped(P, first, second, down, stamp) ==
    /\ P \in Seq(Statements) /\ Len(P) = 41 /\ P[41] = stamp
    /\ IsPairs(P, first, second, down)

\* They are what the plans of the library and of revision 0001 consist of.
LEMMA PairsThenStamp ==
    ASSUME NEW first \in TableKinds, NEW second \in TableKinds, NEW down \in BOOLEAN,
           NEW names, Len(names) = 20,
           \A k \in 1 .. 20 : names[k] = Names[IF down THEN 21 - k ELSE k],
           NEW stamp \in Statements, NEW P, P = Pairs(first, second, names) \o <<stamp>>
    PROVE  Stamped(P, first, second, down, stamp)
<1> DEFINE Q == Pairs(first, second, names)
<1>1. \A k \in 1 .. 20 : names[k] \in AllTables
  BY StatementsAre, Zenon
<1>2. /\ Q \in Seq(Statements) /\ Len(Q) = 40
      /\ \A k \in 1 .. 20 : Q[2 * k - 1] = Do(first, names[k]) /\ Q[2 * k] = Do(second, names[k])
  <2>1. TwoEach(Q, first, second, names)
    BY <1>1, PairsAre, Zenon
  <2> HIDE DEF Q
  <2> QED
    BY <2>1, Zenon DEF TwoEach
<1> HIDE DEF Q
<1>3. P = Q \o <<stamp>>
  BY DEF Q
<1>4. P \in Seq(Statements) /\ Len(P) = 41 /\ P[41] = stamp
      /\ \A i \in 1 .. 40 : P[i] = Q[i]
  <2>1. /\ P \in Seq(Statements) /\ Len(P) = Len(Q) + 1 /\ P[Len(Q) + 1] = stamp
        /\ \A i \in 1 .. Len(Q) : P[i] = Q[i]
    <3>1. IsLonger(P, Statements, Q, stamp)
      BY <1>2, <1>3, OneMore, Zenon
    <3> QED
      BY <3>1, Zenon DEF IsLonger
  <2>2. \A a : a = 40 => a + 1 = 41
    OBVIOUS
  <2>3. Len(Q) = 40 /\ Len(Q) + 1 = 41
    BY <1>2, <2>2, Zenon
  <2> QED
    BY <2>1, <2>3, Zenon
<1>6. \A k \in 1 .. 20 : P[2 * k - 1] = Do(first, names[k]) /\ P[2 * k] = Do(second, names[k])
  BY <1>2, <1>4, TwoByTwo, Zenon
<1>7. IsPairs(P, first, second, down)
  BY <1>6, Zenon DEF IsPairs
<1> QED
  BY <1>4, <1>7, Zenon DEF Stamped

\* The library's plans are these.
LEMMA LibraryPlansAre ==
    ASSUME NEW d
    PROVE  /\ d.library = 1 => PlanOf("library upgrade", d) = <<>>
           /\ d.library = 0 => IsLibraryUp(PlanOf("library upgrade", d))
           /\ d.library = 0 => PlanOf("library downgrade", d) = <<>>
           /\ d.library = 1 => IsLibraryDown(PlanOf("library downgrade", d))
<1>1. "create" \in TableKinds /\ "index" \in TableKinds
      /\ "unindex" \in TableKinds /\ "drop" \in TableKinds
  BY DEF TableKinds
<1>2. ASSUME d.library = 1 PROVE PlanOf("library upgrade", d) = <<>>
  BY <1>2 DEF PlanOf
<1>3. ASSUME d.library = 0 PROVE PlanOf("library downgrade", d) = <<>>
  BY <1>3 DEF PlanOf
<1>4. ASSUME d.library = 0 PROVE IsLibraryUp(PlanOf("library upgrade", d))
  <2> DEFINE P == PlanOf("library upgrade", d)
             names == Names
  <2>1. P = Pairs("create", "index", names) \o <<Stamp("library", 1)>>
    BY <1>4 DEF PlanOf, BaselineUpgrade
  <2>2. Len(names) = 20 /\ \A k \in 1 .. 20 : names[k] = Names[IF FALSE THEN 21 - k ELSE k]
    BY NamesAre, Zenon
  <2>3. Stamp("library", 1) \in Statements /\ FALSE \in BOOLEAN
    BY StatementsAre
  <2> HIDE DEF P, names
  <2>4. Stamped(P, "create", "index", FALSE, Stamp("library", 1))
    BY <1>1, <2>1, <2>2, <2>3, PairsThenStamp, Zenon
  <2>5. IsLibraryUp(P)
    BY <2>4, Zenon DEF IsLibraryUp, Stamped
  <2> QED
    BY <2>5, Zenon DEF P
<1>5. ASSUME d.library = 1 PROVE IsLibraryDown(PlanOf("library downgrade", d))
  <2> DEFINE P == PlanOf("library downgrade", d)
             names == DroppedFirst \o DroppedLast
             type == Do("drop type", "m8flow_tenant")
             Q == Pairs("unindex", "drop", names) \o <<type>>
  <2>1. P = Q \o <<Stamp("library", 0)>>
    BY <1>5, Zenon DEF PlanOf, BaselineDowngrade
  <2>2. Len(names) = 20 /\ \A k \in 1 .. 20 : names[k] = Names[IF TRUE THEN 21 - k ELSE k]
    BY DroppedAre, Zenon
  <2>3. Stamp("library", 0) \in Statements /\ type \in Statements /\ TRUE \in BOOLEAN
    <3>1. "drop type" \in TableKinds /\ "m8flow_tenant" \in AllTables
      <4>1. 2 \in 1 .. 20
        OBVIOUS
      <4> QED
        BY <4>1, StatementsAre, NamesAre, Zenon DEF TableKinds
    <3> QED
      BY <3>1, StatementsAre, Zenon
  <2>6. \A q : q = Q => q = Pairs("unindex", "drop", names) \o <<type>>
    OBVIOUS
  <2> HIDE DEF P, names, type, Q
  <2>4. Stamped(Q, "unindex", "drop", TRUE, type)
    BY <1>1, <2>2, <2>3, <2>6, PairsThenStamp, Zenon
  <2>7. /\ P \in Seq(Statements) /\ Len(P) = 42 /\ P[42] = Stamp("library", 0)
        /\ \A i \in 1 .. 41 : P[i] = Q[i]
    <3>1. Q \in Seq(Statements) /\ Len(Q) = 41
      BY <2>4, Zenon DEF Stamped
    <3>2. IsLonger(P, Statements, Q, Stamp("library", 0))
      BY <2>1, <2>3, <3>1, OneMore, Zenon
    <3>3. /\ P \in Seq(Statements) /\ Len(P) = Len(Q) + 1
          /\ P[Len(Q) + 1] = Stamp("library", 0)
          /\ \A i \in 1 .. Len(Q) : P[i] = Q[i]
      BY <3>2, Zenon DEF IsLonger
    <3>4. Len(Q) + 1 = 42
      BY <3>1
    <3> QED
      BY <3>1, <3>3, <3>4, Zenon
  <2>8. IsPairs(P, "unindex", "drop", TRUE) /\ P[41] = type
    <3>1. 41 \in 1 .. 41
      OBVIOUS
    <3> QED
      BY <2>4, <2>7, <3>1, SamePairs, Zenon DEF Stamped
  <2>5. IsLibraryDown(P)
    BY <2>7, <2>8, Zenon DEF IsLibraryDown, type
  <2> QED
    BY <2>5, Zenon DEF P
<1> QED
  BY <1>2, <1>3, <1>4, <1>5, Zenon

\* Revision 0002 alone.
IsSecondUp(E) ==
    /\ E \in Seq(Statements) /\ Len(E) = 3
    /\ E[1] = Do("create secret", "secret") /\ E[2] = Do("index", "secret")
    /\ E[3] = Stamp("app", 2)

\* The statements of its upgrade.
LEMMA Upgrade2Is == IsSecondUp(Upgrade2)
<1>1. ASSUME NEW x \in Statements, NEW y \in Statements, NEW z \in Statements,
             Upgrade2 = <<x, y, z>>
      PROVE  /\ Upgrade2 \in Seq(Statements) /\ Len(Upgrade2) = 3
             /\ Upgrade2[1] = x /\ Upgrade2[2] = y /\ Upgrade2[3] = z
  BY <1>1
<1>2. "create secret" \in TableKinds /\ "index" \in TableKinds /\ "secret" \in AllTables
  BY Zenon DEF TableKinds, AllTables
<1>3. Do("create secret", "secret") \in Statements /\ Do("index", "secret") \in Statements
      /\ Stamp("app", 2) \in Statements
  BY <1>2, StatementsAre, Zenon
<1>4. Upgrade2 = <<Do("create secret", "secret"), Do("index", "secret"), Stamp("app", 2)>>
  BY DEF Upgrade2
<1>5. /\ Upgrade2 \in Seq(Statements) /\ Len(Upgrade2) = 3
      /\ Upgrade2[1] = Do("create secret", "secret")
      /\ Upgrade2[2] = Do("index", "secret") /\ Upgrade2[3] = Stamp("app", 2)
  BY <1>1, <1>3, <1>4, Zenon
<1> QED
  BY <1>5, Zenon DEF IsSecondUp

\* Revision 0001 taken back alone.
IsFirstDown(Q) ==
    /\ Q \in Seq(Statements) /\ Len(Q) = 21
    /\ \A k \in 1 .. 20 : Q[k] = Do("drop present", Names[21 - k])
    /\ Q[21] = Stamp("app", 0)

\* The statements of its downgrade.
LEMMA Downgrade1Is == IsFirstDown(Downgrade1)
<1> DEFINE Q == Downgrade1
           drops == [i \in DOMAIN Names |-> Do("drop present", Reversed(Names)[i])]
           last == <<Stamp("app", 0)>>
<1>1. Q = drops \o last
  BY DEF Downgrade1
<1>2. \A k \in 1 .. 20 : /\ drops[k] = Do("drop present", Names[21 - k])
                         /\ drops[k] \in Statements
  <2>1. \A k \in 1 .. 20 : drops[k] = Do("drop present", Names[21 - k])
    BY NamesAre, DroppedAre, Zenon
  <2>2. "drop present" \in TableKinds
    BY Zenon DEF TableKinds
  <2> HIDE DEF drops
  <2> QED
    BY <2>1, <2>2, StatementsAre, Zenon
<1>3. drops \in [1 .. 20 -> Statements]
  BY <1>2, NamesAre, Zenon
<1>4. last \in Seq(Statements) /\ Len(last) = 1 /\ last[1] = Stamp("app", 0)
  <2>1. ASSUME NEW x \in Statements
        PROVE  <<x>> \in Seq(Statements) /\ Len(<<x>>) = 1 /\ <<x>>[1] = x
    OBVIOUS
  <2>2. Stamp("app", 0) \in Statements
    BY StatementsAre, Zenon
  <2> QED
    BY <2>1, <2>2, Zenon
<1> HIDE DEF Q, drops, last
<1>5. drops \in Seq(Statements) /\ Len(drops) = 20
  <2>1. PICK n \in Nat : n = 20
    OBVIOUS
  <2>2. drops \in [1 .. n -> Statements]
    BY <1>3, <2>1, Zenon
  <2>3. drops \in Seq(Statements) /\ Len(drops) = n
    BY <2>2, FunctionIsSeq, Zenon
  <2> QED
    BY <2>1, <2>3
<1>6. Follow(Q, Statements, drops, last)
  BY <1>1, <1>4, <1>5, InARow, Zenon
<1>7. /\ Q \in Seq(Statements) /\ Len(Q) = 21
      /\ \A k \in 1 .. 20 : Q[k] = drops[k]
      /\ Q[21] = Stamp("app", 0)
  BY <1>4, <1>5, <1>6 DEF Follow
<1>8. IsFirstDown(Q)
  BY <1>2, <1>7, Zenon DEF IsFirstDown
<1> QED
  BY <1>8 DEF Q

\* And the application's.
LEMMA AppPlansAre ==
    ASSUME NEW d
    PROVE  /\ d.app = 2 => PlanOf("app upgrade", d) = <<>>
           /\ d.app = 0 => IsAppUp(PlanOf("app upgrade", d))
           /\ d.app = 0 => PlanOf("app downgrade", d) = <<>>
           /\ d.app = 2 => IsAppDown(PlanOf("app downgrade", d))
<1>1. /\ "create missing" \in TableKinds /\ "index" \in TableKinds
      /\ "create secret" \in TableKinds /\ "unindex present" \in TableKinds
      /\ "drop" \in TableKinds /\ "drop present" \in TableKinds
      /\ "secret" \in AllTables
  BY DEF TableKinds, AllTables
<1>2. ASSUME d.app = 2 PROVE PlanOf("app upgrade", d) = <<>>
  BY <1>2 DEF PlanOf
<1>3. ASSUME d.app = 0 PROVE PlanOf("app downgrade", d) = <<>>
  BY <1>3 DEF PlanOf
<1>4. ASSUME d.app = 0 PROVE IsAppUp(PlanOf("app upgrade", d))
  <2> DEFINE P == PlanOf("app upgrade", d)
             Q == Upgrade1
             E == Upgrade2
             names == Names
  <2>1. P = Q \o E
    BY <1>4 DEF PlanOf
  <2>2. Q = Pairs("create missing", "index", names) \o <<Stamp("app", 1)>>
    BY DEF Upgrade1
  <2>3. Len(names) = 20 /\ \A k \in 1 .. 20 : names[k] = Names[IF FALSE THEN 21 - k ELSE k]
    BY NamesAre, Zenon
  <2>4. Stamp("app", 1) \in Statements /\ FALSE \in BOOLEAN
    BY StatementsAre, Zenon
  <2> HIDE DEF P, Q, E, names
  <2>7. Stamped(Q, "create missing", "index", FALSE, Stamp("app", 1))
    BY <1>1, <2>2, <2>3, <2>4, PairsThenStamp, Zenon
  <2>8. /\ E \in Seq(Statements) /\ Len(E) = 3 /\ E[1] = Do("create secret", "secret")
        /\ E[2] = Do("index", "secret") /\ E[3] = Stamp("app", 2)
    BY Upgrade2Is, Zenon DEF IsSecondUp, E
  <2>9. Follow(P, Statements, Q, E)
    BY <2>1, <2>7, <2>8, InARow, Zenon DEF Stamped
  <2>10. /\ P \in Seq(Statements) /\ Len(P) = 44
         /\ \A i \in 1 .. 41 : P[i] = Q[i]
         /\ P[42] = E[1] /\ P[43] = E[2] /\ P[44] = E[3]
    <3>1. Len(Q) = 41 /\ Len(E) = 3
      BY <2>7, <2>8, Zenon DEF Stamped
    <3> QED
      BY <2>9, <3>1 DEF Follow
  <2>12. IsPairs(P, "create missing", "index", FALSE)
    <3>1. IsPairs(Q, "create missing", "index", FALSE)
      BY <2>7, Zenon DEF Stamped
    <3> QED
      BY <2>10, <3>1, SamePairs, Zenon
  <2>13. P[41] = Stamp("app", 1)
    <3>1. Q[41] = Stamp("app", 1)
      BY <2>7, Zenon DEF Stamped
    <3>2. 41 \in 1 .. 41
      OBVIOUS
    <3> QED
      BY <2>10, <3>1, <3>2, Zenon
  <2>14. IsAppUp(P)
    BY <2>8, <2>10, <2>12, <2>13, Zenon DEF IsAppUp
  <2> QED
    BY <2>14 DEF P
<1>5. ASSUME d.app = 2 PROVE IsAppDown(PlanOf("app downgrade", d))
  <2> DEFINE P == PlanOf("app downgrade", d)
             E == Downgrade2
             Q == Downgrade1
  <2>1. P = E \o Q
    BY <1>5 DEF PlanOf
  <2>5. /\ Stamp("app", 1) \in Statements
        /\ Do("unindex present", "secret") \in Statements /\ Do("drop", "secret") \in Statements
    BY <1>1, StatementsAre, Zenon
  <2>7. ASSUME NEW x \in Statements, NEW y \in Statements, NEW z \in Statements, E = <<x, y, z>>
        PROVE  E \in Seq(Statements) /\ Len(E) = 3 /\ E[1] = x /\ E[2] = y /\ E[3] = z
    BY <2>7
  <2>8. E = <<Do("unindex present", "secret"), Do("drop", "secret"), Stamp("app", 1)>>
    BY DEF Downgrade2
  <2> HIDE DEF P, Q, E
  <2>9. /\ E \in Seq(Statements) /\ Len(E) = 3 /\ E[1] = Do("unindex present", "secret")
        /\ E[2] = Do("drop", "secret") /\ E[3] = Stamp("app", 1)
    BY <2>5, <2>7, <2>8, Zenon
  <2>12. /\ Q \in Seq(Statements) /\ Len(Q) = 21
         /\ \A k \in 1 .. 20 : Q[k] = Do("drop present", Names[21 - k])
         /\ Q[21] = Stamp("app", 0)
    BY Downgrade1Is, Zenon DEF IsFirstDown, Q
  <2>13. Follow(P, Statements, E, Q)
    BY <2>1, <2>9, <2>12, InARow, Zenon
  <2>14. /\ P \in Seq(Statements) /\ Len(P) = 24
         /\ P[1] = E[1] /\ P[2] = E[2] /\ P[3] = E[3]
         /\ \A k \in 1 .. 20 : P[k + 3] = Q[k]
         /\ P[24] = Q[21]
    <3>1. Len(E) = 3 /\ Len(Q) = 21
      BY <2>9, <2>12, Zenon
    <3> QED
      BY <2>13, <3>1 DEF Follow
  <2>15. \A k \in 1 .. 20 : P[k + 3] = Do("drop present", Names[21 - k])
    BY <2>12, <2>14, Zenon
  <2>16. IsAppDown(P)
    BY <2>9, <2>12, <2>14, <2>15, Zenon DEF IsAppDown
  <2> QED
    BY <2>16, Zenon DEF P
<1> QED
  BY <1>2, <1>3, <1>4, <1>5, Zenon

-----------------------------------------------------------------------------
(***************************************************************************)
(* A command on PostgreSQL: what its transaction has made of the database  *)
(* d when it has come to a position of its plan.                           *)
(***************************************************************************)

\* The table of tenants has its type, and nothing else has one.
Typed(w) ==
    w.types = IF "m8flow_tenant" \in w.tables THEN {"tenantstatus"} ELSE {}

\* The tables of the library up to a position of the two upgrades.
TablesUp(d, w, pos) ==
    /\ \A k \in 1 .. 20 : Names[k] \in w.tables <=> Names[k] \in d.tables \/ 2 * k <= pos
    /\ \A k \in 1 .. 20 : Names[k] \in d.indexed \/ 2 * k < pos => Names[k] \in w.indexed

LibraryUp(d, w, pos) ==
    /\ pos \in 1 .. 42 /\ d.library = 0
    /\ TablesUp(d, w, pos)
    /\ "secret" \in w.tables <=> "secret" \in d.tables
    /\ "secret" \in d.indexed => "secret" \in w.indexed
    /\ w.foreign = d.foreign /\ w.app = d.app
    /\ Typed(w)

AppUp(d, w, pos) ==
    /\ pos \in 1 .. 45 /\ d.app = 0
    /\ TablesUp(d, w, pos)
    /\ "secret" \in w.tables <=> "secret" \in d.tables \/ pos > 42
    /\ "secret" \in d.indexed \/ (pos > 43 /\ "secret" \notin d.tables) => "secret" \in w.indexed
    /\ w.foreign = d.foreign
    /\ pos > 42 => d.foreign # "incompatible"
    /\ pos = 45 => w.app = 2
    /\ Typed(w)

LibraryDown(d, w, pos) ==
    /\ pos \in 1 .. 43 /\ d.library = 1
    /\ \A k \in 1 .. 20 : Names[k] \in w.tables <=> Names[k] \in d.tables /\ pos <= 42 - 2 * k
    /\ \A k \in 1 .. 20 : Names[k] \in d.indexed /\ pos <= 41 - 2 * k => Names[k] \in w.indexed
    /\ "secret" \in w.tables <=> "secret" \in d.tables
    /\ "secret" \in d.indexed => "secret" \in w.indexed
    /\ w.foreign = d.foreign /\ w.app = d.app
    /\ Keyed(w)
    /\ pos > 41 => w.types = {}

AppDown(d, w, pos) ==
    /\ pos \in 1 .. 25 /\ d.app = 2
    /\ \A k \in 1 .. 20 : Names[k] \in w.tables <=> Names[k] \in d.tables /\ pos <= 24 - k
    /\ "secret" \in w.tables <=> "secret" \in d.tables /\ pos <= 2
    /\ pos = 1 => w.indexed = d.indexed
    /\ pos = 2 => "secret" \in d.tables
    /\ pos <= 2 => w.foreign = d.foreign
    /\ pos > 2 => w.foreign = "none"
    /\ pos = 25 => w.app = 0
    /\ Typed(w)

Runs(c, d, w, pos) ==
    \/ c = "library upgrade" /\ LibraryUp(d, w, pos)
    \/ c = "library downgrade" /\ LibraryDown(d, w, pos)
    \/ c = "app upgrade" /\ AppUp(d, w, pos)
    \/ c = "app downgrade" /\ AppDown(d, w, pos)

\* A running command: it had nothing to do, or is somewhere in its plan.
Underway ==
    \/ plan = <<>> /\ work = db
    \/ \E pos \in 1 .. 45 :
          /\ plan = Rest(PlanOf(command, db), pos)
          /\ work \in Schemas
          /\ Runs(command, db, work, pos)

\* The inductive invariant of the two histories on PostgreSQL.
SchemaInv ==
    Checked =>
        /\ SoundDatabase(db)
        /\ command = "none" => plan = <<>>
        /\ command # "none" => Underway

-----------------------------------------------------------------------------
(***************************************************************************)
(* What a database accepts, and what becomes of it.                        *)
(***************************************************************************)

\* The tables there can be.
LEMMA NameOrSecret ==
    ASSUME NEW w \in Schemas, NEW t \in w.tables
    PROVE  t = "secret" \/ \E k \in 1 .. 20 : t = Names[k]
BY NamesAre DEF Schemas, AllTables

\* The foreign keys of a table of the library go to tables before it.
LEMMA RefsAreEarlier ==
    ASSUME NEW i \in 1 .. 20, NEW w, NEW r \in RefsOf(Names[i], w)
    PROVE  \E j \in 1 .. 20 : j < i /\ r = Names[j]
<1>1. \A s \in RefsOf(Names[i], w) : \E j \in 1 .. i - 1 : s = Names[j]
  BY RefsAre
<1>2. PICK j \in 1 .. i - 1 : r = Names[j]
  BY <1>1, Zenon
<1> QED
  BY <1>2

\* And those of a secret table of this application to tenants and users.
LEMMA SecretRefs ==
    ASSUME NEW w
    PROVE  /\ RefsOf("secret", w) =
                 IF w.foreign = "none" THEN {"m8flow_tenant", "user"} ELSE {}
           /\ SecretTable.refs = {"m8flow_tenant", "user"}
           /\ "m8flow_tenant" = Names[2] /\ "user" = Names[4]
BY NamesAre DEF RefsOf, SecretTable, T

\* A table can be created when those before it are there.
LEMMA CreatableInOrder ==
    ASSUME NEW w \in Schemas, NEW k \in 1 .. 20, Names[k] \notin w.tables,
           \A j \in 1 .. 20 : j < k => Names[j] \in w.tables
    PROVE  Creatable(Names[k], w)
<1>1. RefsOf(Names[k], w) \subseteq w.tables
  BY RefsAreEarlier
<1> QED
  BY <1>1 DEF Creatable

\* A table can be dropped when those after it are gone, if no secrets refer to it.
LEMMA DroppableInOrder ==
    ASSUME NEW w \in Schemas, NEW k \in 1 .. 20, Names[k] \in w.tables,
           \A j \in 1 .. 20 : Names[j] \in w.tables => j <= k,
           "secret" \in w.tables => Names[k] \notin RefsOf("secret", w)
    PROVE  Droppable(Names[k], w)
<1>1. ASSUME NEW other \in w.tables \ {Names[k]}, Names[k] \in RefsOf(other, w) PROVE FALSE
  <2>1. PICK i \in 1 .. 20 : other = Names[i]
    BY <1>1, NameOrSecret, Zenon
  <2>2. PICK j \in 1 .. 20 : j < i /\ Names[k] = Names[j]
    BY <1>1, <2>1, RefsAreEarlier, Zenon
  <2>3. j = k
    BY <2>2, NamesAre, Zenon
  <2>4. i <= k
    BY <2>1
  <2> QED
    BY <2>2, <2>3, <2>4
<1> QED
  BY <1>1, Zenon DEF Droppable

\* Nothing refers to the secret table.
LEMMA SecretDroppable ==
    ASSUME NEW w \in Schemas, "secret" \in w.tables
    PROVE  Droppable("secret", w)
<1>1. ASSUME NEW other \in w.tables \ {"secret"}, "secret" \in RefsOf(other, w) PROVE FALSE
  <2>1. PICK i \in 1 .. 20 : other = Names[i]
    BY <1>1, NameOrSecret, Zenon
  <2>2. PICK j \in 1 .. 20 : j < i /\ "secret" = Names[j]
    BY <1>1, <2>1, RefsAreEarlier, Zenon
  <2> QED
    BY <2>2, NamesAre, Zenon
<1> QED
  BY <1>1, Zenon DEF Droppable

\* Each kind of statement: when it is accepted, and when it is skipped.
LEMMA Accepts ==
    /\ \A t, w : Accepted(Do("create", t), w) <=>
                    Creatable(t, w) /\ TypesOf(t) \cap w.types = {}
    /\ \A t, w : Accepted(Do("create missing", t), w) <=> t \in w.tables \/ Creatable(t, w)
    /\ \A w : Accepted(Do("create secret", "secret"), w) <=>
                 IF "secret" \in w.tables THEN w.foreign # "incompatible"
                 ELSE Creatable("secret", w)
    /\ \A t, w : Accepted(Do("index", t), w)
    /\ \A t, w : Accepted(Do("unindex", t), w) <=> t \in w.indexed
    /\ \A t, w : Accepted(Do("unindex present", t), w) <=> (t \in w.tables => t \in w.indexed)
    /\ \A t, w : Accepted(Do("drop", t), w) <=> Droppable(t, w)
    /\ \A t, w : Accepted(Do("drop present", t), w) <=> (t \in w.tables => Droppable(t, w))
    /\ \A t, w : t \notin w.tables => Accepted(Do("drop type", t), w)
    /\ \A version, w : Accepted(Stamp("library", version), w)
    /\ \A version, w : Accepted(Stamp("app", version), w)
<1>1. ASSUME NEW t, NEW w
      PROVE  /\ Accepted(Do("create", t), w) <=>
                   Creatable(t, w) /\ TypesOf(t) \cap w.types = {}
             /\ Accepted(Do("create missing", t), w) <=> t \in w.tables \/ Creatable(t, w)
             /\ Accepted(Do("create secret", "secret"), w) <=>
                   IF "secret" \in w.tables THEN w.foreign # "incompatible"
                   ELSE Creatable("secret", w)
  BY DEF Accepted, Do
<1>2. ASSUME NEW t, NEW w
      PROVE  /\ Accepted(Do("index", t), w)
             /\ Accepted(Do("unindex", t), w) <=> t \in w.indexed
             /\ Accepted(Do("unindex present", t), w) <=> (t \in w.tables => t \in w.indexed)
  BY DEF Accepted, Do
<1>3. ASSUME NEW t, NEW w
      PROVE  /\ Accepted(Do("drop", t), w) <=> Droppable(t, w)
             /\ Accepted(Do("drop present", t), w) <=> (t \in w.tables => Droppable(t, w))
             /\ t \notin w.tables => Accepted(Do("drop type", t), w)
  BY DEF Accepted, Do
<1>4. ASSUME NEW w, NEW version
      PROVE  Accepted(Stamp("library", version), w) /\ Accepted(Stamp("app", version), w)
  BY DEF Accepted, Stamp
<1> QED
  BY <1>1, <1>2, <1>3, <1>4, Zenon

\* When it is skipped.
LEMMA Skipping ==
    /\ \A kind \in {"create", "index", "unindex", "drop", "drop present", "drop type"} :
          \A t, w : ~Skips(Do(kind, t), w)
    /\ \A t, w : Skips(Do("create missing", t), w) <=> t \in w.tables
    /\ \A t, w : Skips(Do("create secret", t), w) <=> t \in w.tables
    /\ \A t, w : Skips(Do("unindex present", t), w) <=> t \notin w.tables
    /\ \A version, w : ~Skips(Stamp("library", version), w)
    /\ \A version, w : ~Skips(Stamp("app", version), w)
BY DEF Skips, Do, Stamp

\* What becomes of the schema.
LEMMA Create ==
    ASSUME NEW w \in Schemas, NEW t \in AllTables,
           NEW kind \in {"create", "create missing", "create secret"}, ~Skips(Do(kind, t), w)
    PROVE  Becomes(w, Executed(Do(kind, t), w), w.tables \cup {t}, w.indexed,
                   w.foreign, w.library, w.app)
<1>1. Do(kind, t) \in Statements /\ Do(kind, t).kind = kind /\ Do(kind, t).table = t
  BY Zenon DEF Do, Statements, TableKinds
<1> QED
  BY <1>1, After, Zenon

\* CREATE INDEX.
LEMMA Index ==
    ASSUME NEW w \in Schemas, NEW t \in AllTables
    PROVE  Becomes(w, Executed(Do("index", t), w), w.tables, w.indexed \cup {t},
                   w.foreign, w.library, w.app)
<1>1. Do("index", t) \in Statements /\ Do("index", t).kind = "index" /\ Do("index", t).table = t
  BY DEF Do, Statements, TableKinds
<1> QED
  BY <1>1, After, Skipping, Zenon

\* DROP INDEX.
LEMMA Unindex ==
    ASSUME NEW w \in Schemas, NEW t \in AllTables,
           NEW kind \in {"unindex", "unindex present"}, ~Skips(Do(kind, t), w)
    PROVE  Becomes(w, Executed(Do(kind, t), w), w.tables, w.indexed \ {t},
                   w.foreign, w.library, w.app)
<1>1. Do(kind, t) \in Statements /\ Do(kind, t).kind = kind /\ Do(kind, t).table = t
  BY Zenon DEF Do, Statements, TableKinds
<1> QED
  BY <1>1, After, Zenon

\* DROP TABLE.
LEMMA Drop ==
    ASSUME NEW w \in Schemas, NEW t \in AllTables, NEW kind \in {"drop", "drop present"}
    PROVE  Becomes(w, Executed(Do(kind, t), w), w.tables \ {t}, w.indexed \ {t},
                   IF t = "secret" THEN "none" ELSE w.foreign, w.library, w.app)
<1>1. Do(kind, t) \in Statements /\ Do(kind, t).kind = kind /\ Do(kind, t).table = t
  BY DEF Do, Statements, TableKinds
<1>2. ~Skips(Do(kind, t), w)
  BY Skipping, Zenon
<1> QED
  BY <1>1, <1>2, After, Zenon

\* DROP TYPE.
LEMMA DropType ==
    ASSUME Checked, NEW w \in Schemas
    PROVE  LET v == Executed(Do("drop type", "m8flow_tenant"), w) IN
           /\ Becomes(w, v, w.tables, w.indexed, w.foreign, w.library, w.app)
           /\ v.types = {}
<1> DEFINE s == Do("drop type", "m8flow_tenant")
           v == Executed(s, w)
<1>1. 2 \in 1 .. 20
  OBVIOUS
<1>2. "m8flow_tenant" \in AllTables
  BY <1>1, StatementsAre, NamesAre, Zenon
<1>3. s \in Statements /\ s.kind = "drop type" /\ s.table = "m8flow_tenant"
  BY <1>2, Zenon DEF Do, Statements, TableKinds
<1>4. ~Skips(s, w)
  BY Skipping, Zenon
<1> HIDE DEF s
<1>5. Becomes(w, v, w.tables, w.indexed, w.foreign, w.library, w.app)
  BY <1>3, <1>4, After, Zenon
<1>6. v.types = w.types \ TypesOf("m8flow_tenant")
  BY <1>3, <1>4, TypesAfter, Zenon
<1>7. w.types \subseteq {"tenantstatus"} /\ TypesOf("m8flow_tenant") = {"tenantstatus"}
  BY DEF Schemas, TypesOf
<1> QED
  BY <1>5, <1>6, <1>7, Zenon DEF s

\* Tables and types come and go together.
LEMMA TypesFollow ==
    ASSUME Checked, NEW w, NEW v, NEW t, Typed(w)
    PROVE  /\ v.tables = w.tables \cup {t} /\ v.types = w.types \cup TypesOf(t) => Typed(v)
           /\ v.tables = w.tables /\ v.types = w.types => Typed(v)
           /\ v.tables = w.tables \ {"secret"} /\ v.types = w.types => Typed(v)
           /\ /\ v.tables = w.tables \ {t}
              /\ v.types = IF t \in w.tables THEN w.types \ TypesOf(t) ELSE w.types
              => Typed(v)
           /\ t \notin w.tables => TypesOf(t) \cap w.types = {}
BY DEF Typed, TypesOf

\* A statement that keeps table and type together.
LEMMA StatementTyped ==
    ASSUME Checked, NEW w \in Schemas, Typed(w), NEW s \in Statements, ~Skips(s, w),
           s.kind # "drop type", s.kind = "drop" => s.table = "secret"
    PROVE  Typed(Executed(s, w))
<1> DEFINE v == Executed(s, w)
<1>1. s.kind \in TableKinds \cup {"library", "app"}
  BY StatementKinds, Zenon
<1>2. CASE s.kind \in {"create", "create missing", "create secret"}
  <2>1. v.tables = w.tables \cup {s.table} /\ v.types = w.types \cup TypesOf(s.table)
    BY <1>2, After, TypesAfter, Zenon DEF Becomes
  <2> QED
    BY <2>1, TypesFollow, Zenon
<1>3. CASE s.kind \in {"index", "unindex", "unindex present", "library", "app"}
  <2>1. v.tables = w.tables /\ v.types = w.types
    BY <1>3, After, TypesAfter, Zenon DEF Becomes
  <2> QED
    BY <2>1, TypesFollow, Zenon
<1>4. CASE s.kind = "drop"
  <2>1. v.tables = w.tables \ {s.table} /\ v.types = w.types
    BY <1>4, After, TypesAfter, Zenon DEF Becomes
  <2>2. v.tables = w.tables \ {"secret"}
    BY <1>4, <2>1, Zenon
  <2> QED
    BY <2>1, <2>2, TypesFollow, Zenon
<1>5. CASE s.kind = "drop present"
  <2>1. /\ v.tables = w.tables \ {s.table}
        /\ v.types = IF s.table \in w.tables THEN w.types \ TypesOf(s.table) ELSE w.types
    BY <1>5, After, TypesAfter, Zenon DEF Becomes
  <2> QED
    BY <2>1, TypesFollow, Zenon
<1> QED
  BY <1>1, <1>2, <1>3, <1>4, <1>5, Zenon DEF TableKinds

TypedKinds ==
    {"create", "create missing", "create secret", "index", "unindex present", "drop present"}

\* The statements of all plans but the library's downgrade do.
LEMMA StaysTyped ==
    ASSUME Checked, NEW w \in Schemas, Typed(w)
    PROVE  /\ \A t \in AllTables, kind \in TypedKinds :
                 ~Skips(Do(kind, t), w) => Typed(Executed(Do(kind, t), w))
           /\ Typed(Executed(Do("drop", "secret"), w))
           /\ \A version \in 0 .. 1 : Typed(Executed(Stamp("library", version), w))
           /\ \A version \in 0 .. 2 : Typed(Executed(Stamp("app", version), w))
<1>1. ASSUME NEW t \in AllTables, NEW kind \in TypedKinds,
             ~Skips(Do(kind, t), w)
      PROVE  Typed(Executed(Do(kind, t), w))
  <2>1. Do(kind, t) \in Statements
    BY StatementsAre, Zenon DEF TypedKinds, TableKinds
  <2>2. Do(kind, t).kind = kind
    BY Zenon DEF Do
  <2>3. kind # "drop type" /\ kind # "drop"
    BY <1>1, Zenon DEF TypedKinds
  <2> QED
    BY <1>1, <2>1, <2>2, <2>3, StatementTyped, Zenon
<1>2. Typed(Executed(Do("drop", "secret"), w))
  <2>1. Do("drop", "secret") \in Statements
    <3>1. "drop" \in TableKinds /\ "secret" \in AllTables
      BY Zenon DEF TableKinds, AllTables
    <3> QED
      BY <3>1, StatementsAre, Zenon
  <2>2. Do("drop", "secret").kind = "drop" /\ Do("drop", "secret").table = "secret"
    BY DEF Do
  <2>3. ~Skips(Do("drop", "secret"), w) /\ "drop" # "drop type"
    BY Skipping, Zenon
  <2> QED
    BY <2>1, <2>2, <2>3, StatementTyped, Zenon
<1>3. ASSUME NEW history \in {"library", "app"}, NEW version,
             Stamp(history, version) \in Statements
      PROVE  Typed(Executed(Stamp(history, version), w))
  <2>1. Stamp(history, version).kind = history
    BY Zenon DEF Stamp
  <2>2. history # "drop type" /\ history # "drop"
    BY <1>3, Zenon
  <2>3. ~Skips(Stamp(history, version), w)
    BY <1>3, Skipping, Zenon
  <2> QED
    BY <1>3, <2>1, <2>2, <2>3, StatementTyped, Zenon
<1>4. /\ \A version \in 0 .. 1 : Stamp("library", version) \in Statements
      /\ \A version \in 0 .. 2 : Stamp("app", version) \in Statements
  <2>1. /\ \A version \in 0 .. 1 : version = 0 \/ version = 1
        /\ \A version \in 0 .. 2 : version = 0 \/ version = 1 \/ version = 2
    OBVIOUS
  <2> QED
    BY <2>1, StatementsAre, Zenon
<1> QED
  BY <1>1, <1>2, <1>3, <1>4, Zenon

\* The version tables.
LEMMA StampLibrary ==
    ASSUME NEW w \in Schemas, NEW version \in {0, 1}
    PROVE  Becomes(w, Executed(Stamp("library", version), w), w.tables, w.indexed,
                   w.foreign, version, w.app)
<1>1. LET s == Stamp("library", version)
      IN  s \in Statements /\ s.kind = "library" /\ s.version = version
  BY DEF Stamp, Statements
<1>2. ~Skips(Stamp("library", version), w)
  BY Skipping, Zenon
<1> QED
  BY <1>1, <1>2, After, Zenon

\* And the application's.
LEMMA StampApp ==
    ASSUME NEW w \in Schemas, NEW version \in 0 .. 2
    PROVE  Becomes(w, Executed(Stamp("app", version), w), w.tables, w.indexed,
                   w.foreign, w.library, version)
<1>1. LET s == Stamp("app", version)
      IN  s \in Statements /\ s.kind = "app" /\ s.version = version
  BY DEF Stamp, Statements
<1>2. ~Skips(Stamp("app", version), w)
  BY Skipping, Zenon
<1> QED
  BY <1>1, <1>2, After, Zenon

-----------------------------------------------------------------------------
(***************************************************************************)
(* One statement further in the two upgrades.                              *)
(***************************************************************************)

\* Two statements for each table, and what comes after them.
LEMMA Positions ==
    ASSUME NEW pos \in 1 .. 45
    PROVE  \/ pos \in 41 .. 45
           \/ \E k \in 1 .. 20 : pos = 2 * k - 1 \/ pos = 2 * k
<1>1. CASE pos \in 41 .. 45
  BY <1>1
<1>2. CASE pos \in 1 .. 40
  <2>1. (pos + 1) \div 2 \in 1 .. 20
        /\ (pos = 2 * ((pos + 1) \div 2) - 1 \/ pos = 2 * ((pos + 1) \div 2))
    BY <1>2
  <2> QED
    BY <2>1, Zenon
<1> QED
  BY <1>1, <1>2

\* A table is created.
LEMMA TableMade ==
    ASSUME NEW d, NEW w, NEW v, NEW k \in 1 .. 20, TablesUp(d, w, 2 * k - 1),
           v.tables = w.tables \cup {Names[k]}, v.indexed = w.indexed
    PROVE  TablesUp(d, v, 2 * k)
<1>1. \A i \in 1 .. 20 : Names[i] = Names[k] => i = k
  BY NamesAre
<1>2. \A i \in 1 .. 20 : Names[i] \in v.tables <=> Names[i] \in w.tables \/ i = k
  BY <1>1
<1>3. \A i \in 1 .. 20 : /\ 2 * i <= 2 * k <=> 2 * i <= 2 * k - 1 \/ i = k
                         /\ 2 * i < 2 * k <=> 2 * i < 2 * k - 1
  OBVIOUS
<1> QED
  BY <1>2, <1>3, Zenon DEF TablesUp

\* It gets its indexes.
LEMMA TableIndexed ==
    ASSUME NEW d, NEW w, NEW v, NEW k \in 1 .. 20, TablesUp(d, w, 2 * k),
           v.tables = w.tables, v.indexed = w.indexed \cup {Names[k]}
    PROVE  TablesUp(d, v, 2 * k + 1)
<1>1. \A i \in 1 .. 20 : /\ 2 * i <= 2 * k + 1 <=> 2 * i <= 2 * k
                         /\ 2 * i < 2 * k + 1 <=> 2 * i < 2 * k \/ i = k
  OBVIOUS
<1>2. \A i \in 1 .. 20 : Names[i] \in w.indexed \/ i = k => Names[i] \in v.indexed
  OBVIOUS
<1> QED
  BY <1>1, <1>2, Zenon DEF TablesUp

\* It was there, with its indexes.
LEMMA TableSkipped ==
    ASSUME NEW d, SoundDatabase(d), NEW w, NEW k \in 1 .. 20, TablesUp(d, w, 2 * k - 1),
           Names[k] \in w.tables
    PROVE  TablesUp(d, w, 2 * k + 1)
<1>1. ~(2 * k <= 2 * k - 1)
  OBVIOUS
<1>2. Names[k] \in d.tables
  BY <1>1, Zenon DEF TablesUp
<1>3. Names[k] \in d.indexed
  BY <1>2, NamesAre DEF SoundDatabase
<1>4. \A i \in 1 .. 20 : /\ 2 * i <= 2 * k + 1 <=> 2 * i <= 2 * k - 1 \/ i = k
                         /\ 2 * i < 2 * k + 1 <=> 2 * i < 2 * k - 1 \/ i = k
  OBVIOUS
<1> QED
  BY <1>2, <1>3, <1>4, Zenon DEF TablesUp

\* All of them are there.
LEMMA TablesStay ==
    ASSUME NEW d, NEW w, NEW v,
           \A k \in 1 .. 20 : Names[k] \in w.tables => Names[k] \in v.tables,
           \A k \in 1 .. 20 : Names[k] \in w.indexed => Names[k] \in v.indexed
    PROVE  \A pos, q \in 41 .. 45 : TablesUp(d, w, pos) => TablesUp(d, v, q)
<1> SUFFICES ASSUME NEW pos \in 41 .. 45, NEW q \in 41 .. 45, TablesUp(d, w, pos)
             PROVE  TablesUp(d, v, q)
  OBVIOUS
<1>1. \A k \in 1 .. 20 : 2 * k <= pos /\ 2 * k < pos /\ 2 * k <= q /\ 2 * k < q
  OBVIOUS
<1>2. \A k \in 1 .. 20 : Names[k] \in w.tables /\ Names[k] \in w.indexed
  BY <1>1, Zenon DEF TablesUp
<1> QED
  BY <1>1, <1>2, Zenon DEF TablesUp

\* So they are, with their indexes.
LEMMA TablesMade ==
    ASSUME NEW d, NEW w, NEW pos \in 41 .. 45, TablesUp(d, w, pos)
    PROVE  \A k \in 1 .. 20 : Names[k] \in w.tables /\ Names[k] \in w.indexed
<1>1. \A k \in 1 .. 20 : 2 * k <= pos /\ 2 * k < pos
  OBVIOUS
<1> QED
  BY <1>1, Zenon DEF TablesUp

\* The tables before the one whose turn it is.
LEMMA TablesBefore ==
    ASSUME NEW d, NEW w, NEW k \in 1 .. 20, TablesUp(d, w, 2 * k - 1)
    PROVE  /\ \A j \in 1 .. 20 : j < k => Names[j] \in w.tables
           /\ Names[k] \in w.tables <=> Names[k] \in d.tables
<1>1. \A j \in 1 .. 20 : j < k => 2 * j <= 2 * k - 1
  OBVIOUS
<1>2. ~(2 * k <= 2 * k - 1)
  OBVIOUS
<1> QED
  BY <1>1, <1>2, Zenon DEF TablesUp

\* The library's upgrade is refused only a table that is there.
LEMMA LibraryUpStep ==
    ASSUME Checked, NEW d, SoundDatabase(d), NEW w \in Schemas,
           NEW P, IsLibraryUp(P), NEW pos \in 1 .. 41, LibraryUp(d, w, pos)
    PROVE  /\ ~Accepted(P[pos], w) => P[pos].table \in d.tables
           /\ ~Skips(P[pos], w)
           /\ Accepted(P[pos], w) =>
                 Executed(P[pos], w) \in Schemas /\ LibraryUp(d, Executed(P[pos], w), pos + 1)
<1> DEFINE s == P[pos]
           v == Executed(s, w)
<1>1. \A k \in 1 .. 20 : Names[k] \in AllTables
  BY StatementsAre
<1>2. ASSUME NEW k \in 1 .. 20, pos = 2 * k - 1
      PROVE  /\ ~Accepted(s, w) => s.table \in d.tables
             /\ ~Skips(s, w)
             /\ Accepted(s, w) => v \in Schemas /\ LibraryUp(d, v, pos + 1)
  <2>1. s = Do("create", Names[k])
    BY <1>2, Zenon DEF IsLibraryUp, IsPairs
  <2>2. /\ s.table = Names[k] /\ ~Skips(s, w)
        /\ Accepted(s, w) <=>
              Creatable(Names[k], w) /\ TypesOf(Names[k]) \cap w.types = {}
    <3>1. ~Skips(Do("create", Names[k]), w)
      BY Skipping, Zenon
    <3>2. Accepted(Do("create", Names[k]), w) <=>
             Creatable(Names[k], w) /\ TypesOf(Names[k]) \cap w.types = {}
      BY Accepts, Zenon
    <3>3. Do("create", Names[k]).table = Names[k]
      BY DEF Do
    <3> QED
      BY <2>1, <3>1, <3>2, <3>3, Zenon
  <2>3. TablesUp(d, w, 2 * k - 1)
    BY <1>2, Zenon DEF LibraryUp
  <2>4. ~Accepted(s, w) => s.table \in d.tables
    <3>1. Names[k] \notin w.tables => TypesOf(Names[k]) \cap w.types = {}
      BY TypesFollow, Zenon DEF LibraryUp
    <3>2. Names[k] \notin w.tables => Creatable(Names[k], w)
      BY <2>3, TablesBefore, CreatableInOrder, Zenon
    <3>3. Names[k] \in w.tables => Names[k] \in d.tables
      BY <2>3, TablesBefore, Zenon
    <3> QED
      BY <2>2, <3>1, <3>2, <3>3, Zenon
  <2>5. ~Skips(Do("create", Names[k]), w)
    BY <2>1, <2>2
  <2>6. Becomes(w, v, w.tables \cup {Names[k]}, w.indexed, w.foreign, w.library, w.app)
    BY <1>1, <2>1, <2>5, Create, Zenon
  <2>12. Typed(v)
    BY <1>1, <2>1, <2>5, StaysTyped, Zenon DEF LibraryUp, TypedKinds
  <2> HIDE DEF s, v
  <2>7. v \in Schemas /\ v.tables = w.tables \cup {Names[k]} /\ v.indexed = w.indexed
        /\ v.foreign = w.foreign /\ v.app = w.app
    BY <2>6, Zenon DEF Becomes
  <2>8. TablesUp(d, v, 2 * k)
    BY <2>3, <2>7, TableMade, Zenon
  <2>9. pos + 1 = 2 * k /\ pos + 1 \in 1 .. 42
    BY <1>2
  <2>10. "secret" \in v.tables <=> "secret" \in w.tables
    BY <2>7, NamesAre
  <2>11. LibraryUp(d, v, pos + 1)
    BY <2>7, <2>8, <2>9, <2>10, <2>12, Zenon DEF LibraryUp
  <2> QED
    BY <2>2, <2>4, <2>7, <2>11, Zenon
<1>3. ASSUME NEW k \in 1 .. 20, pos = 2 * k
      PROVE  Accepted(s, w) /\ ~Skips(s, w) /\ v \in Schemas /\ LibraryUp(d, v, pos + 1)
  <2>1. s = Do("index", Names[k])
    BY <1>3, Zenon DEF IsLibraryUp, IsPairs
  <2>2. ~Skips(s, w) /\ Accepted(s, w)
    <3>1. ~Skips(Do("index", Names[k]), w)
      BY Skipping, Zenon
    <3>2. Accepted(Do("index", Names[k]), w)
      BY Accepts, Zenon
    <3> QED
      BY <2>1, <3>1, <3>2, Zenon
  <2>3. Becomes(w, v, w.tables, w.indexed \cup {Names[k]}, w.foreign, w.library, w.app)
    BY <1>1, <2>1, Index, Zenon
  <2>10. Typed(v)
    BY <1>1, <2>1, <2>2, StaysTyped, Zenon DEF LibraryUp, TypedKinds
  <2> HIDE DEF s, v
  <2>4. v \in Schemas /\ v.tables = w.tables /\ v.indexed = w.indexed \cup {Names[k]}
        /\ v.foreign = w.foreign /\ v.app = w.app
    BY <2>3, Zenon DEF Becomes
  <2>5. TablesUp(d, w, 2 * k)
    BY <1>3, Zenon DEF LibraryUp
  <2>6. TablesUp(d, v, 2 * k + 1)
    BY <2>4, <2>5, TableIndexed, Zenon
  <2>7. pos + 1 = 2 * k + 1 /\ pos + 1 \in 1 .. 42
    BY <1>3
  <2>8. "secret" \in w.indexed => "secret" \in v.indexed
    BY <2>4
  <2>9. LibraryUp(d, v, pos + 1)
    BY <2>4, <2>6, <2>7, <2>8, <2>10, Zenon DEF LibraryUp
  <2> QED
    BY <2>2, <2>4, <2>9
<1>4. ASSUME pos = 41
      PROVE  Accepted(s, w) /\ ~Skips(s, w) /\ v \in Schemas /\ LibraryUp(d, v, pos + 1)
  <2>1. s = Stamp("library", 1)
    BY <1>4, Zenon DEF IsLibraryUp
  <2>2. 1 \in {0, 1}
    OBVIOUS
  <2>3. ~Skips(s, w) /\ Accepted(s, w)
    <3>1. ~Skips(Stamp("library", 1), w)
      BY Skipping, Zenon
    <3>2. Accepted(Stamp("library", 1), w)
      BY Accepts, Zenon
    <3> QED
      BY <2>1, <3>1, <3>2, Zenon
  <2>4. Becomes(w, v, w.tables, w.indexed, w.foreign, 1, w.app)
    BY <2>1, <2>2, StampLibrary, Zenon
  <2>9. Typed(v)
    <3>1. 1 \in 0 .. 1
      OBVIOUS
    <3> QED
      BY <2>1, <3>1, StaysTyped, Zenon DEF LibraryUp
  <2> HIDE DEF s, v
  <2>5. v \in Schemas /\ v.tables = w.tables /\ v.indexed = w.indexed
        /\ v.foreign = w.foreign /\ v.app = w.app
    BY <2>4, Zenon DEF Becomes
  <2>6. 41 \in 41 .. 45 /\ 42 \in 41 .. 45 /\ pos + 1 = 42 /\ 42 \in 1 .. 42
    BY <1>4
  <2>7. TablesUp(d, v, 42)
    <3>1. TablesUp(d, w, 41)
      BY <1>4, Zenon DEF LibraryUp
    <3>2. /\ \A k \in 1 .. 20 : Names[k] \in w.tables => Names[k] \in v.tables
          /\ \A k \in 1 .. 20 : Names[k] \in w.indexed => Names[k] \in v.indexed
      BY <2>5, Zenon
    <3>3. \A p, q \in 41 .. 45 : TablesUp(d, w, p) => TablesUp(d, v, q)
      BY <3>2, TablesStay, Zenon
    <3>4. 41 \in 41 .. 45 /\ 42 \in 41 .. 45
      OBVIOUS
    <3> QED
      BY <3>1, <3>3, <3>4, Zenon
  <2>8. LibraryUp(d, v, pos + 1)
    BY <2>5, <2>6, <2>7, <2>9, Zenon DEF LibraryUp
  <2> QED
    BY <2>3, <2>5, <2>8
<1>5. pos \in 1 .. 45 /\ (pos \in 41 .. 45 => pos = 41)
  OBVIOUS
<1> HIDE DEF s, v
<1>6. /\ ~Accepted(s, w) => s.table \in d.tables
      /\ ~Skips(s, w)
      /\ Accepted(s, w) => v \in Schemas /\ LibraryUp(d, v, pos + 1)
  BY <1>2, <1>3, <1>4, <1>5, Positions, Zenon
<1> QED
  BY <1>6, Zenon DEF s, v

\* How a statement of the application's upgrade goes on.
AppUpGoes(d, w, s, pos) ==
    /\ ~Accepted(s, w) => d.foreign = "incompatible"
    /\ Accepted(s, w) /\ ~Skips(s, w) =>
          Executed(s, w) \in Schemas /\ AppUp(d, Executed(s, w), pos + 1)
    /\ Accepted(s, w) /\ Skips(s, w) => pos + 1 <= 44 /\ AppUp(d, w, pos + 2)

\* Tables of the library: created unless they are there.
LEMMA AppUpCreates ==
    ASSUME Checked, NEW d, SoundDatabase(d), NEW w \in Schemas,
           NEW k \in 1 .. 20, AppUp(d, w, 2 * k - 1)
    PROVE  AppUpGoes(d, w, Do("create missing", Names[k]), 2 * k - 1)
<1> DEFINE s == Do("create missing", Names[k])
           v == Executed(s, w)
<1>1. Names[k] \in AllTables /\ Names[k] # "secret"
  BY StatementsAre, NamesAre, Zenon
<1>2. /\ Accepted(s, w) <=> Names[k] \in w.tables \/ Creatable(Names[k], w)
      /\ Skips(s, w) <=> Names[k] \in w.tables
  BY Accepts, Skipping, Zenon
<1>3. TablesUp(d, w, 2 * k - 1)
  BY Zenon DEF AppUp
<1>4. Accepted(s, w)
  BY <1>2, <1>3, TablesBefore, CreatableInOrder, Zenon
<1>5. ASSUME Skips(s, w) PROVE 2 * k - 1 + 1 <= 44 /\ AppUp(d, w, 2 * k - 1 + 2)
  <2>1. TablesUp(d, w, 2 * k + 1)
    BY <1>2, <1>3, <1>5, TableSkipped, Zenon
  <2>2. /\ 2 * k - 1 + 2 = 2 * k + 1 /\ 2 * k + 1 \in 1 .. 45 /\ 2 * k - 1 + 1 <= 44
        /\ ~(2 * k + 1 > 42) /\ ~(2 * k + 1 > 43) /\ 2 * k + 1 # 45
        /\ ~(2 * k - 1 > 42) /\ ~(2 * k - 1 > 43)
    OBVIOUS
  <2>3. AppUp(d, w, 2 * k + 1)
    BY <2>1, <2>2, Zenon DEF AppUp
  <2> QED
    BY <2>2, <2>3
<1>6. ASSUME ~Skips(s, w) PROVE v \in Schemas /\ AppUp(d, v, 2 * k - 1 + 1)
  <2>1. "create missing" \in {"create", "create missing", "create secret"}
    OBVIOUS
  <2>2. Becomes(w, v, w.tables \cup {Names[k]}, w.indexed, w.foreign, w.library, w.app)
    BY <1>1, <1>6, <2>1, Create, Zenon
  <2>8. Typed(v)
    BY <1>1, <1>6, StaysTyped, Zenon DEF AppUp, TypedKinds
  <2> HIDE DEF s, v
  <2>3. v \in Schemas /\ v.tables = w.tables \cup {Names[k]} /\ v.indexed = w.indexed
        /\ v.foreign = w.foreign
    BY <2>2, Zenon DEF Becomes
  <2>4. TablesUp(d, v, 2 * k)
    BY <1>3, <2>3, TableMade, Zenon
  <2>5. "secret" \in v.tables <=> "secret" \in w.tables
    BY <1>1, <2>3
  <2>6. /\ 2 * k - 1 + 1 = 2 * k /\ 2 * k \in 1 .. 45
        /\ ~(2 * k > 42) /\ ~(2 * k > 43) /\ 2 * k # 45
        /\ ~(2 * k - 1 > 42) /\ ~(2 * k - 1 > 43)
    OBVIOUS
  <2>7. AppUp(d, v, 2 * k)
    BY <2>3, <2>4, <2>5, <2>6, <2>8, Zenon DEF AppUp
  <2> QED
    BY <2>3, <2>6, <2>7
<1> QED
  BY <1>4, <1>5, <1>6, Zenon DEF AppUpGoes

\* Their indexes.
LEMMA AppUpIndexes ==
    ASSUME Checked, NEW d, NEW w \in Schemas, NEW k \in 1 .. 20, AppUp(d, w, 2 * k)
    PROVE  AppUpGoes(d, w, Do("index", Names[k]), 2 * k)
<1> DEFINE s == Do("index", Names[k])
           v == Executed(s, w)
<1>1. Names[k] \in AllTables
  BY StatementsAre
<1>2. Accepted(s, w) /\ ~Skips(s, w)
  BY Accepts, Skipping, Zenon
<1>3. Becomes(w, v, w.tables, w.indexed \cup {Names[k]}, w.foreign, w.library, w.app)
  BY <1>1, Index, Zenon
<1>11. Typed(v)
  BY <1>1, <1>2, StaysTyped, Zenon DEF AppUp, TypedKinds
<1> HIDE DEF s, v
<1>4. v \in Schemas /\ v.tables = w.tables /\ v.indexed = w.indexed \cup {Names[k]}
      /\ v.foreign = w.foreign
  BY <1>3, Zenon DEF Becomes
<1>5. TablesUp(d, w, 2 * k)
  BY Zenon DEF AppUp
<1>6. TablesUp(d, v, 2 * k + 1)
  BY <1>4, <1>5, TableIndexed, Zenon
<1>7. "secret" \in w.indexed => "secret" \in v.indexed
  BY <1>4
<1>8. /\ 2 * k + 1 \in 1 .. 45
      /\ ~(2 * k > 42) /\ ~(2 * k > 43) /\ 2 * k + 1 # 45
      /\ ~(2 * k + 1 > 42) /\ ~(2 * k + 1 > 43)
  OBVIOUS
<1>9. AppUp(d, v, 2 * k + 1)
  BY <1>4, <1>6, <1>7, <1>8, <1>11, Zenon DEF AppUp
<1>10. AppUpGoes(d, w, s, 2 * k)
  BY <1>2, <1>4, <1>9 DEF AppUpGoes, v
<1> QED
  BY <1>10 DEF s

\* The version after 0001.
LEMMA AppUpStamps ==
    ASSUME Checked, NEW d, NEW w \in Schemas, AppUp(d, w, 41)
    PROVE  AppUpGoes(d, w, Stamp("app", 1), 41)
<1> DEFINE s == Stamp("app", 1)
           v == Executed(s, w)
<1>1. Accepted(s, w) /\ ~Skips(s, w)
  BY Accepts, Skipping, Zenon
<1>2. Becomes(w, v, w.tables, w.indexed, w.foreign, w.library, 1)
  BY StampApp
<1>8. Typed(v)
  <2>1. 1 \in 0 .. 2
    OBVIOUS
  <2> QED
    BY <2>1, StaysTyped, Zenon DEF AppUp
<1> HIDE DEF s, v
<1>3. v \in Schemas /\ v.tables = w.tables /\ v.indexed = w.indexed /\ v.foreign = w.foreign
  BY <1>2, Zenon DEF Becomes
<1>4. \A p, q \in 41 .. 45 : TablesUp(d, w, p) => TablesUp(d, v, q)
  BY <1>3, TablesStay, Zenon
<1>5. /\ 41 \in 41 .. 45 /\ 42 \in 41 .. 45 /\ 41 + 1 = 42 /\ 42 \in 1 .. 45
      /\ ~(41 > 42) /\ ~(41 > 43) /\ ~(42 > 42) /\ ~(42 > 43) /\ 42 # 45
  OBVIOUS
<1>6. AppUp(d, v, 42)
  BY <1>3, <1>4, <1>5, <1>8, Zenon DEF AppUp
<1>7. AppUpGoes(d, w, s, 41)
  BY <1>1, <1>3, <1>5, <1>6 DEF AppUpGoes, v
<1> QED
  BY <1>7 DEF s

\* The secret table: created, or adopted unless it has another shape.
LEMMA AppUpSecret ==
    ASSUME Checked, NEW d, SoundDatabase(d), NEW w \in Schemas, AppUp(d, w, 42)
    PROVE  AppUpGoes(d, w, Do("create secret", "secret"), 42)
<1> DEFINE s == Do("create secret", "secret")
           v == Executed(s, w)
<1>1. "secret" \in AllTables
  BY DEF AllTables
<1>2. /\ Accepted(s, w) <=> IF "secret" \in w.tables THEN w.foreign # "incompatible"
                            ELSE Creatable("secret", w)
      /\ Skips(s, w) <=> "secret" \in w.tables
  BY Accepts, Skipping, Zenon
<1>3. /\ w.foreign = d.foreign /\ d.foreign \in {"none", "compatible", "incompatible"}
      /\ "secret" \in w.tables <=> "secret" \in d.tables
      /\ d.foreign # "none" => "secret" \in d.tables
      /\ "secret" \in d.indexed => "secret" \in w.indexed
      /\ d.app = 0
  BY DEF AppUp, SoundDatabase
<1>4. TablesUp(d, w, 42) /\ 42 \in 41 .. 45 /\ 43 \in 41 .. 45 /\ 44 \in 41 .. 45
  BY DEF AppUp
<1>5. \A k \in 1 .. 20 : Names[k] \in w.tables
  BY <1>4, TablesMade, Zenon
<1>6. RefsOf("secret", w) \subseteq w.tables
  BY <1>5, SecretRefs
<1>7. ~Accepted(s, w) => d.foreign = "incompatible"
  BY <1>2, <1>3, <1>6, Zenon DEF Creatable
<1>8. ASSUME Skips(s, w), Accepted(s, w) PROVE AppUp(d, w, 44)
  <2>1. "secret" \in w.tables /\ d.foreign # "incompatible" /\ "secret" \in d.tables
    BY <1>2, <1>3, <1>8, Zenon
  <2>2. TablesUp(d, w, 44)
    <3>1. \A p, q \in 41 .. 45 : TablesUp(d, w, p) => TablesUp(d, w, q)
      BY TablesStay, Zenon
    <3> QED
      BY <1>4, <3>1, Zenon
  <2>3. 44 \in 1 .. 45 /\ 44 # 45 /\ 44 > 42 /\ 44 > 43
    OBVIOUS
  <2> QED
    BY <1>3, <2>1, <2>2, <2>3, Zenon DEF AppUp
<1>9. ASSUME ~Skips(s, w) PROVE v \in Schemas /\ AppUp(d, v, 43)
  <2>1. "create secret" \in {"create", "create missing", "create secret"}
    OBVIOUS
  <2>2. Becomes(w, v, w.tables \cup {"secret"}, w.indexed, w.foreign, w.library, w.app)
    BY <1>1, <1>9, <2>1, Create, Zenon
  <2>9. Typed(v)
    BY <1>1, <1>9, StaysTyped, Zenon DEF AppUp, TypedKinds
  <2>3. "secret" \notin d.tables /\ d.foreign = "none"
    BY <1>2, <1>3, <1>9, Zenon
  <2> HIDE DEF s, v
  <2>4. v \in Schemas /\ v.tables = w.tables \cup {"secret"} /\ v.indexed = w.indexed
        /\ v.foreign = w.foreign
    BY <2>2, Zenon DEF Becomes
  <2>5. TablesUp(d, v, 43)
    <3>1. /\ \A k \in 1 .. 20 : Names[k] \in w.tables => Names[k] \in v.tables
          /\ \A k \in 1 .. 20 : Names[k] \in w.indexed => Names[k] \in v.indexed
      BY <2>4
    <3>2. \A p, q \in 41 .. 45 : TablesUp(d, w, p) => TablesUp(d, v, q)
      BY <3>1, TablesStay, Zenon
    <3> QED
      BY <1>4, <3>2, Zenon
  <2>6. 43 \in 1 .. 45 /\ 43 # 45 /\ 43 > 42 /\ ~(43 > 43)
    OBVIOUS
  <2>7. "secret" \in v.tables /\ d.foreign # "incompatible"
    BY <2>3, <2>4
  <2>8. AppUp(d, v, 43)
    BY <1>3, <2>4, <2>5, <2>6, <2>7, <2>9, Zenon DEF AppUp
  <2> QED
    BY <2>4, <2>8
<1>10. 42 + 1 = 43 /\ 42 + 2 = 44 /\ 43 <= 44
  OBVIOUS
<1> QED
  BY <1>7, <1>8, <1>9, <1>10, Zenon DEF AppUpGoes

\* Its indexes, and the version after 0002.
LEMMA AppUpEnds ==
    ASSUME Checked, NEW d, NEW w \in Schemas
    PROVE  /\ AppUp(d, w, 43) => AppUpGoes(d, w, Do("index", "secret"), 43)
           /\ AppUp(d, w, 44) => AppUpGoes(d, w, Stamp("app", 2), 44)
<1>1. ASSUME AppUp(d, w, 43) PROVE AppUpGoes(d, w, Do("index", "secret"), 43)
  <2> DEFINE s == Do("index", "secret")
             v == Executed(s, w)
  <2>1. Accepted(s, w) /\ ~Skips(s, w)
    BY Accepts, Skipping, Zenon
  <2>2. "secret" \in AllTables
    BY DEF AllTables
  <2>3. Becomes(w, v, w.tables, w.indexed \cup {"secret"}, w.foreign, w.library, w.app)
    BY <2>2, Index, Zenon
  <2>10. Typed(v)
    BY <1>1, <2>1, <2>2, StaysTyped, Zenon DEF AppUp, TypedKinds
  <2> HIDE DEF s, v
  <2>4. v \in Schemas /\ v.tables = w.tables /\ v.indexed = w.indexed \cup {"secret"}
        /\ v.foreign = w.foreign
    BY <2>3, Zenon DEF Becomes
  <2>5. /\ \A k \in 1 .. 20 : Names[k] \in w.tables => Names[k] \in v.tables
        /\ \A k \in 1 .. 20 : Names[k] \in w.indexed => Names[k] \in v.indexed
        /\ "secret" \in v.indexed
    BY <2>4
  <2>6. \A p, q \in 41 .. 45 : TablesUp(d, w, p) => TablesUp(d, v, q)
    BY <2>5, TablesStay, Zenon
  <2>7. /\ 43 \in 41 .. 45 /\ 44 \in 41 .. 45 /\ 43 + 1 = 44 /\ 44 \in 1 .. 45
        /\ 43 > 42 /\ 44 > 42 /\ 44 # 45
    OBVIOUS
  <2>8. AppUp(d, v, 44)
    BY <1>1, <2>4, <2>5, <2>6, <2>7, <2>10, Zenon DEF AppUp
  <2>9. AppUpGoes(d, w, s, 43)
    BY <2>1, <2>4, <2>7, <2>8, Zenon DEF AppUpGoes, v
  <2> QED
    BY <2>9 DEF s
<1>2. ASSUME AppUp(d, w, 44) PROVE AppUpGoes(d, w, Stamp("app", 2), 44)
  <2> DEFINE s == Stamp("app", 2)
             v == Executed(s, w)
  <2>1. Accepted(s, w) /\ ~Skips(s, w)
    BY Accepts, Skipping, Zenon
  <2>2. Becomes(w, v, w.tables, w.indexed, w.foreign, w.library, 2)
    BY StampApp
  <2>8. Typed(v)
    <3>1. 2 \in 0 .. 2
      OBVIOUS
    <3> QED
      BY <1>2, <3>1, StaysTyped, Zenon DEF AppUp
  <2> HIDE DEF s, v
  <2>3. v \in Schemas /\ v.tables = w.tables /\ v.indexed = w.indexed
        /\ v.foreign = w.foreign /\ v.app = 2
    BY <2>2, Zenon DEF Becomes
  <2>4. \A p, q \in 41 .. 45 : TablesUp(d, w, p) => TablesUp(d, v, q)
    BY <2>3, TablesStay, Zenon
  <2>5. /\ 44 \in 41 .. 45 /\ 45 \in 41 .. 45 /\ 44 + 1 = 45 /\ 45 \in 1 .. 45
        /\ 44 > 42 /\ 45 > 42 /\ 44 > 43 /\ 45 > 43
    OBVIOUS
  <2>6. AppUp(d, v, 45)
    BY <1>2, <2>3, <2>4, <2>5, <2>8, Zenon DEF AppUp
  <2>7. AppUpGoes(d, w, s, 44)
    BY <2>1, <2>3, <2>5, <2>6 DEF AppUpGoes, v
  <2> QED
    BY <2>7 DEF s
<1> QED
  BY <1>1, <1>2

\* The application's upgrade is refused only a secret table of another shape.
LEMMA AppUpStep ==
    ASSUME Checked, NEW d, SoundDatabase(d), NEW w \in Schemas,
           NEW P, IsAppUp(P), NEW pos \in 1 .. 44, AppUp(d, w, pos)
    PROVE  AppUpGoes(d, w, P[pos], pos)
<1>1. ASSUME NEW k \in 1 .. 20, pos = 2 * k - 1 PROVE AppUpGoes(d, w, P[pos], pos)
  <2>1. P[pos] = Do("create missing", Names[k])
    BY <1>1, Zenon DEF IsAppUp, IsPairs
  <2> QED
    BY <1>1, <2>1, AppUpCreates, Zenon
<1>2. ASSUME NEW k \in 1 .. 20, pos = 2 * k PROVE AppUpGoes(d, w, P[pos], pos)
  <2>1. P[pos] = Do("index", Names[k])
    BY <1>2, Zenon DEF IsAppUp, IsPairs
  <2> QED
    BY <1>2, <2>1, AppUpIndexes, Zenon
<1>3. CASE pos = 41
  BY <1>3, AppUpStamps, Zenon DEF IsAppUp
<1>4. CASE pos = 42
  BY <1>4, AppUpSecret, Zenon DEF IsAppUp
<1>5. CASE pos = 43
  BY <1>5, AppUpEnds, Zenon DEF IsAppUp
<1>6. CASE pos = 44
  BY <1>6, AppUpEnds, Zenon DEF IsAppUp
<1>7. pos \in 1 .. 45 /\ (pos \in 41 .. 45 => pos \in {41, 42, 43, 44})
  OBVIOUS
<1> QED
  BY <1>1, <1>2, <1>3, <1>4, <1>5, <1>6, <1>7, Positions, Zenon

-----------------------------------------------------------------------------
(***************************************************************************)
(* One statement further in the two downgrades.                            *)
(***************************************************************************)

\* How a statement of the library's downgrade goes on.
LibraryDownGoes(d, w, s, pos) ==
    /\ ~Skips(s, w)
    /\ ~Accepted(s, w) =>
          \/ s.table \notin d.tables
          \/ "secret" \in d.tables /\ s.table \in SecretTable.refs
    /\ Accepted(s, w) =>
          Executed(s, w) \in Schemas /\ LibraryDown(d, Executed(s, w), pos + 1)

\* The indexes of a table are dropped: it had them if it was there.
LEMMA LibraryDownUnindexes ==
    ASSUME NEW d, SoundDatabase(d), NEW w \in Schemas,
           NEW k \in 1 .. 20, LibraryDown(d, w, 41 - 2 * k)
    PROVE  LibraryDownGoes(d, w, Do("unindex", Names[k]), 41 - 2 * k)
<1> DEFINE s == Do("unindex", Names[k])
           v == Executed(s, w)
<1>1. Names[k] \in AllTables /\ Names[k] # "secret"
  BY StatementsAre, NamesAre
<1>2. (Accepted(s, w) <=> Names[k] \in w.indexed) /\ ~Skips(s, w)
  BY Accepts, Skipping, Zenon
<1>3. s.table = Names[k]
  BY DEF Do
<1>4. Names[k] \in d.tables => Names[k] \in d.indexed
  BY <1>1 DEF SoundDatabase
<1>5. 41 - 2 * k <= 41 - 2 * k
  OBVIOUS
<1>6. Names[k] \in d.indexed => Names[k] \in w.indexed
  BY <1>5, Zenon DEF LibraryDown
<1>7. "unindex" \in {"unindex", "unindex present"}
  OBVIOUS
<1>8. Becomes(w, v, w.tables, w.indexed \ {Names[k]}, w.foreign, w.library, w.app)
  BY <1>1, <1>2, <1>7, Unindex, Zenon
<1> HIDE DEF s, v
<1>9. v \in Schemas /\ v.tables = w.tables /\ v.indexed = w.indexed \ {Names[k]}
      /\ v.foreign = w.foreign /\ v.app = w.app
  BY <1>8, Zenon DEF Becomes
<1>10. \A i \in 1 .. 20 : Names[i] = Names[k] => i = k
  BY NamesAre
<1>11. \A i \in 1 .. 20 : i # k /\ Names[i] \in w.indexed => Names[i] \in v.indexed
  BY <1>9, <1>10
<1>12. \A i \in 1 .. 20 : /\ 41 - 2 * k + 1 <= 42 - 2 * i <=> 41 - 2 * k <= 42 - 2 * i
                          /\ 41 - 2 * k + 1 <= 41 - 2 * i => i # k /\ 41 - 2 * k <= 41 - 2 * i
  OBVIOUS
<1>13. 41 - 2 * k + 1 \in 1 .. 43 /\ ~(41 - 2 * k + 1 > 41)
  OBVIOUS
<1>14. ("secret" \in w.indexed => "secret" \in v.indexed) /\ (Keyed(w) => Keyed(v))
  BY <1>1, <1>9 DEF Keyed
<1>15. LibraryDown(d, v, 41 - 2 * k + 1)
  BY <1>9, <1>11, <1>12, <1>13, <1>14, Zenon DEF LibraryDown
<1>16. LibraryDownGoes(d, w, s, 41 - 2 * k)
  BY <1>2, <1>3, <1>4, <1>6, <1>9, <1>15, Zenon DEF LibraryDownGoes, v
<1> QED
  BY <1>16 DEF s

\* The table is dropped, unless secrets refer to it.
LEMMA LibraryDownDrops ==
    ASSUME Checked, NEW d, SoundDatabase(d), NEW w \in Schemas,
           NEW k \in 1 .. 20, LibraryDown(d, w, 42 - 2 * k)
    PROVE  LibraryDownGoes(d, w, Do("drop", Names[k]), 42 - 2 * k)
<1> DEFINE s == Do("drop", Names[k])
           v == Executed(s, w)
<1>1. Names[k] \in AllTables /\ Names[k] # "secret"
  BY StatementsAre, NamesAre, Zenon
<1>2. (Accepted(s, w) <=> Droppable(Names[k], w)) /\ ~Skips(s, w)
  BY Accepts, Skipping, Zenon
<1>3. s.table = Names[k]
  BY DEF Do
<1>4. \A i \in 1 .. 20 : 42 - 2 * k <= 42 - 2 * i => i <= k
  OBVIOUS
<1>5. \A i \in 1 .. 20 : Names[i] \in w.tables => i <= k
  BY <1>4, Zenon DEF LibraryDown
<1>6. 42 - 2 * k <= 42 - 2 * k
  OBVIOUS
<1>7. Names[k] \in d.tables => Names[k] \in w.tables
  BY <1>6, Zenon DEF LibraryDown
<1>8. "secret" \in w.tables <=> "secret" \in d.tables
  BY Zenon DEF LibraryDown
<1>9. RefsOf("secret", w) \subseteq SecretTable.refs
  BY SecretRefs
<1>10. ~Accepted(s, w) =>
          \/ s.table \notin d.tables
          \/ "secret" \in d.tables /\ s.table \in SecretTable.refs
  BY <1>2, <1>3, <1>5, <1>7, <1>8, <1>9, DroppableInOrder, Zenon
<1>11. "drop" \in {"drop", "drop present"}
  OBVIOUS
<1>12. Becomes(w, v, w.tables \ {Names[k]}, w.indexed \ {Names[k]},
               IF Names[k] = "secret" THEN "none" ELSE w.foreign, w.library, w.app)
  BY <1>1, <1>11, Drop, Zenon
<1>13. (IF Names[k] = "secret" THEN "none" ELSE w.foreign) = w.foreign
  BY <1>1
<1> HIDE DEF s, v
<1>14. v \in Schemas /\ v.tables = w.tables \ {Names[k]} /\ v.indexed = w.indexed \ {Names[k]}
       /\ v.foreign = w.foreign /\ v.app = w.app
  BY <1>12, <1>13, Zenon DEF Becomes
<1>15. \A i \in 1 .. 20 : Names[i] = Names[k] => i = k
  BY NamesAre
<1>16. \A i \in 1 .. 20 : /\ Names[i] \in v.tables <=> i # k /\ Names[i] \in w.tables
                          /\ i # k /\ Names[i] \in w.indexed => Names[i] \in v.indexed
  BY <1>14, <1>15
<1>17. \A i \in 1 .. 20 : /\ 42 - 2 * k + 1 <= 42 - 2 * i <=> i # k /\ 42 - 2 * k <= 42 - 2 * i
                          /\ 42 - 2 * k + 1 <= 41 - 2 * i => i # k /\ 42 - 2 * k <= 41 - 2 * i
  OBVIOUS
<1>18. 42 - 2 * k + 1 \in 1 .. 43 /\ ~(42 - 2 * k + 1 > 41)
  OBVIOUS
<1>19. /\ "secret" \in w.indexed => "secret" \in v.indexed
       /\ "secret" \in v.tables <=> "secret" \in w.tables
  BY <1>1, <1>14
<1>20. ASSUME Accepted(s, w) PROVE Keyed(v)
  <2>1. \A other \in w.tables \ {Names[k]} : Names[k] \notin RefsOf(other, w)
    BY <1>2, <1>20, Zenon DEF Droppable
  <2>2. "secret" \in w.tables /\ w.foreign = "none" =>
           Names[k] # "m8flow_tenant" /\ Names[k] # "user"
    BY <1>1, <2>1, SecretRefs
  <2>3. Keyed(w)
    BY Zenon DEF LibraryDown
  <2> QED
    BY <1>14, <2>2, <2>3 DEF Keyed
<1>21. ASSUME Accepted(s, w) PROVE LibraryDown(d, v, 42 - 2 * k + 1)
  BY <1>14, <1>16, <1>17, <1>18, <1>19, <1>20, <1>21, Zenon DEF LibraryDown
<1>22. LibraryDownGoes(d, w, s, 42 - 2 * k)
  BY <1>2, <1>10, <1>14, <1>21, Zenon DEF LibraryDownGoes, v
<1> QED
  BY <1>22 DEF s

\* The type that the dropped table of tenants has left.
LEMMA LibraryDownType ==
    ASSUME Checked, NEW d, NEW w \in Schemas, LibraryDown(d, w, 41)
    PROVE  LibraryDownGoes(d, w, Do("drop type", "m8flow_tenant"), 41)
<1> DEFINE s == Do("drop type", "m8flow_tenant")
           v == Executed(s, w)
<1>1. /\ \A i \in 1 .. 20 : ~(41 <= 42 - 2 * i) /\ ~(42 <= 42 - 2 * i) /\ ~(42 <= 41 - 2 * i)
      /\ 2 \in 1 .. 20
  OBVIOUS
<1>2. Names[2] \notin w.tables
  BY <1>1, Zenon DEF LibraryDown
<1>3. Accepted(s, w) /\ ~Skips(s, w)
  <2>1. "m8flow_tenant" \notin w.tables
    BY <1>2, SecretRefs, Zenon
  <2> QED
    BY <2>1, Accepts, Skipping, Zenon
<1>4. Becomes(w, v, w.tables, w.indexed, w.foreign, w.library, w.app) /\ v.types = {}
  BY DropType, Zenon
<1> HIDE DEF s, v
<1>5. v \in Schemas /\ v.tables = w.tables /\ v.indexed = w.indexed
      /\ v.foreign = w.foreign /\ v.app = w.app
  BY <1>4, Zenon DEF Becomes
<1>6. 41 + 1 = 42 /\ 42 \in 1 .. 43
  OBVIOUS
<1>7. Keyed(w) => Keyed(v)
  BY <1>5 DEF Keyed
<1>8. LibraryDown(d, v, 42)
  BY <1>1, <1>4, <1>5, <1>6, <1>7, Zenon DEF LibraryDown
<1>9. LibraryDownGoes(d, w, s, 41)
  BY <1>3, <1>5, <1>6, <1>8, Zenon DEF LibraryDownGoes, v
<1> QED
  BY <1>9 DEF s

\* The version.
LEMMA LibraryDownStamps ==
    ASSUME NEW d, NEW w \in Schemas, LibraryDown(d, w, 42)
    PROVE  LibraryDownGoes(d, w, Stamp("library", 0), 42)
<1> DEFINE s == Stamp("library", 0)
           v == Executed(s, w)
<1>1. Accepted(s, w) /\ ~Skips(s, w)
  BY Accepts, Skipping, Zenon
<1>2. Becomes(w, v, w.tables, w.indexed, w.foreign, 0, w.app)
  BY StampLibrary
<1>9. v.types = w.types
  <2>1. s \in Statements /\ s.kind = "library"
    BY StatementsAre DEF Stamp
  <2> QED
    BY <1>1, <2>1, TypesAfter, Zenon
<1> HIDE DEF s, v
<1>3. v \in Schemas /\ v.tables = w.tables /\ v.indexed = w.indexed
      /\ v.foreign = w.foreign /\ v.app = w.app
  BY <1>2, Zenon DEF Becomes
<1>4. \A i \in 1 .. 20 : ~(42 <= 42 - 2 * i) /\ ~(43 <= 42 - 2 * i) /\ ~(43 <= 41 - 2 * i)
  OBVIOUS
<1>5. 42 + 1 = 43 /\ 43 \in 1 .. 43 /\ 42 > 41
  OBVIOUS
<1>6. Keyed(w) => Keyed(v)
  BY <1>3 DEF Keyed
<1>7. LibraryDown(d, v, 43)
  BY <1>3, <1>4, <1>5, <1>6, <1>9, Zenon DEF LibraryDown
<1>8. LibraryDownGoes(d, w, s, 42)
  BY <1>1, <1>3, <1>5, <1>7, Zenon DEF LibraryDownGoes, v
<1> QED
  BY <1>8 DEF s

\* The library's downgrade is refused only what is not there or is referred to.
LEMMA LibraryDownStep ==
    ASSUME Checked, NEW d, SoundDatabase(d), NEW w \in Schemas,
           NEW P, IsLibraryDown(P), NEW pos \in 1 .. 42, LibraryDown(d, w, pos)
    PROVE  LibraryDownGoes(d, w, P[pos], pos)
<1>1. ASSUME NEW k \in 1 .. 20, pos = 2 * k - 1 PROVE LibraryDownGoes(d, w, P[pos], pos)
  <2>1. P[2 * k - 1] = Do("unindex", Names[21 - k])
    BY DEF IsLibraryDown, IsPairs
  <2>2. PICK i \in 1 .. 20 : i = 21 - k
    OBVIOUS
  <2>3. pos = 41 - 2 * i
    BY <1>1, <2>2
  <2>4. P[pos] = Do("unindex", Names[i])
    BY <1>1, <2>1, <2>2
  <2> QED
    BY <2>3, <2>4, LibraryDownUnindexes, Zenon
<1>2. ASSUME NEW k \in 1 .. 20, pos = 2 * k PROVE LibraryDownGoes(d, w, P[pos], pos)
  <2>1. P[2 * k] = Do("drop", Names[21 - k])
    BY DEF IsLibraryDown, IsPairs
  <2>2. PICK i \in 1 .. 20 : i = 21 - k
    OBVIOUS
  <2>3. pos = 42 - 2 * i
    BY <1>2, <2>2
  <2>4. P[pos] = Do("drop", Names[i])
    BY <1>2, <2>1, <2>2
  <2> QED
    BY <2>3, <2>4, LibraryDownDrops, Zenon
<1>3. CASE pos = 41
  BY <1>3, LibraryDownType, Zenon DEF IsLibraryDown
<1>4. CASE pos = 42
  BY <1>4, LibraryDownStamps, Zenon DEF IsLibraryDown
<1>5. pos \in 1 .. 45 /\ (pos \in 41 .. 45 => pos \in {41, 42})
  OBVIOUS
<1> QED
  BY <1>1, <1>2, <1>3, <1>4, <1>5, Positions, Zenon

\* How a statement of the application's downgrade goes on.
AppDownGoes(d, w, s, pos) ==
    /\ ~Accepted(s, w) => d.foreign = "compatible"
    /\ Accepted(s, w) /\ ~Skips(s, w) =>
          Executed(s, w) \in Schemas /\ AppDown(d, Executed(s, w), pos + 1)
    /\ Accepted(s, w) /\ Skips(s, w) => pos + 1 <= 24 /\ AppDown(d, w, pos + 2)

\* The indexes of the secret table: only an adopted one has none.
LEMMA AppDownUnindexes ==
    ASSUME Checked, NEW d, SoundDatabase(d), NEW w \in Schemas, AppDown(d, w, 1)
    PROVE  AppDownGoes(d, w, Do("unindex present", "secret"), 1)
<1> DEFINE s == Do("unindex present", "secret")
           v == Executed(s, w)
<1>1. "secret" \in AllTables /\ "unindex present" \in {"unindex", "unindex present"}
  BY DEF AllTables
<1>2. /\ Accepted(s, w) <=> ("secret" \in w.tables => "secret" \in w.indexed)
      /\ Skips(s, w) <=> "secret" \notin w.tables
  BY Accepts, Skipping, Zenon
<1>3. /\ "secret" \in w.tables <=> "secret" \in d.tables
      /\ w.indexed = d.indexed /\ w.foreign = d.foreign /\ d.app = 2
      /\ d.foreign \in {"none", "compatible", "incompatible"}
      /\ d.foreign # "incompatible"
      /\ d.foreign # "none" => "secret" \in d.tables
      /\ "secret" \in d.tables /\ d.foreign = "none" => "secret" \in d.indexed
  BY DEF AppDown, SoundDatabase
<1>4. ~Accepted(s, w) => d.foreign = "compatible"
  BY <1>2, <1>3, Zenon
<1>5. \A i \in 1 .. 20 : 1 <= 24 - i /\ 2 <= 24 - i /\ 3 <= 24 - i
  OBVIOUS
<1>6. ASSUME Skips(s, w) PROVE AppDown(d, w, 3)
  <2>1. "secret" \notin w.tables /\ w.foreign = "none"
    BY <1>2, <1>3, <1>6, Zenon
  <2>2. 3 \in 1 .. 25 /\ 3 # 1 /\ 3 # 2 /\ 3 # 25 /\ ~(3 <= 2)
    OBVIOUS
  <2> QED
    BY <1>3, <1>5, <2>1, <2>2, Zenon DEF AppDown
<1>7. ASSUME ~Skips(s, w) PROVE v \in Schemas /\ AppDown(d, v, 2)
  <2>1. Becomes(w, v, w.tables, w.indexed \ {"secret"}, w.foreign, w.library, w.app)
    BY <1>1, <1>7, Unindex, Zenon
  <2>6. Typed(v)
    BY <1>1, <1>7, StaysTyped, Zenon DEF AppDown, TypedKinds
  <2>2. "secret" \in d.tables
    BY <1>2, <1>3, <1>7, Zenon
  <2> HIDE DEF s, v
  <2>3. v \in Schemas /\ v.tables = w.tables /\ v.foreign = w.foreign
    BY <2>1, Zenon DEF Becomes
  <2>4. 2 \in 1 .. 25 /\ 2 # 1 /\ 2 # 25 /\ ~(2 > 2) /\ 2 <= 2
    OBVIOUS
  <2>5. AppDown(d, v, 2)
    BY <1>3, <1>5, <2>2, <2>3, <2>4, <2>6, Zenon DEF AppDown
  <2> QED
    BY <2>3, <2>5
<1>8. 1 + 1 = 2 /\ 1 + 2 = 3 /\ 2 <= 24
  OBVIOUS
<1> QED
  BY <1>4, <1>6, <1>7, <1>8, Zenon DEF AppDownGoes

\* The secret table itself, and the version before 0002.
LEMMA AppDownSecret ==
    ASSUME Checked, NEW d, NEW w \in Schemas
    PROVE  /\ AppDown(d, w, 2) => AppDownGoes(d, w, Do("drop", "secret"), 2)
           /\ AppDown(d, w, 3) => AppDownGoes(d, w, Stamp("app", 1), 3)
<1>1. \A i \in 1 .. 20 : 2 <= 24 - i /\ 3 <= 24 - i /\ 4 <= 24 - i
  OBVIOUS
<1>2. ASSUME AppDown(d, w, 2) PROVE AppDownGoes(d, w, Do("drop", "secret"), 2)
  <2> DEFINE s == Do("drop", "secret")
             v == Executed(s, w)
  <2>1. "secret" \in AllTables /\ "drop" \in {"drop", "drop present"}
    BY DEF AllTables
  <2>2. "secret" \in w.tables /\ d.app = 2
    BY <1>2 DEF AppDown
  <2>3. Accepted(s, w) /\ ~Skips(s, w)
    BY <2>2, SecretDroppable, Accepts, Skipping, Zenon
  <2>4. Becomes(w, v, w.tables \ {"secret"}, w.indexed \ {"secret"},
                IF "secret" = "secret" THEN "none" ELSE w.foreign, w.library, w.app)
    BY <2>1, Drop, Zenon
  <2>11. Typed(v)
    BY <1>2, StaysTyped, Zenon DEF AppDown
  <2> HIDE DEF s, v
  <2>5. v \in Schemas /\ v.tables = w.tables \ {"secret"} /\ v.foreign = "none"
    BY <2>4 DEF Becomes
  <2>6. \A i \in 1 .. 20 : Names[i] \in v.tables <=> Names[i] \in w.tables
    BY <2>5, NamesAre, Zenon
  <2>7. 3 \in 1 .. 25 /\ 3 # 1 /\ 3 # 2 /\ 3 # 25 /\ ~(3 <= 2) /\ 2 + 1 = 3
    OBVIOUS
  <2>8. "secret" \notin v.tables
    BY <2>5
  <2>9. AppDown(d, v, 3)
    BY <1>1, <1>2, <2>2, <2>5, <2>6, <2>7, <2>8, <2>11, Zenon DEF AppDown
  <2>10. AppDownGoes(d, w, s, 2)
    BY <2>3, <2>5, <2>7, <2>9, Zenon DEF AppDownGoes, v
  <2> QED
    BY <2>10 DEF s
<1>3. ASSUME AppDown(d, w, 3) PROVE AppDownGoes(d, w, Stamp("app", 1), 3)
  <2> DEFINE s == Stamp("app", 1)
             v == Executed(s, w)
  <2>1. Accepted(s, w) /\ ~Skips(s, w)
    BY Accepts, Skipping, Zenon
  <2>2. Becomes(w, v, w.tables, w.indexed, w.foreign, w.library, 1)
    BY StampApp
  <2>7. Typed(v)
    <3>1. 1 \in 0 .. 2
      OBVIOUS
    <3> QED
      BY <1>3, <3>1, StaysTyped, Zenon DEF AppDown
  <2> HIDE DEF s, v
  <2>3. v \in Schemas /\ v.tables = w.tables /\ v.foreign = w.foreign
    BY <2>2, Zenon DEF Becomes
  <2>4. /\ 4 \in 1 .. 25 /\ 4 # 1 /\ 4 # 2 /\ 4 # 25 /\ ~(4 <= 2) /\ 3 + 1 = 4
        /\ 3 > 2 /\ ~(3 <= 2)
    OBVIOUS
  <2>5. AppDown(d, v, 4)
    BY <1>1, <1>3, <2>3, <2>4, <2>7, Zenon DEF AppDown
  <2>6. AppDownGoes(d, w, s, 3)
    BY <2>1, <2>3, <2>4, <2>5, Zenon DEF AppDownGoes, v
  <2> QED
    BY <2>6 DEF s
<1> QED
  BY <1>2, <1>3

\* Tables of the library: dropped if they are there.
LEMMA AppDownDrops ==
    ASSUME Checked, NEW d, NEW w \in Schemas, NEW k \in 1 .. 20, AppDown(d, w, 24 - k)
    PROVE  AppDownGoes(d, w, Do("drop present", Names[k]), 24 - k)
<1> DEFINE s == Do("drop present", Names[k])
           v == Executed(s, w)
<1>1. Names[k] \in AllTables /\ Names[k] # "secret"
      /\ "drop present" \in {"drop", "drop present"}
  BY StatementsAre, NamesAre
<1>2. (Accepted(s, w) <=> (Names[k] \in w.tables => Droppable(Names[k], w))) /\ ~Skips(s, w)
  BY Accepts, Skipping, Zenon
<1>3. /\ \A i \in 1 .. 20 : 24 - k <= 24 - i => i <= k
      /\ \A i \in 1 .. 20 : 24 - k + 1 <= 24 - i <=> i # k /\ 24 - k <= 24 - i
      /\ ~(24 - k <= 2) /\ 24 - k > 2
      /\ 24 - k + 1 \in 1 .. 25 /\ 24 - k + 1 # 1 /\ 24 - k + 1 # 2 /\ 24 - k + 1 # 25
      /\ ~(24 - k + 1 <= 2)
  OBVIOUS
<1>4. \A i \in 1 .. 20 : Names[i] \in w.tables => i <= k
  BY <1>3, Zenon DEF AppDown
<1>5. "secret" \notin w.tables /\ w.foreign = "none" /\ d.app = 2
  BY <1>3, Zenon DEF AppDown
<1>6. Accepted(s, w)
  BY <1>2, <1>4, <1>5, DroppableInOrder, Zenon
<1>7. Becomes(w, v, w.tables \ {Names[k]}, w.indexed \ {Names[k]},
              IF Names[k] = "secret" THEN "none" ELSE w.foreign, w.library, w.app)
  BY <1>1, Drop, Zenon
<1>15. Typed(v)
  BY <1>1, <1>2, StaysTyped, Zenon DEF AppDown, TypedKinds
<1>8. (IF Names[k] = "secret" THEN "none" ELSE w.foreign) = w.foreign
  BY <1>1
<1> HIDE DEF s, v
<1>9. v \in Schemas /\ v.tables = w.tables \ {Names[k]} /\ v.foreign = w.foreign
  BY <1>7, <1>8, Zenon DEF Becomes
<1>10. \A i \in 1 .. 20 : Names[i] = Names[k] => i = k
  BY NamesAre, Zenon
<1>11. \A i \in 1 .. 20 : Names[i] \in v.tables <=> i # k /\ Names[i] \in w.tables
  BY <1>9, <1>10
<1>12. "secret" \notin v.tables
  BY <1>5, <1>9
<1>13. AppDown(d, v, 24 - k + 1)
  BY <1>3, <1>5, <1>9, <1>11, <1>12, <1>15, Zenon DEF AppDown
<1>14. AppDownGoes(d, w, s, 24 - k)
  BY <1>2, <1>6, <1>9, <1>13, Zenon DEF AppDownGoes, v
<1> QED
  BY <1>14 DEF s

\* The version before 0001.
LEMMA AppDownStamps ==
    ASSUME Checked, NEW d, NEW w \in Schemas, AppDown(d, w, 24)
    PROVE  AppDownGoes(d, w, Stamp("app", 0), 24)
<1> DEFINE s == Stamp("app", 0)
           v == Executed(s, w)
<1>1. Accepted(s, w) /\ ~Skips(s, w)
  BY Accepts, Skipping, Zenon
<1>2. Becomes(w, v, w.tables, w.indexed, w.foreign, w.library, 0)
  BY StampApp
<1>8. Typed(v)
  <2>1. 0 \in 0 .. 2
    OBVIOUS
  <2> QED
    BY <2>1, StaysTyped, Zenon DEF AppDown
<1> HIDE DEF s, v
<1>3. v \in Schemas /\ v.tables = w.tables /\ v.foreign = w.foreign /\ v.app = 0
  BY <1>2, Zenon DEF Becomes
<1>4. \A i \in 1 .. 20 : ~(24 <= 24 - i) /\ ~(25 <= 24 - i)
  OBVIOUS
<1>5. /\ 25 \in 1 .. 25 /\ 25 # 1 /\ 25 # 2 /\ ~(25 <= 2) /\ 24 + 1 = 25
      /\ 24 > 2 /\ ~(24 <= 2)
  OBVIOUS
<1>6. AppDown(d, v, 25)
  BY <1>3, <1>4, <1>5, <1>8, Zenon DEF AppDown
<1>7. AppDownGoes(d, w, s, 24)
  BY <1>1, <1>3, <1>5, <1>6, Zenon DEF AppDownGoes, v
<1> QED
  BY <1>7 DEF s

\* The application's downgrade is refused only the indexes of an adopted table.
LEMMA AppDownStep ==
    ASSUME Checked, NEW d, SoundDatabase(d), NEW w \in Schemas,
           NEW P, IsAppDown(P), NEW pos \in 1 .. 24, AppDown(d, w, pos)
    PROVE  AppDownGoes(d, w, P[pos], pos)
<1>1. CASE pos = 1
  BY <1>1, AppDownUnindexes, Zenon DEF IsAppDown
<1>2. CASE pos = 2
  BY <1>2, AppDownSecret, Zenon DEF IsAppDown
<1>3. CASE pos = 3
  BY <1>3, AppDownSecret, Zenon DEF IsAppDown
<1>4. CASE pos \in 4 .. 23
  <2>1. PICK k \in 1 .. 20 : k = 24 - pos
    BY <1>4
  <2>2. PICK i \in 1 .. 20 : i = 21 - k
    BY <2>1
  <2>3. pos = 24 - k /\ pos = i + 3 /\ k = 21 - i
    BY <1>4, <2>1, <2>2
  <2>4. P[pos] = Do("drop present", Names[k])
    BY <2>3, Zenon DEF IsAppDown
  <2> QED
    BY <2>3, <2>4, AppDownDrops, Zenon
<1>5. CASE pos = 24
  BY <1>5, AppDownStamps, Zenon DEF IsAppDown
<1>6. pos \in {1, 2, 3, 24} \/ pos \in 4 .. 23
  OBVIOUS
<1> QED
  BY <1>1, <1>2, <1>3, <1>4, <1>5, <1>6

-----------------------------------------------------------------------------
(***************************************************************************)
(* What a finished command leaves, and the invariant.                      *)
(***************************************************************************)

\* Both upgrades: every table with its indexes.
LEMMA UpgradedIsSound ==
    ASSUME NEW d, SoundDatabase(d), NEW w \in Schemas,
           LibraryUp(d, w, 42) \/ AppUp(d, w, 45)
    PROVE  SoundDatabase(w)
<1>1. \A k \in 1 .. 20 : Names[k] \in w.tables /\ Names[k] \in w.indexed
  <2>1. 42 \in 41 .. 45 /\ 45 \in 41 .. 45
    OBVIOUS
  <2>2. CASE LibraryUp(d, w, 42)
    BY <2>1, <2>2, TablesMade, Zenon DEF LibraryUp
  <2>3. CASE AppUp(d, w, 45)
    BY <2>1, <2>3, TablesMade, Zenon DEF AppUp
  <2> QED
    BY <2>2, <2>3, Zenon
<1>2. /\ w.foreign = d.foreign /\ w.app \in {0, 2}
      /\ w.app = 2 => w.foreign # "incompatible"
      /\ w.foreign # "none" => "secret" \in w.tables
      /\ "secret" \in w.tables /\ w.foreign = "none" => "secret" \in w.indexed
  BY DEF LibraryUp, AppUp, SoundDatabase
<1>3. ASSUME NEW t \in w.tables PROVE RefsOf(t, w) \subseteq w.tables
  <2>1. CASE t = "secret"
    <3>1. \A r \in RefsOf("secret", w) : r = Names[2] \/ r = Names[4]
      <4>1. RefsOf("secret", w) \subseteq {"m8flow_tenant", "user"}
        BY SecretRefs
      <4>2. "m8flow_tenant" = Names[2] /\ "user" = Names[4]
        BY SecretRefs, Zenon
      <4> QED
        BY <4>1, <4>2, Zenon
    <3>2. 2 \in 1 .. 20 /\ 4 \in 1 .. 20
      OBVIOUS
    <3> QED
      BY <1>1, <2>1, <3>1, <3>2, Zenon
  <2>2. ASSUME NEW k \in 1 .. 20, t = Names[k] PROVE RefsOf(t, w) \subseteq w.tables
    <3>1. ASSUME NEW r \in RefsOf(t, w) PROVE r \in w.tables
      <4>1. PICK j \in 1 .. 20 : j < k /\ r = Names[j]
        BY <2>2, <3>1, RefsAreEarlier, Zenon
      <4> QED
        BY <1>1, <4>1, Zenon
    <3> QED
      BY <3>1, Zenon
  <2> QED
    BY <2>1, <2>2, NameOrSecret, Zenon
<1>4. ASSUME NEW t \in w.tables, t # "secret" \/ w.foreign = "none" PROVE t \in w.indexed
  BY <1>1, <1>2, <1>4, NameOrSecret
<1>5. "m8flow_tenant" \in w.tables
  BY <1>1, SecretRefs
<1>6. w \in [tables : SUBSET AllTables, indexed : SUBSET AllTables,
             types : SUBSET {"tenantstatus"},
             foreign : {"none", "compatible", "incompatible"},
             library : {0, 1}, app : {0, 2}]
  BY <1>2 DEF Schemas
<1>7. Typed(w)
  BY Zenon DEF LibraryUp, AppUp
<1> QED
  BY <1>2, <1>3, <1>4, <1>5, <1>6, <1>7, Zenon DEF SoundDatabase, Typed

\* Both downgrades: no table but perhaps an adopted one.
LEMMA DowngradedIsSound ==
    ASSUME NEW d, SoundDatabase(d), NEW w \in Schemas,
           LibraryDown(d, w, 43) \/ AppDown(d, w, 25)
    PROVE  SoundDatabase(w)
<1>1. \A k \in 1 .. 20 : ~(43 <= 42 - 2 * k) /\ ~(25 <= 24 - k)
  OBVIOUS
<1>2. \A k \in 1 .. 20 : Names[k] \notin w.tables
  BY <1>1, Zenon DEF LibraryDown, AppDown
<1>3. \A t \in w.tables : t = "secret"
  BY <1>2, NameOrSecret, Zenon
<1>4. "m8flow_tenant" \notin w.tables /\ "user" \notin w.tables
  BY <1>2, SecretRefs
<1>5. /\ w.app \in {0, 2}
      /\ w.app = 2 => w.foreign # "incompatible"
      /\ w.foreign # "none" => "secret" \in w.tables
      /\ "secret" \in w.tables => w.foreign # "none"
  <2>1. CASE LibraryDown(d, w, 43)
    BY <1>4, <2>1, Zenon DEF LibraryDown, SoundDatabase, Keyed
  <2>2. CASE AppDown(d, w, 25)
    BY <2>2 DEF AppDown
  <2> QED
    BY <2>1, <2>2
<1>6. \A t \in w.tables : RefsOf(t, w) \subseteq w.tables
  BY <1>3, <1>5, SecretRefs
<1>7. w \in [tables : SUBSET AllTables, indexed : SUBSET AllTables,
             types : SUBSET {"tenantstatus"},
             foreign : {"none", "compatible", "incompatible"},
             library : {0, 1}, app : {0, 2}]
  BY <1>5 DEF Schemas
<1>8. w.types = {}
  <2>1. CASE LibraryDown(d, w, 43)
    <3>1. 43 > 41
      OBVIOUS
    <3> QED
      BY <2>1, <3>1, Zenon DEF LibraryDown
  <2>2. CASE AppDown(d, w, 25)
    BY <1>4, <2>2, Zenon DEF AppDown, Typed
  <2> QED
    BY <2>1, <2>2
<1> QED
  BY <1>3, <1>4, <1>5, <1>6, <1>7, <1>8, Zenon DEF SoundDatabase

\* A running command with its plan.
RunsIn(c, d, w, P, pos, length) ==
    \/ c = "library upgrade" /\ LibraryUp(d, w, pos) /\ IsLibraryUp(P) /\ length = 41
    \/ c = "library downgrade" /\ LibraryDown(d, w, pos) /\ IsLibraryDown(P) /\ length = 42
    \/ c = "app upgrade" /\ AppUp(d, w, pos) /\ IsAppUp(P) /\ length = 44
    \/ c = "app downgrade" /\ AppDown(d, w, pos) /\ IsAppDown(P) /\ length = 24

\* Every command has the plan of its history.
LEMMA RunsHasPlan ==
    ASSUME NEW c, NEW d, NEW w, NEW pos, Runs(c, d, w, pos)
    PROVE  \E length : RunsIn(c, d, w, PlanOf(c, d), pos, length)
<1>1. ASSUME c = "library upgrade", LibraryUp(d, w, pos)
      PROVE  RunsIn(c, d, w, PlanOf(c, d), pos, 41)
  <2>1. d.library = 0
    BY <1>1, Zenon DEF LibraryUp
  <2>2. IsLibraryUp(PlanOf("library upgrade", d))
    BY <2>1, LibraryPlansAre, Zenon
  <2> QED
    BY <1>1, <2>2, Zenon DEF RunsIn
<1>2. ASSUME c = "library downgrade", LibraryDown(d, w, pos)
      PROVE  RunsIn(c, d, w, PlanOf(c, d), pos, 42)
  <2>1. d.library = 1
    BY <1>2, Zenon DEF LibraryDown
  <2>2. IsLibraryDown(PlanOf("library downgrade", d))
    BY <2>1, LibraryPlansAre, Zenon
  <2> QED
    BY <1>2, <2>2, Zenon DEF RunsIn
<1>3. ASSUME c = "app upgrade", AppUp(d, w, pos)
      PROVE  RunsIn(c, d, w, PlanOf(c, d), pos, 44)
  <2>1. d.app = 0
    BY <1>3, Zenon DEF AppUp
  <2>2. IsAppUp(PlanOf("app upgrade", d))
    BY <2>1, AppPlansAre, Zenon
  <2> QED
    BY <1>3, <2>2, Zenon DEF RunsIn
<1>4. ASSUME c = "app downgrade", AppDown(d, w, pos)
      PROVE  RunsIn(c, d, w, PlanOf(c, d), pos, 24)
  <2>1. d.app = 2
    BY <1>4, Zenon DEF AppDown
  <2>2. IsAppDown(PlanOf("app downgrade", d))
    BY <2>1, AppPlansAre, Zenon
  <2> QED
    BY <1>4, <2>2, Zenon DEF RunsIn
<1> QED
  BY <1>1, <1>2, <1>3, <1>4, Zenon DEF Runs

\* Where in the plan it is.
InPlan(P, pos, length) ==
    P \in Seq(Statements) /\ Len(P) = length /\ length \in Nat /\ pos \in 1 .. length + 1

\* A running command is at a position of the plan of its kind.
LEMMA RunsInPlan ==
    ASSUME NEW c, NEW d, NEW w, NEW P, NEW pos, NEW length, RunsIn(c, d, w, P, pos, length)
    PROVE  InPlan(P, pos, length)
<1>1. ASSUME LibraryUp(d, w, pos), IsLibraryUp(P), length = 41 PROVE InPlan(P, pos, length)
  <2>1. P \in Seq(Statements) /\ Len(P) = 41
    BY <1>1, Zenon DEF IsLibraryUp
  <2>2. pos \in 1 .. 42
    BY <1>1, Zenon DEF LibraryUp
  <2> QED
    BY <1>1, <2>1, <2>2 DEF InPlan
<1>2. ASSUME LibraryDown(d, w, pos), IsLibraryDown(P), length = 42 PROVE InPlan(P, pos, length)
  <2>1. P \in Seq(Statements) /\ Len(P) = 42
    BY <1>2, Zenon DEF IsLibraryDown
  <2>2. pos \in 1 .. 43
    BY <1>2, Zenon DEF LibraryDown
  <2> QED
    BY <1>2, <2>1, <2>2 DEF InPlan
<1>3. ASSUME AppUp(d, w, pos), IsAppUp(P), length = 44 PROVE InPlan(P, pos, length)
  <2>1. P \in Seq(Statements) /\ Len(P) = 44
    BY <1>3, Zenon DEF IsAppUp
  <2>2. pos \in 1 .. 45
    BY <1>3, Zenon DEF AppUp
  <2> QED
    BY <1>3, <2>1, <2>2 DEF InPlan
<1>4. ASSUME AppDown(d, w, pos), IsAppDown(P), length = 24 PROVE InPlan(P, pos, length)
  <2>1. P \in Seq(Statements) /\ Len(P) = 24
    BY <1>4, Zenon DEF IsAppDown
  <2>2. pos \in 1 .. 25
    BY <1>4, Zenon DEF AppDown
  <2> QED
    BY <1>4, <2>1, <2>2 DEF InPlan
<1> QED
  BY <1>1, <1>2, <1>3, <1>4, Zenon DEF RunsIn

\* A statement of a running command: why it may be refused.
Refused(c, d, t) ==
    \/ c = "library upgrade" /\ t \in d.tables
    \/ /\ c = "library downgrade"
       /\ t \notin d.tables \/ ("secret" \in d.tables /\ t \in SecretTable.refs)
    \/ c = "app upgrade" /\ d.foreign = "incompatible"
    \/ c = "app downgrade" /\ d.foreign = "compatible"

\* And where it leaves the command.
Goes(c, d, w, s, pos, length) ==
    /\ ~Accepted(s, w) => Refused(c, d, s.table)
    /\ Accepted(s, w) /\ ~Skips(s, w) =>
          Executed(s, w) \in Schemas /\ Runs(c, d, Executed(s, w), pos + 1)
    /\ Accepted(s, w) /\ Skips(s, w) => pos + 1 <= length /\ Runs(c, d, w, pos + 2)

\* One statement further, for each kind of command.
LEMMA RunsStep ==
    ASSUME Checked, NEW c, NEW d, SoundDatabase(d), NEW w \in Schemas, NEW P, NEW pos, NEW length,
           RunsIn(c, d, w, P, pos, length), pos <= length
    PROVE  Goes(c, d, w, P[pos], pos, length)
<1>1. InPlan(P, pos, length)
  BY RunsInPlan, Zenon
<1>2. pos \in 1 .. length
  BY <1>1 DEF InPlan
<1>3. ASSUME c = "library upgrade", LibraryUp(d, w, pos), IsLibraryUp(P), length = 41
      PROVE  Goes(c, d, w, P[pos], pos, length)
  <2>1. pos \in 1 .. 41
    BY <1>2, <1>3, Zenon
  <2>2. /\ ~Accepted(P[pos], w) => P[pos].table \in d.tables
        /\ ~Skips(P[pos], w)
        /\ Accepted(P[pos], w) =>
              Executed(P[pos], w) \in Schemas /\ LibraryUp(d, Executed(P[pos], w), pos + 1)
    BY <1>3, <2>1, LibraryUpStep, Zenon
  <2> QED
    BY <1>3, <2>2, Zenon DEF Goes, Runs, Refused
<1>4. ASSUME c = "library downgrade", LibraryDown(d, w, pos), IsLibraryDown(P), length = 42
      PROVE  Goes(c, d, w, P[pos], pos, length)
  <2>1. pos \in 1 .. 42
    BY <1>2, <1>4, Zenon
  <2>2. LibraryDownGoes(d, w, P[pos], pos)
    BY <1>4, <2>1, LibraryDownStep, Zenon
  <2> QED
    BY <1>4, <2>2, Zenon DEF Goes, Runs, Refused, LibraryDownGoes
<1>5. ASSUME c = "app upgrade", AppUp(d, w, pos), IsAppUp(P), length = 44
      PROVE  Goes(c, d, w, P[pos], pos, length)
  <2>1. pos \in 1 .. 44
    BY <1>2, <1>5, Zenon
  <2>2. AppUpGoes(d, w, P[pos], pos)
    BY <1>5, <2>1, AppUpStep, Zenon
  <2> QED
    BY <1>5, <2>2, Zenon DEF Goes, Runs, Refused, AppUpGoes
<1>6. ASSUME c = "app downgrade", AppDown(d, w, pos), IsAppDown(P), length = 24
      PROVE  Goes(c, d, w, P[pos], pos, length)
  <2>1. pos \in 1 .. 24
    BY <1>2, <1>6, Zenon
  <2>2. AppDownGoes(d, w, P[pos], pos)
    BY <1>6, <2>1, AppDownStep, Zenon
  <2> QED
    BY <1>6, <2>2, Zenon DEF Goes, Runs, Refused, AppDownGoes
<1> QED
  BY <1>3, <1>4, <1>5, <1>6, Zenon DEF RunsIn

\* A command that is through leaves a sound database.
LEMMA RunsEnd ==
    ASSUME NEW c, NEW d, SoundDatabase(d), NEW w \in Schemas, NEW P, NEW pos, NEW length,
           RunsIn(c, d, w, P, pos, length), ~(pos <= length)
    PROVE  SoundDatabase(w)
<1>1. InPlan(P, pos, length)
  BY RunsInPlan, Zenon
<1>2. pos = length + 1
  BY <1>1 DEF InPlan
<1>3. ASSUME length = 41 PROVE pos = 42
  BY <1>2, <1>3
<1>6. ASSUME length = 42 PROVE pos = 43
  BY <1>2, <1>6
<1>4. ASSUME length = 44 PROVE pos = 45
  BY <1>2, <1>4
<1>5. ASSUME length = 24 PROVE pos = 25
  BY <1>2, <1>5
<1> QED
  BY <1>3, <1>4, <1>5, <1>6, UpgradedIsSound, DowngradedIsSound, Zenon DEF RunsIn

\* Positions are bounded.
LEMMA RunsBounds ==
    ASSUME NEW c, NEW d, NEW w, NEW pos, Runs(c, d, w, pos)
    PROVE  pos \in 1 .. 45
<1>1. pos \in 1 .. 42 \/ pos \in 1 .. 43 \/ pos \in 1 .. 45 \/ pos \in 1 .. 25
  BY Zenon DEF Runs, LibraryUp, LibraryDown, AppUp, AppDown
<1> QED
  BY <1>1

\* A sound database is a schema.
LEMMA SoundIsSchema ==
    ASSUME NEW d, SoundDatabase(d)
    PROVE  d \in Schemas /\ d.library \in {0, 1} /\ d.app \in {0, 2}
<1>1. d \in [tables : SUBSET AllTables, indexed : SUBSET AllTables,
             types : SUBSET {"tenantstatus"},
             foreign : {"none", "compatible", "incompatible"},
             library : {0, 1}, app : {0, 2}]
  BY Zenon DEF SoundDatabase
<1> QED
  BY <1>1 DEF Schemas

\* The first position of every command.
Starts(d) ==
    /\ d.library = 0 => LibraryUp(d, d, 1)
    /\ d.library = 1 => LibraryDown(d, d, 1)
    /\ d.app = 0 => AppUp(d, d, 1)
    /\ d.app = 2 => AppDown(d, d, 1)

\* A sound database is at the first position of each.
LEMMA Starting ==
    ASSUME NEW d, SoundDatabase(d)
    PROVE  Starts(d)
<1>1. \A k \in 1 .. 20 : ~(2 * k <= 1) /\ ~(2 * k < 1)
  OBVIOUS
<1>2. \A k \in 1 .. 20 : 1 <= 42 - 2 * k /\ 1 <= 41 - 2 * k /\ 1 <= 24 - k
  OBVIOUS
<1>3. 1 \in 1 .. 42 /\ 1 \in 1 .. 43 /\ 1 \in 1 .. 45 /\ 1 \in 1 .. 25
  OBVIOUS
<1>4. ~(1 > 41) /\ ~(1 > 42) /\ ~(1 > 43) /\ 1 # 45 /\ 1 # 2 /\ 1 # 25 /\ ~(1 > 2) /\ 1 <= 2
  OBVIOUS
<1>5. Keyed(d)
  BY SecretRefs DEF SoundDatabase, Keyed
<1>10. Typed(d)
  BY Zenon DEF SoundDatabase, Typed
<1>6. d.library = 0 => LibraryUp(d, d, 1)
  BY <1>1, <1>3, <1>10, Zenon DEF LibraryUp, TablesUp
<1>7. d.library = 1 => LibraryDown(d, d, 1)
  BY <1>2, <1>3, <1>4, <1>5, Zenon DEF LibraryDown
<1>8. d.app = 0 => AppUp(d, d, 1)
  BY <1>1, <1>3, <1>4, <1>10, Zenon DEF AppUp, TablesUp
<1>9. d.app = 2 => AppDown(d, d, 1)
  BY <1>2, <1>3, <1>4, <1>10, Zenon DEF AppDown
<1> QED
  BY <1>6, <1>7, <1>8, <1>9 DEF Starts

\* A command begins.
LEMMA BeginKeeps ==
    ASSUME SchemaInv, NEW c \in Commands \cup {"app upgrade"}, BeginCommand(c)
    PROVE  SchemaInv'
<1> SUFFICES ASSUME Checked' PROVE (SoundDatabase(db) /\ Underway /\ command # "none")'
  BY DEF SchemaInv
<1>1. Checked /\ db' = db /\ work' = db /\ command' = c /\ plan' = PlanOf(c, db)
  BY Zenon DEF Checked, BeginCommand
<1>2. c \in {"library upgrade", "library downgrade", "app upgrade", "app downgrade"}
  BY SchemaAssumption
<1>3. SoundDatabase(db)
  BY <1>1 DEF SchemaInv
<1>4. db \in Schemas /\ db.library \in {0, 1} /\ db.app \in {0, 2}
  BY <1>3, SoundIsSchema, Zenon
<1>5. Starts(db)
  BY <1>3, Starting, Zenon
<1>6. ASSUME c = "library upgrade" PROVE plan' = <<>> \/ Runs(c, db, db, 1)
  <2>1. db.library = 1 => plan' = <<>>
    BY <1>1, <1>6, LibraryPlansAre, Zenon
  <2> QED
    BY <1>4, <1>5, <1>6, <2>1, Zenon DEF Runs, Starts
<1>7. ASSUME c = "library downgrade" PROVE plan' = <<>> \/ Runs(c, db, db, 1)
  <2>1. db.library = 0 => plan' = <<>>
    BY <1>1, <1>7, LibraryPlansAre, Zenon
  <2> QED
    BY <1>4, <1>5, <1>7, <2>1, Zenon DEF Runs, Starts
<1>8. ASSUME c = "app upgrade" PROVE plan' = <<>> \/ Runs(c, db, db, 1)
  <2>1. db.app = 2 => plan' = <<>>
    BY <1>1, <1>8, AppPlansAre, Zenon
  <2> QED
    BY <1>4, <1>5, <1>8, <2>1, Zenon DEF Runs, Starts
<1>9. ASSUME c = "app downgrade" PROVE plan' = <<>> \/ Runs(c, db, db, 1)
  <2>1. db.app = 0 => plan' = <<>>
    BY <1>1, <1>9, AppPlansAre, Zenon
  <2> QED
    BY <1>4, <1>5, <1>9, <2>1, Zenon DEF Runs, Starts
<1>10. plan' = <<>> \/ Runs(c, db, db, 1)
  BY <1>2, <1>6, <1>7, <1>8, <1>9, Zenon
<1>11. ASSUME Runs(c, db, db, 1) PROVE plan' = Rest(PlanOf(c, db), 1)
  <2>1. PICK length : RunsIn(c, db, db, PlanOf(c, db), 1, length)
    BY <1>11, RunsHasPlan, Zenon
  <2>2. InPlan(PlanOf(c, db), 1, length)
    BY <2>1, RunsInPlan, Zenon
  <2>3. PlanOf(c, db) \in Seq(Statements)
    BY <2>2, Zenon DEF InPlan
  <2>4. SubSeq(PlanOf(c, db), 1, Len(PlanOf(c, db))) = PlanOf(c, db)
    BY <2>3, WholeCut, Zenon
  <2> QED
    BY <1>1, <2>4, Zenon DEF Rest
<1>12. Underway'
  BY <1>1, <1>4, <1>10, <1>11, RunsBounds, Zenon DEF Underway
<1>13. c # "none"
  BY <1>2
<1> QED
  BY <1>1, <1>3, <1>12, <1>13, Zenon

\* Where a running command with statements left is.
LEMMA Running ==
    ASSUME SchemaInv, Checked, plan # <<>>
    PROVE  /\ SoundDatabase(db) /\ command # "none" /\ work \in Schemas
           /\ \E P, pos, length :
                 /\ P = PlanOf(command, db) /\ plan = Rest(P, pos)
                 /\ RunsIn(command, db, work, P, pos, length) /\ InPlan(P, pos, length)
                 /\ pos <= length /\ Head(plan) = P[pos]
                 /\ SubSeq(plan, 2, Len(plan)) = Rest(P, pos + 1)
                 /\ pos + 1 <= length => SubSeq(plan, 3, Len(plan)) = Rest(P, pos + 2)
<1>1. SoundDatabase(db) /\ command # "none" /\ Underway
  BY DEF SchemaInv
<1>2. PICK pos : /\ plan = Rest(PlanOf(command, db), pos) /\ work \in Schemas
                 /\ Runs(command, db, work, pos)
  BY <1>1, Zenon DEF Underway
<1>3. PICK P : P = PlanOf(command, db)
  OBVIOUS
<1>4. PICK length : RunsIn(command, db, work, P, pos, length)
  BY <1>2, <1>3, RunsHasPlan, Zenon
<1>5. InPlan(P, pos, length)
  BY <1>4, RunsInPlan, Zenon
<1>6. P \in Seq(Statements) /\ Len(P) = length /\ pos \in 1 .. Len(P) + 1
  BY <1>5 DEF InPlan
<1>7. plan = Rest(P, pos)
  BY <1>2, <1>3, Zenon
<1>8. /\ plan # <<>> <=> pos <= Len(P)
      /\ pos <= Len(P) =>
            Head(plan) = P[pos] /\ SubSeq(plan, 2, Len(plan)) = Rest(P, pos + 1)
      /\ pos + 1 <= Len(P) => SubSeq(plan, 3, Len(plan)) = Rest(P, pos + 2)
  BY <1>6, <1>7, RestStep
<1> QED
  BY <1>1, <1>2, <1>3, <1>4, <1>5, <1>6, <1>7, <1>8, Zenon

\* One statement.
LEMMA ExecuteKeeps ==
    ASSUME SchemaInv, Execute
    PROVE  SchemaInv'
<1> SUFFICES ASSUME Checked' PROVE (SoundDatabase(db) /\ Underway /\ command # "none")'
  BY DEF SchemaInv
<1>1. /\ Checked /\ db' = db /\ command' = command /\ plan # <<>>
      /\ Accepted(Head(plan), work) /\ work' = Executed(Head(plan), work)
      /\ plan' = SubSeq(plan, IF Skips(Head(plan), work) THEN 3 ELSE 2, Len(plan))
  BY DEF Checked, Execute
<1>2. SoundDatabase(db) /\ command # "none" /\ work \in Schemas
  BY <1>1, Running, Zenon
<1>3. PICK P, pos, length :
         /\ P = PlanOf(command, db) /\ plan = Rest(P, pos)
         /\ RunsIn(command, db, work, P, pos, length) /\ InPlan(P, pos, length)
         /\ pos <= length /\ Head(plan) = P[pos]
         /\ SubSeq(plan, 2, Len(plan)) = Rest(P, pos + 1)
         /\ pos + 1 <= length => SubSeq(plan, 3, Len(plan)) = Rest(P, pos + 2)
  BY <1>1, Running, Zenon
<1>4. Goes(command, db, work, P[pos], pos, length)
  BY <1>1, <1>2, <1>3, RunsStep, Zenon
<1>5. P = PlanOf(command', db')
  BY <1>1, <1>3, Zenon
<1>6. ASSUME NEW q, work' \in Schemas, Runs(command, db, work', q), plan' = Rest(P, q)
      PROVE  Underway'
  <2>1. q \in 1 .. 45
    BY <1>6, RunsBounds, Zenon
  <2> QED
    BY <1>1, <1>5, <1>6, <2>1, Zenon DEF Underway
<1>7. CASE Skips(P[pos], work)
  <2>1. Skips(Head(plan), work)
    BY <1>3, <1>7, Zenon
  <2>2. work' = work
    BY <1>1, <2>1 DEF Executed
  <2>3. plan' = SubSeq(plan, 3, Len(plan))
    BY <1>1, <2>1
  <2>4. pos + 1 <= length /\ Runs(command, db, work, pos + 2)
    BY <1>1, <1>3, <1>4, <1>7, Zenon DEF Goes
  <2> QED
    BY <1>1, <1>2, <1>3, <1>6, <2>2, <2>3, <2>4, Zenon
<1>8. CASE ~Skips(P[pos], work)
  <2>1. ~Skips(Head(plan), work)
    BY <1>3, <1>8, Zenon
  <2>2. plan' = SubSeq(plan, 2, Len(plan))
    BY <1>1, <2>1
  <2>3. work' \in Schemas /\ Runs(command, db, work', pos + 1)
    BY <1>1, <1>3, <1>4, <1>8, Zenon DEF Goes
  <2> QED
    BY <1>1, <1>2, <1>3, <1>6, <2>2, <2>3, Zenon
<1> QED
  BY <1>7, <1>8, Zenon

\* A command commits.
LEMMA CommitKeeps ==
    ASSUME SchemaInv, CommitCommand
    PROVE  SchemaInv'
<1> SUFFICES ASSUME Checked' PROVE (SoundDatabase(db) /\ command = "none" /\ plan = <<>>)'
  BY DEF SchemaInv
<1>1. /\ Checked /\ command # "none" /\ plan = <<>> /\ db' = work
      /\ command' = "none" /\ plan' = <<>>
  BY DEF Checked, CommitCommand
<1>2. SoundDatabase(db) /\ Underway
  BY <1>1 DEF SchemaInv
<1>3. SoundDatabase(work)
  <2>1. CASE work = db
    BY <1>2, <2>1, Zenon
  <2>2. ASSUME NEW pos, plan = Rest(PlanOf(command, db), pos), work \in Schemas,
               Runs(command, db, work, pos)
        PROVE  SoundDatabase(work)
    <3>1. PICK P : P = PlanOf(command, db)
      OBVIOUS
    <3>2. PICK length : RunsIn(command, db, work, P, pos, length)
      BY <2>2, <3>1, RunsHasPlan, Zenon
    <3>3. InPlan(P, pos, length)
      BY <3>2, RunsInPlan, Zenon
    <3>4. P \in Seq(Statements) /\ Len(P) = length /\ pos \in 1 .. Len(P) + 1
      BY <3>3 DEF InPlan
    <3>5. plan = Rest(P, pos)
      BY <2>2, <3>1, Zenon
    <3>6. plan # <<>> <=> pos <= Len(P)
      BY <3>4, <3>5, RestStep
    <3>7. ~(pos <= length)
      BY <1>1, <3>4, <3>6
    <3> QED
      BY <1>2, <2>2, <3>2, <3>7, RunsEnd, Zenon
  <2> QED
    BY <1>2, <2>1, <2>2, Zenon DEF Underway
<1> QED
  BY <1>1, <1>3, Zenon

\* A command ends early.
LEMMA AbandonKeeps ==
    ASSUME SchemaInv, Abandon
    PROVE  SchemaInv'
BY Zenon DEF SchemaInv, Abandon, Checked, Underway

\* Nothing happens to the database.
LEMMA SchemaStays ==
    ASSUME SchemaInv, UNCHANGED schemaVars
    PROVE  SchemaInv'
BY Zenon DEF SchemaInv, schemaVars, Checked, Underway

\* A refused statement of a running command has a reason outside its history.
LEMMA RefusalHasReason ==
    ASSUME SchemaInv
    PROVE  RefusalIsForeign
<1> SUFFICES ASSUME Checked, plan # <<>>, ~Accepted(Head(plan), work)
             PROVE  Refused(command, db, Head(plan).table)
  BY Zenon DEF RefusalIsForeign, Refused
<1>1. SoundDatabase(db) /\ work \in Schemas
  BY Running, Zenon
<1>2. PICK P, pos, length :
         /\ RunsIn(command, db, work, P, pos, length) /\ pos <= length
         /\ Head(plan) = P[pos]
  BY Running, Zenon
<1>3. Goes(command, db, work, P[pos], pos, length)
  BY <1>1, <1>2, RunsStep, Zenon
<1> QED
  BY <1>2, <1>3, Zenon DEF Goes

-----------------------------------------------------------------------------
(***************************************************************************)
(* SQLite, where every statement stands for itself: downgrades drop the    *)
(* users before the tenants they belong to.                                *)
(***************************************************************************)

Drops(s, t) == s.kind \in {"drop", "drop present"} /\ s.table = t

\* A statement that may be skipped, and then the next one with it.
Optional(s) == s.kind \in {"create missing", "create secret", "unindex present"}

\* Users are dropped before tenants, or they are gone already.
UsersFirst(p, gone) ==
    /\ p \in Seq(Statements)
    /\ \A i \in DOMAIN p : Optional(p[i]) => i + 1 \in DOMAIN p /\ ~Drops(p[i + 1], "user")
    /\ \A i \in DOMAIN p :
          Drops(p[i], "m8flow_tenant") => gone \/ \E j \in 1 .. i - 1 : Drops(p[j], "user")

\* What a statement on a table says.
LEMMA DoIs ==
    ASSUME NEW s, NEW kind, NEW t, s = Do(kind, t)
    PROVE  s.kind = kind /\ s.table = t
BY DEF Do

\* What a stamp says.
LEMMA StampIs ==
    ASSUME NEW s, NEW history, NEW v, s = Stamp(history, v)
    PROVE  s.kind = history
BY DEF Stamp

\* Statements neither optional nor dropping anything are in order.
LEMMA PlainPlan ==
    ASSUME NEW p \in Seq(Statements), NEW gone,
           \A i \in DOMAIN p : p[i].kind \in {"create", "index", "library", "app"}
    PROVE  UsersFirst(p, gone)
<1>1. \A i \in DOMAIN p : ~Optional(p[i]) /\ ~Drops(p[i], "m8flow_tenant")
  BY DEF Optional, Drops
<1> QED
  BY <1>1, Zenon DEF UsersFirst

\* The library's upgrade drops nothing.
LEMMA LibraryUpInOrder ==
    ASSUME NEW P, IsLibraryUp(P)
    PROVE  UsersFirst(P, FALSE)
<1>1. P \in Seq(Statements) /\ Len(P) = 41 /\ IsPairs(P, "create", "index", FALSE)
      /\ P[41] = Stamp("library", 1)
  BY Zenon DEF IsLibraryUp
<1>2. DOMAIN P = 1 .. 41
  BY <1>1
<1>3. ASSUME NEW i \in DOMAIN P PROVE P[i].kind \in {"create", "index", "library", "app"}
  <2>1. i \in 1 .. 45 /\ (i \in 41 .. 45 => i = 41)
    BY <1>2
  <2>2. i = 41 \/ \E k \in 1 .. 20 : i = 2 * k - 1 \/ i = 2 * k
    BY <2>1, Positions, Zenon
  <2>3. ASSUME NEW k \in 1 .. 20, i = 2 * k - 1 \/ i = 2 * k
        PROVE  P[i].kind \in {"create", "index"}
    <3>1. /\ P[2 * k - 1] = Do("create", Names[IF FALSE THEN 21 - k ELSE k])
          /\ P[2 * k] = Do("index", Names[IF FALSE THEN 21 - k ELSE k])
      BY <1>1, Zenon DEF IsPairs
    <3>2. P[2 * k - 1].kind = "create" /\ P[2 * k].kind = "index"
      BY <3>1 DEF Do
    <3> QED
      BY <2>3, <3>2, Zenon
  <2>4. i = 41 => P[i].kind = "library"
    BY <1>1 DEF Stamp
  <2> QED
    BY <2>2, <2>3, <2>4, Zenon
<1> QED
  BY <1>1, <1>3, PlainPlan, Zenon

\* Its downgrade drops the users as the 17th table, the tenants as the 19th.
LEMMA LibraryDownInOrder ==
    ASSUME NEW P, IsLibraryDown(P)
    PROVE  UsersFirst(P, FALSE)
<1>1. P \in Seq(Statements) /\ Len(P) = 42 /\ IsPairs(P, "unindex", "drop", TRUE)
      /\ P[41] = Do("drop type", "m8flow_tenant") /\ P[42] = Stamp("library", 0)
  BY Zenon DEF IsLibraryDown
<1>2. DOMAIN P = 1 .. 42
  <2>1. P \in Seq(Statements) /\ Len(P) = 42
    BY <1>1, Zenon
  <2> QED
    BY <2>1
<1>3. \A k \in 1 .. 20 : /\ P[2 * k - 1] = Do("unindex", Names[21 - k])
                         /\ P[2 * k] = Do("drop", Names[21 - k])
  BY <1>1, Zenon DEF IsPairs
<1>4. Drops(P[34], "user")
  <2>1. 17 \in 1 .. 20 /\ 2 * 17 = 34 /\ 21 - 17 = 4
    OBVIOUS
  <2>2. P[34] = Do("drop", Names[4])
    BY <1>3, <2>1
  <2> QED
    BY <2>2, NamesAre DEF Drops, Do
<1>5. ASSUME NEW i \in DOMAIN P
      PROVE  ~Optional(P[i]) /\ (Drops(P[i], "m8flow_tenant") => i = 38)
  <2>1. i \in 1 .. 45 /\ (i \in 41 .. 45 => i \in {41, 42})
    BY <1>2
  <2>2. i \in {41, 42} \/ \E k \in 1 .. 20 : i = 2 * k - 1 \/ i = 2 * k
    BY <2>1, Positions, Zenon
  <2>3. CASE i \in {41, 42}
    <3>1. P[41].kind = "drop type" /\ P[42].kind = "library"
      <4>1. Do("drop type", "m8flow_tenant").kind = "drop type"
        BY Zenon DEF Do
      <4>2. Stamp("library", 0).kind = "library"
        BY DEF Stamp
      <4> QED
        BY <1>1, <4>1, <4>2, Zenon
    <3>2. P[i].kind \in {"drop type", "library"}
      BY <2>3, <3>1, Zenon
    <3> QED
      BY <3>2, Zenon DEF Optional, Drops
  <2>4. ASSUME NEW k \in 1 .. 20, i = 2 * k - 1
        PROVE  ~Optional(P[i]) /\ ~Drops(P[i], "m8flow_tenant")
    <3>1. P[i].kind = "unindex"
      <4>1. P[i] = Do("unindex", Names[21 - k])
        BY <1>3, <2>4, Zenon
      <4> QED
        BY <4>1 DEF Do
    <3> QED
      BY <3>1 DEF Optional, Drops
  <2>5. ASSUME NEW k \in 1 .. 20, i = 2 * k
        PROVE  ~Optional(P[i]) /\ (Drops(P[i], "m8flow_tenant") => i = 38)
    <3>1. P[i].kind = "drop" /\ P[i].table = Names[21 - k]
      <4>1. P[i] = Do("drop", Names[21 - k])
        BY <1>3, <2>5, Zenon
      <4> QED
        BY <4>1 DEF Do
    <3>2. 21 - k \in 1 .. 20 /\ 2 \in 1 .. 20
      OBVIOUS
    <3>3. Names[21 - k] = "m8flow_tenant" => 21 - k = 2
      BY <3>2, NamesAre, Zenon
    <3>4. 21 - k = 2 => i = 38
      BY <2>5
    <3> QED
      BY <3>1, <3>3, <3>4 DEF Optional, Drops
  <2> QED
    BY <2>2, <2>3, <2>4, <2>5, Zenon
<1>6. 34 \in 1 .. 38 - 1
  OBVIOUS
<1> QED
  BY <1>1, <1>4, <1>5, <1>6, Zenon DEF UsersFirst

\* 0001 and 0002 create what is missing.
LEMMA AppUpInOrder ==
    ASSUME NEW P, IsAppUp(P)
    PROVE  UsersFirst(P, FALSE)
<1>1. P \in Seq(Statements) /\ Len(P) = 44
  BY DEF IsAppUp
<1>2. DOMAIN P = 1 .. 44
  BY <1>1
<1>3. ASSUME NEW k \in 1 .. 20
      PROVE  P[2 * k - 1].kind = "create missing" /\ P[2 * k].kind = "index"
  <2>1. IsPairs(P, "create missing", "index", FALSE)
    BY DEF IsAppUp
  <2>2. P[2 * k - 1].kind = "create missing"
    <3>1. P[2 * k - 1] = Do("create missing", Names[IF FALSE THEN 21 - k ELSE k])
      BY <2>1, Zenon DEF IsPairs
    <3> QED
      BY <3>1, DoIs, Zenon
  <2>3. P[2 * k].kind = "index"
    <3>1. P[2 * k] = Do("index", Names[IF FALSE THEN 21 - k ELSE k])
      BY <2>1, Zenon DEF IsPairs
    <3> QED
      BY <3>1, DoIs, Zenon
  <2> QED
    BY <2>2, <2>3
<1>4. P[41].kind = "app" /\ P[42].kind = "create secret" /\ P[43].kind = "index"
      /\ P[44].kind = "app"
  <2>1. P[41].kind = "app"
    <3>1. P[41] = Stamp("app", 1)
      BY Zenon DEF IsAppUp
    <3> QED
      BY <3>1, StampIs, Zenon
  <2>2. P[42].kind = "create secret"
    <3>1. P[42] = Do("create secret", "secret")
      BY Zenon DEF IsAppUp
    <3> QED
      BY <3>1, DoIs, Zenon
  <2>3. P[43].kind = "index"
    <3>1. P[43] = Do("index", "secret")
      BY Zenon DEF IsAppUp
    <3> QED
      BY <3>1, DoIs, Zenon
  <2>4. P[44].kind = "app"
    <3>1. P[44] = Stamp("app", 2)
      BY Zenon DEF IsAppUp
    <3> QED
      BY <3>1, StampIs, Zenon
  <2> QED
    BY <2>1, <2>2, <2>3, <2>4
<1>5. ASSUME NEW i \in DOMAIN P
      PROVE  /\ ~Drops(P[i], "m8flow_tenant")
             /\ Optional(P[i]) => i + 1 \in DOMAIN P /\ ~Drops(P[i + 1], "user")
  <2>1. i \in 1 .. 45 /\ (i \in 41 .. 45 => i \in {41, 42, 43, 44})
    BY <1>2
  <2>2. i \in {41, 42, 43, 44} \/ \E k \in 1 .. 20 : i = 2 * k - 1 \/ i = 2 * k
    BY <2>1, Positions, Zenon
  <2>3. CASE i \in {41, 42, 43, 44}
    <3>1. CASE i = 42
      <4>1. i + 1 = 43 /\ 43 \in DOMAIN P
        BY <1>2, <3>1
      <4> QED
        BY <1>4, <3>1, <4>1 DEF Optional, Drops
    <3>2. CASE i \in {41, 43, 44}
      <4>1. P[i].kind \in {"app", "index"}
        BY <1>4, <3>2
      <4> QED
        BY <4>1 DEF Optional, Drops
    <3> QED
      BY <2>3, <3>1, <3>2
  <2>4. ASSUME NEW k \in 1 .. 20, i = 2 * k - 1
        PROVE  /\ ~Drops(P[i], "m8flow_tenant")
               /\ i + 1 \in DOMAIN P /\ ~Drops(P[i + 1], "user")
    <3>1. i + 1 = 2 * k /\ i + 1 \in DOMAIN P
      BY <1>2, <2>4
    <3>2. P[i].kind = "create missing" /\ P[i + 1].kind = "index"
      BY <1>3, <2>4, <3>1, Zenon
    <3> QED
      BY <3>1, <3>2 DEF Drops
  <2>5. ASSUME NEW k \in 1 .. 20, i = 2 * k
        PROVE  ~Drops(P[i], "m8flow_tenant") /\ ~Optional(P[i])
    <3>1. P[i].kind = "index"
      BY <1>3, <2>5, Zenon
    <3> QED
      BY <3>1 DEF Drops, Optional
  <2> QED
    BY <2>2, <2>3, <2>4, <2>5, Zenon
<1> QED
  BY <1>1, <1>5, Zenon DEF UsersFirst

\* Their downgrades drop in the opposite order.
LEMMA AppDownInOrder ==
    ASSUME NEW P, IsAppDown(P)
    PROVE  UsersFirst(P, FALSE)
<1>1. P \in Seq(Statements) /\ Len(P) = 24
  BY DEF IsAppDown
<1>2. DOMAIN P = 1 .. 24
  BY <1>1
<1>8. \A k \in 1 .. 20 : P[k + 3] = Do("drop present", Names[21 - k])
  BY DEF IsAppDown
<1>3. /\ P[1].kind = "unindex present" /\ P[2].table = "secret" /\ P[2].kind = "drop"
      /\ P[3].kind = "app" /\ P[24].kind = "app"
  <2>1. P[1].kind = "unindex present"
    <3>1. P[1] = Do("unindex present", "secret")
      BY Zenon DEF IsAppDown
    <3> QED
      BY <3>1, DoIs, Zenon
  <2>2. P[2].kind = "drop" /\ P[2].table = "secret"
    <3>1. P[2] = Do("drop", "secret")
      BY Zenon DEF IsAppDown
    <3> QED
      BY <3>1, DoIs, Zenon
  <2>3. P[3].kind = "app"
    <3>1. P[3] = Stamp("app", 1)
      BY Zenon DEF IsAppDown
    <3> QED
      BY <3>1, StampIs, Zenon
  <2>4. P[24].kind = "app"
    <3>1. P[24] = Stamp("app", 0)
      BY Zenon DEF IsAppDown
    <3> QED
      BY <3>1, StampIs, Zenon
  <2> QED
    BY <2>1, <2>2, <2>3, <2>4
<1>9. ASSUME NEW k \in 1 .. 20, NEW i, i = k + 3
      PROVE  P[i].kind = "drop present" /\ P[i].table = Names[21 - k]
  <2>1. P[i] = Do("drop present", Names[21 - k])
    BY <1>8, <1>9, Zenon
  <2> QED
    BY <2>1, DoIs, Zenon
<1>4. Drops(P[20], "user")
  <2>1. 17 \in 1 .. 20 /\ 20 = 17 + 3 /\ 21 - 17 = 4
    OBVIOUS
  <2>2. P[20].kind = "drop present" /\ P[20].table = Names[21 - 17]
    BY <1>9, <2>1, Zenon
  <2>3. Names[21 - 17] = "user"
    BY <2>1, NamesAre, Zenon
  <2> QED
    BY <2>2, <2>3, Zenon DEF Drops
<1>5. ASSUME NEW i \in DOMAIN P
      PROVE  /\ Drops(P[i], "m8flow_tenant") => i = 22
             /\ Optional(P[i]) => i = 1
  <2>1. i \in {1, 2, 3, 24} \/ (i - 3 \in 1 .. 20 /\ i = (i - 3) + 3)
    BY <1>2
  <2>2. CASE i \in {1, 2, 3, 24}
    BY <1>3, <2>2 DEF Optional, Drops
  <2>3. ASSUME NEW k \in 1 .. 20, i = k + 3
        PROVE  ~Optional(P[i]) /\ (Drops(P[i], "m8flow_tenant") => i = 22)
    <3>1. P[i].kind = "drop present" /\ P[i].table = Names[21 - k]
      BY <1>9, <2>3, Zenon
    <3>2. 21 - k \in 1 .. 20 /\ 2 \in 1 .. 20
      OBVIOUS
    <3>3. Names[21 - k] = "m8flow_tenant" => 21 - k = 2
      BY <3>2, NamesAre, Zenon
    <3>4. 21 - k = 2 => i = 22
      BY <2>3
    <3> QED
      BY <3>1, <3>3, <3>4 DEF Optional, Drops
  <2> QED
    BY <2>1, <2>2, <2>3, Zenon
<1>6. 20 \in 1 .. 22 - 1 /\ 1 + 1 = 2
  OBVIOUS
<1>7. 2 \in DOMAIN P /\ ~Drops(P[2], "user")
  <2>1. 2 \in DOMAIN P
    BY <1>2
  <2>2. ~Drops(P[2], "user")
    BY <1>3, Zenon DEF Drops
  <2> QED
    BY <2>1, <2>2
<1> QED
  BY <1>1, <1>4, <1>5, <1>6, <1>7, Zenon DEF UsersFirst

\* A part of a plan from a position on that leaves no drop of users behind.
LEMMA LaterInOrder ==
    ASSUME NEW p, NEW gone, UsersFirst(p, gone), NEW n \in {1, 2}, n <= Len(p),
           NEW now, gone => now,
           (\E j \in 1 .. n : Drops(p[j], "user")) => now
    PROVE  UsersFirst(SubSeq(p, n + 1, Len(p)), now)
<1>1. p \in Seq(Statements) /\ Len(p) \in Nat /\ DOMAIN p = 1 .. Len(p)
  BY DEF UsersFirst
<1> DEFINE q == SubSeq(p, n + 1, Len(p))
<1>2. IsCut(q, Statements, p, n + 1, Len(p))
  <2>1. n + 1 \in Int /\ Len(p) \in Int /\ \A i \in n + 1 .. Len(p) : p[i] \in Statements
    BY <1>1
  <2> QED
    BY <2>1, Cut, Zenon
<1> HIDE DEF q
<1>3. /\ q \in Seq(Statements) /\ Len(q) = Len(p) - n /\ DOMAIN q = 1 .. Len(p) - n
      /\ \A i \in DOMAIN q : q[i] = p[n + i] /\ n + i \in DOMAIN p
  <2>1. q \in Seq(Statements)
    BY <1>2, Zenon DEF IsCut
  <2>2. Len(q) = (IF n + 1 <= Len(p) THEN Len(p) - (n + 1) + 1 ELSE 0)
    BY <1>2, Zenon DEF IsCut
  <2>3. \A i \in 1 .. Len(p) - (n + 1) + 1 : q[i] = p[(n + 1) + i - 1]
    BY <1>2, Zenon DEF IsCut
  <2>4. Len(q) = Len(p) - n /\ Len(p) - (n + 1) + 1 = Len(p) - n
    <3>1. \A a \in Nat : n <= a =>
             /\ (IF n + 1 <= a THEN a - (n + 1) + 1 ELSE 0) = a - n
             /\ a - (n + 1) + 1 = a - n
      OBVIOUS
    <3> QED
      BY <1>1, <2>2, <3>1, Zenon
  <2>5. DOMAIN q = 1 .. Len(p) - n
    BY <2>1, <2>4
  <2>6. ASSUME NEW i \in DOMAIN q
        PROVE  q[i] = p[n + i] /\ n + i \in DOMAIN p
    <3>1. (n + 1) + i - 1 = n + i /\ n + i \in DOMAIN p
      BY <1>1, <2>5
    <3>2. q[i] = p[(n + 1) + i - 1]
      BY <2>3, <2>4, <2>5, Zenon
    <3> QED
      BY <3>1, <3>2
  <2> QED
    BY <2>1, <2>4, <2>5, <2>6
<1>4. ASSUME NEW i \in DOMAIN q, Optional(q[i])
      PROVE  i + 1 \in DOMAIN q /\ ~Drops(q[i + 1], "user")
  <2>1. (n + i) + 1 \in DOMAIN p /\ ~Drops(p[(n + i) + 1], "user")
    BY <1>3, <1>4, Zenon DEF UsersFirst
  <2>2. i + 1 \in DOMAIN q /\ (n + i) + 1 = n + (i + 1)
    BY <1>1, <1>3, <2>1
  <2>3. q[i + 1] = p[n + (i + 1)]
    BY <1>3, <2>2, Zenon
  <2> QED
    BY <2>1, <2>2, <2>3, Zenon
<1>5. ASSUME NEW i \in DOMAIN q, Drops(q[i], "m8flow_tenant")
      PROVE  now \/ \E j \in 1 .. i - 1 : Drops(q[j], "user")
  <2>1. gone \/ \E j \in 1 .. (n + i) - 1 : Drops(p[j], "user")
    BY <1>3, <1>5, Zenon DEF UsersFirst
  <2>2. ASSUME NEW j \in 1 .. (n + i) - 1, Drops(p[j], "user"), j > n
        PROVE  \E k \in 1 .. i - 1 : Drops(q[k], "user")
    <3>1. j - n \in 1 .. i - 1 /\ j - n \in DOMAIN q /\ n + (j - n) = j
      BY <1>1, <1>3, <2>2
    <3>2. q[j - n] = p[j]
      BY <1>3, <3>1, Zenon
    <3> QED
      BY <2>2, <3>1, <3>2, Zenon
  <2>3. \A j \in 1 .. (n + i) - 1 : j > n \/ j \in 1 .. n
    BY <1>1, <1>3
  <2> QED
    BY <2>1, <2>2, <2>3, Zenon
<1> QED
  BY <1>3, <1>4, <1>5, Zenon DEF UsersFirst, q

\* Both are in order.
LEMMA HalfPlansInOrder == UsersFirst(Upgrade2, FALSE) /\ UsersFirst(Downgrade1, FALSE)
<1>1. ASSUME NEW P, IsSecondUp(P) PROVE UsersFirst(P, FALSE)
  <2>1. P \in Seq(Statements) /\ DOMAIN P = 1 .. 3
    <3>1. P \in Seq(Statements) /\ Len(P) = 3
      BY <1>1, Zenon DEF IsSecondUp
    <3> QED
      BY <3>1
  <2>2. P[1].kind = "create secret" /\ P[2].kind = "index" /\ P[3].kind = "app"
    <3>1. P[1] = Do("create secret", "secret")
      BY <1>1, Zenon DEF IsSecondUp
    <3>2. P[2] = Do("index", "secret")
      BY <1>1, Zenon DEF IsSecondUp
    <3>3. P[3] = Stamp("app", 2)
      BY <1>1, Zenon DEF IsSecondUp
    <3>4. P[1].kind = "create secret"
      BY <3>1, DoIs, Zenon
    <3>5. P[2].kind = "index"
      BY <3>2, DoIs, Zenon
    <3>6. P[3].kind = "app"
      BY <3>3, StampIs, Zenon
    <3> QED
      BY <3>4, <3>5, <3>6, Zenon
  <2>3. \A i \in DOMAIN P : i = 1 \/ i = 2 \/ i = 3
    BY <2>1
  <2>4. 1 + 1 = 2 /\ 2 \in DOMAIN P
    BY <2>1
  <2>5. ~Optional(P[2]) /\ ~Optional(P[3]) /\ ~Drops(P[2], "user")
    BY <2>2, Zenon DEF Optional, Drops
  <2>6. /\ ~Drops(P[1], "m8flow_tenant") /\ ~Drops(P[2], "m8flow_tenant")
        /\ ~Drops(P[3], "m8flow_tenant")
    BY <2>2, Zenon DEF Drops
  <2> QED
    BY <2>1, <2>3, <2>4, <2>5, <2>6, Zenon DEF UsersFirst
<1>2. ASSUME NEW P, IsFirstDown(P) PROVE UsersFirst(P, FALSE)
  <2>1. P \in Seq(Statements) /\ DOMAIN P = 1 .. 21
    <3>1. P \in Seq(Statements) /\ Len(P) = 21
      BY <1>2, Zenon DEF IsFirstDown
    <3> QED
      BY <3>1
  <2>2. ASSUME NEW k \in 1 .. 20
        PROVE  P[k].kind = "drop present" /\ P[k].table = Names[21 - k]
    <3>1. P[k] = Do("drop present", Names[21 - k])
      BY <1>2, Zenon DEF IsFirstDown
    <3> QED
      BY <3>1, DoIs, Zenon
  <2>3. P[21].kind = "app"
    <3>1. P[21] = Stamp("app", 0)
      BY <1>2, Zenon DEF IsFirstDown
    <3> QED
      BY <3>1, StampIs, Zenon
  <2>4. Drops(P[17], "user")
    <3>1. 17 \in 1 .. 20 /\ 21 - 17 = 4
      OBVIOUS
    <3>2. P[17].kind = "drop present" /\ P[17].table = Names[21 - 17]
      BY <2>2, <3>1, Zenon
    <3>3. Names[21 - 17] = "user"
      BY <3>1, NamesAre, Zenon
    <3> QED
      BY <3>2, <3>3, Zenon DEF Drops
  <2>5. ASSUME NEW i \in DOMAIN P
        PROVE  ~Optional(P[i]) /\ (Drops(P[i], "m8flow_tenant") => i = 19)
    <3>1. i \in 1 .. 20 \/ i = 21
      BY <2>1
    <3>2. CASE i = 21
      BY <2>3, <3>2, Zenon DEF Optional, Drops
    <3>3. CASE i \in 1 .. 20
      <4>1. P[i].kind = "drop present" /\ P[i].table = Names[21 - i]
        BY <2>2, <3>3, Zenon
      <4>2. 21 - i \in 1 .. 20 /\ 2 \in 1 .. 20 /\ (21 - i = 2 => i = 19)
        BY <3>3
      <4>3. Names[21 - i] = "m8flow_tenant" => i = 19
        BY <4>2, NamesAre, Zenon
      <4> QED
        BY <4>1, <4>3, Zenon DEF Optional, Drops
    <3> QED
      BY <3>1, <3>2, <3>3
  <2>6. 17 \in 1 .. 19 - 1
    OBVIOUS
  <2> QED
    BY <2>1, <2>4, <2>5, <2>6, Zenon DEF UsersFirst
<1> QED
  BY <1>1, <1>2, Upgrade2Is, Downgrade1Is, Zenon

\* Nothing comes before everything.
LEMMA EmptyFirst ==
    ASSUME NEW S, NEW s \in Seq(S)
    PROVE  <<>> \o s = s /\ s \o <<>> = s
OBVIOUS

\* Between the two revisions the other one is left.
LEMMA HalfPlans ==
    ASSUME NEW d, d.app = 1
    PROVE  PlanOf("app upgrade", d) = Upgrade2 /\ PlanOf("app downgrade", d) = Downgrade1
<1>1. PlanOf("app upgrade", d) = <<>> \o Upgrade2
  BY DEF PlanOf
<1>2. PlanOf("app downgrade", d) = <<>> \o Downgrade1
  BY DEF PlanOf
<1>3. Upgrade2 \in Seq(Statements) /\ Downgrade1 \in Seq(Statements)
  BY Upgrade2Is, Downgrade1Is, Zenon DEF IsSecondUp, IsFirstDown
<1> QED
  BY <1>1, <1>2, <1>3, EmptyFirst, Zenon

\* Nothing is in order, and what is in order with users is without.
LEMMA NothingInOrder ==
    /\ UsersFirst(<<>>, FALSE)
    /\ \A p, gone : UsersFirst(p, FALSE) => UsersFirst(p, gone)
<1>1. <<>> \in Seq(Statements) /\ DOMAIN <<>> = {}
  OBVIOUS
<1>2. UsersFirst(<<>>, FALSE)
  BY <1>1, Zenon DEF UsersFirst
<1> QED
  BY <1>2, Zenon DEF UsersFirst

\* The versions there are.
LEMMA Versions ==
    ASSUME NEW d \in Schemas
    PROVE  (d.library = 0 \/ d.library = 1) /\ (d.app = 0 \/ d.app = 1 \/ d.app = 2)
BY DEF Schemas

\* Every command, from whatever version, drops users before tenants.
LEMMA PlansInOrder ==
    ASSUME NEW d \in Schemas, NEW c \in Commands \cup {"app upgrade"}, NEW gone
    PROVE  UsersFirst(PlanOf(c, d), gone)
<1>1. (d.library = 0 \/ d.library = 1) /\ (d.app = 0 \/ d.app = 1 \/ d.app = 2)
  BY Versions, Zenon
<1>2. UsersFirst(<<>>, FALSE)
  BY NothingInOrder, Zenon
<1>3. UsersFirst(PlanOf("library upgrade", d), FALSE)
      /\ UsersFirst(PlanOf("library downgrade", d), FALSE)
  BY <1>1, <1>2, LibraryPlansAre, LibraryUpInOrder, LibraryDownInOrder, Zenon
<1>5. UsersFirst(PlanOf("app upgrade", d), FALSE)
  BY <1>1, <1>2, HalfPlans, AppPlansAre, AppUpInOrder, HalfPlansInOrder, Zenon
<1>6. UsersFirst(PlanOf("app downgrade", d), FALSE)
  BY <1>1, <1>2, HalfPlans, AppPlansAre, AppDownInOrder, HalfPlansInOrder, Zenon
<1>7. \/ c = "library upgrade" \/ c = "library downgrade"
      \/ c = "app upgrade" \/ c = "app downgrade"
  BY SchemaAssumption, Zenon
<1>8. UsersFirst(PlanOf(c, d), FALSE)
  BY <1>3, <1>5, <1>6, <1>7, Zenon
<1> QED
  BY <1>8, NothingInOrder, Zenon

\* What a statement does to the set of tables.
LEMMA TablesAfter ==
    ASSUME NEW s \in Statements, NEW w \in Schemas, NEW v, v = Executed(s, w)
    PROVE  /\ v \in Schemas
           /\ \A t \in w.tables : ~Drops(s, t) => t \in v.tables
           /\ \A t : Drops(s, t) => t \notin v.tables
<1>1. CASE Skips(s, w)
  <2>1. v = w
    BY <1>1, Zenon DEF Executed
  <2>2. ~(s.kind \in {"drop", "drop present"})
    BY <1>1, Zenon DEF Skips
  <2> QED
    BY <2>1, <2>2, Zenon DEF Drops
<1>2. CASE ~Skips(s, w)
  <2>1. CASE s.kind \in {"drop", "drop present"}
    <3>1. v \in Schemas /\ v.tables = w.tables \ {s.table}
      BY <1>2, <2>1, After, Zenon DEF Becomes
    <3> QED
      BY <2>1, <3>1, Zenon DEF Drops
  <2>2. CASE s.kind \in {"create", "create missing", "create secret"}
    <3>1. v \in Schemas /\ v.tables = w.tables \cup {s.table}
      BY <1>2, <2>2, After, Zenon DEF Becomes
    <3>2. ~(s.kind \in {"drop", "drop present"})
      BY <2>2, Zenon
    <3> QED
      BY <3>1, <3>2, Zenon DEF Drops
  <2>3. CASE s.kind \in {"index", "unindex", "unindex present", "drop type", "library", "app"}
    <3>1. v \in Schemas /\ v.tables = w.tables
      BY <1>2, <2>3, After, Zenon DEF Becomes
    <3>2. ~(s.kind \in {"drop", "drop present"})
      BY <2>3, Zenon
    <3> QED
      BY <3>1, <3>2, Zenon DEF Drops
  <2>4. s.kind \in TableKinds \cup {"library", "app"}
    BY StatementKinds, Zenon
  <2> QED
    BY <2>1, <2>2, <2>3, <2>4, Zenon DEF TableKinds
<1> QED
  BY <1>1, <1>2

=============================================================================

-------------------------- MODULE SampleAppProofs ---------------------------
(***************************************************************************)
(* The life of the sample application, for any organizations, users,       *)
(* groups, databases to begin with, and any number of starts, crashes,     *)
(* commands of operators and rebuilt realms: what is kept where the schema *)
(* and the data meet.                                                      *)
(***************************************************************************)
EXTENDS SharedLoginProofs, SchemaMigrationsProofs

-----------------------------------------------------------------------------
(***************************************************************************)
(* The life of the application and the database.                           *)
(***************************************************************************)

\* Every step keeps the invariant of the histories.
LEMMA SchemaStep ==
    ASSUME SchemaInv, [Next]_vars
    PROVE  SchemaInv'
<1>1. ASSUME UNCHANGED schemaVars PROVE SchemaInv'
  BY <1>1, SchemaStays, Zenon
<1>2. ASSUME NEW m \in {"standalone", "shared"}, Start(m) PROVE SchemaInv'
  <2>1. "app upgrade" \in Commands \cup {"app upgrade"}
    OBVIOUS
  <2> QED
    BY <1>2, <2>1, BeginKeeps, Zenon DEF Start
<1>3. CASE Statement
  BY <1>3, ExecuteKeeps, Zenon DEF Statement
<1>4. CASE CommandRefused
  BY <1>4, AbandonKeeps, Zenon DEF CommandRefused, Refuse
<1>5. CASE Migrated
  BY <1>5, CommitKeeps, Zenon DEF Migrated
<1>6. CASE Provision
  BY <1>1, <1>6, Zenon DEF Provision
<1>7. CASE ProvisionFails
  BY <1>1, <1>7, Zenon DEF ProvisionFails
<1>8. CASE SeedAndServe
  BY <1>1, <1>8, Zenon DEF SeedAndServe
<1>9. CASE SeedFails
  BY <1>1, <1>9, Zenon DEF SeedFails
<1>10. CASE Page
  BY <1>1, <1>10, Zenon DEF Page
<1>11. CASE Stop
  BY <1>1, <1>11, Zenon DEF Stop
<1>12. CASE Crash
  BY <1>12, AbandonKeeps, Zenon DEF Crash
<1>13. CASE Operator
  BY <1>13, BeginKeeps, Zenon DEF Operator, OperatorCommand
<1>14. CASE OperatorDone
  BY <1>14, CommitKeeps, Zenon DEF OperatorDone
<1>15. CASE RealmChanges
  BY <1>1, <1>15, Zenon DEF RealmChanges
<1>16. CASE UNCHANGED vars
  BY <1>1, <1>16, Zenon DEF vars
<1> QED
  BY <1>2, <1>3, <1>4, <1>5, <1>6, <1>7, <1>8, <1>9, <1>10, <1>11, <1>12, <1>13,
     <1>14, <1>15, <1>16, Zenon DEF Next

\* The database of every scenario on PostgreSQL is sound.
LEMMA SchemaInitially == Init => SchemaInv
<1> SUFFICES ASSUME Init PROVE SchemaInv
  OBVIOUS
<1>1. PICK s \in Scenarios : SchemaInit(s.dialect, s.db)
  BY Zenon DEF Init
<1>2. s.dialect = "postgresql" => SoundDatabase(s.db)
  BY ScenarioAssumption, Zenon
<1>3. dialect = s.dialect /\ db = s.db /\ plan = <<>> /\ command = "none"
  BY <1>1, Zenon DEF SchemaInit
<1> QED
  BY <1>2, <1>3, Zenon DEF SchemaInv, Checked

\* The inductive invariant of the histories.
LEMMA SchemaInvariant == Spec => []SchemaInv
BY SchemaInitially, SchemaStep, PTL DEF Spec

\* From every sound database, through any commands, crashes and restarts: on
\* PostgreSQL no revision is refused on its own account, since the orders of
\* create_table and drop_table respect all foreign keys.
THEOREM RefusalsAreForeign == Spec => []RefusalIsForeign
<1>1. SchemaInv => RefusalIsForeign
  BY RefusalHasReason
<1> QED
  BY <1>1, SchemaInvariant, PTL

-----------------------------------------------------------------------------
(***************************************************************************)
(* Tenants and what belongs to them.                                       *)
(***************************************************************************)

\* The inductive invariant of tenants on PostgreSQL.
TenantInv == UserInv /\ SchemaInv /\ (Checked => TenantsOK)

\* Tables that go take their rows along, and no row loses its tenant.
LEMMA KeepRowsKeeps ==
    ASSUME TenantsOK, UserInv, NEW d, SoundDatabase(d), KeepRows(d.tables),
           db' = d, d.foreign = "none" /\ db.foreign # "none" => "secret" \notin d.tables
    PROVE  (/\ tenant \in [Org -> (Org \X Nat) \cup {NoTenant}] /\ rows \subseteq TenantRows
            /\ RowsFollow /\ OneSecret /\ RealmsFollow)'
<1>1. /\ tenant' = IF "m8flow_tenant" \in d.tables THEN tenant ELSE [o \in Org |-> NoTenant]
      /\ users' = IF "user" \in d.tables THEN users ELSE <<>>
      /\ rows' = {r \in rows : IF r.table = "secret" THEN "secret" \in d.tables
                               ELSE "bpmn_process_definition" \in d.tables}
  BY Zenon DEF KeepRows
<1>2. "user" \in d.tables => "m8flow_tenant" \in d.tables
  BY Zenon DEF SoundDatabase
<1>3. "bpmn_process_definition" \in d.tables => "m8flow_tenant" \in d.tables
  <2>1. 5 \in 1 .. 20 /\ Names[5] = "bpmn_process_definition" /\ Tables[5].refs = {"m8flow_tenant"}
    <3>1. 5 \in 1 .. 20
      OBVIOUS
    <3> QED
      BY <3>1, NamesAre, TablesAre, Zenon
  <2>2. RefsOf("bpmn_process_definition", d) = {"m8flow_tenant"}
    BY <2>1, RefsAre, Zenon
  <2> QED
    BY <2>2 DEF SoundDatabase
<1>4. "secret" \in d.tables /\ d.foreign = "none" => "m8flow_tenant" \in d.tables
  BY SecretRefs DEF SoundDatabase
<1>5. (tenant \in [Org -> (Org \X Nat) \cup {NoTenant}])'
  BY <1>1, Zenon DEF TenantsOK
<1>6. rows' \subseteq rows /\ (rows \subseteq TenantRows)'
  BY <1>1, Zenon DEF TenantsOK
<1>7. ASSUME NEW r \in rows', r.table # "secret" \/ d.foreign = "none"
      PROVE  r.id = tenant'[r.org]
  <2>1. r \in rows /\ IF r.table = "secret" THEN "secret" \in d.tables
                      ELSE "bpmn_process_definition" \in d.tables
    BY <1>1
  <2>2. "m8flow_tenant" \in d.tables
    BY <1>3, <1>4, <1>7, <2>1
  <2>3. r.table = "secret" => db.foreign = "none"
    BY <1>7, <2>1
  <2> QED
    BY <1>1, <2>1, <2>2, <2>3 DEF TenantsOK, RowsFollow
<1>8. RowsFollow'
  BY <1>7, Zenon DEF RowsFollow
<1>9. ASSUME d.foreign = "none", NEW r \in rows', NEW s \in rows',
             r.table = "secret", s.table = "secret", r.org = s.org
      PROVE  r = s
  <2>1. r \in rows /\ s \in rows /\ "secret" \in d.tables
    BY <1>1, <1>9
  <2> QED
    BY <1>9, <2>1, Zenon DEF TenantsOK, OneSecret
<1>10. OneSecret'
  BY <1>9, Zenon DEF OneSecret
<1>11. RealmsFollow'
  <2>1. CASE "user" \in d.tables
    BY <1>1, <1>2, <2>1, Zenon DEF TenantsOK, RealmsFollow
  <2>2. CASE "user" \notin d.tables
    <3>1. \A i : i \notin DOMAIN users'
      BY <1>1, <2>2
    <3> QED
      BY <3>1, Zenon DEF RealmsFollow
  <2> QED
    BY <2>1, <2>2
<1> QED
  BY <1>5, <1>6, <1>8, <1>10, <1>11, Zenon

\* The table of secrets becomes one of this application only when it was gone.
LEMMA ForeignGoes ==
    ASSUME NEW c, NEW d, NEW w, NEW pos, Runs(c, d, w, pos), w.foreign # d.foreign
    PROVE  "secret" \notin w.tables
<1>1. AppDown(d, w, pos)
  BY Zenon DEF Runs, LibraryUp, LibraryDown, AppUp
<1> QED
  BY <1>1 DEF AppDown

\* A command that commits.
LEMMA CommitSound ==
    ASSUME SchemaInv, Checked, CommitCommand
    PROVE  /\ SoundDatabase(work) /\ db' = work
           /\ work.foreign = "none" /\ db.foreign # "none" => "secret" \notin work.tables
<1>1. SchemaInv' /\ Checked' /\ db' = work /\ command # "none"
  BY CommitKeeps DEF CommitCommand, Checked
<1>2. SoundDatabase(work)
  BY <1>1, Zenon DEF SchemaInv
<1>3. Underway
  BY <1>1, Zenon DEF SchemaInv
<1>4. work = db \/ \E pos : Runs(command, db, work, pos)
  BY <1>3, Zenon DEF Underway
<1> QED
  BY <1>1, <1>2, <1>4, ForeignGoes

\* Every step keeps the tenants of a database with enforced keys together.
LEMMA TenantStep ==
    ASSUME TenantInv, [Next]_vars
    PROVE  TenantInv'
<1>1. UserInv /\ SchemaInv /\ UserInv' /\ SchemaInv'
  BY UserStep, SchemaStep, Zenon DEF TenantInv
<1> SUFFICES ASSUME Checked' PROVE TenantsOK'
  BY <1>1, Zenon DEF TenantInv
<1>2. Checked /\ TenantsOK
  BY DialectStays, Zenon DEF TenantInv, Checked
<1>3. KeycloakOK
  BY <1>1, Zenon DEF UserInv, ProvisionInv
\* The rows stay as they are.
<1>4. ASSUME db' = db, UNCHANGED <<tenant, users, rows, granted>>,
             phase' = phase \/ phase' \in {"down", "migrating"}, command' = command \/ phase' = "down"
                                                             \/ phase' = "migrating"
      PROVE  TenantsOK'
  <2>1. (phase \in {"provisioning", "serving"} => command = "none")'
    <3>1. phase' \in {"provisioning", "serving"} => phase' = phase /\ command' = command
      BY <1>4
    <3> QED
      BY <1>2, <3>1, Zenon DEF TenantsOK
  <2>2. phase' = "serving" => phase = "serving"
    BY <1>4
  <2> QED
    BY <1>2, <1>4, <2>1, <2>2, Zenon DEF TenantsOK, RowsFollow, OneSecret, RealmsFollow, Granted
<1>5. ASSUME UNCHANGED <<schemaVars, seedVars>>, phase' = phase \/ phase' = "down"
      PROVE  TenantsOK'
  BY <1>4, <1>5 DEF schemaVars, seedVars
\* Rows go with the tables of a command that commits.
<1>6. ASSUME CommitCommand, KeepRows(db'.tables), phase' \in {"down", "provisioning"}
      PROVE  TenantsOK'
  <2>1. /\ SoundDatabase(work) /\ db' = work
        /\ work.foreign = "none" /\ db.foreign # "none" => "secret" \notin work.tables
    BY <1>1, <1>2, <1>6, CommitSound, Zenon
  <2>2. (/\ tenant \in [Org -> (Org \X Nat) \cup {NoTenant}] /\ rows \subseteq TenantRows
         /\ RowsFollow /\ OneSecret /\ RealmsFollow)'
    <3>1. KeepRows(work.tables)
      BY <1>6, <2>1
    <3> QED
      BY <1>1, <1>2, <2>1, <3>1, KeepRowsKeeps, Zenon
  <2>3. command' = "none" /\ phase' # "serving"
    BY <1>6 DEF CommitCommand
  <2> QED
    BY <2>2, <2>3, Zenon DEF TenantsOK
<1>7. ASSUME NEW m \in {"standalone", "shared"}, Start(m) PROVE TenantsOK'
  BY <1>4, <1>7, Zenon DEF Start, BeginCommand, ChooseMode
<1>8. CASE Statement
  <2>1. db' = db /\ command' = command /\ plan # <<>> /\ phase' = phase
    BY <1>2, <1>8, Zenon DEF Statement, Execute
  <2>2. command # "none" /\ SoundDatabase(db)
    BY <1>1, <1>2, <2>1, Zenon DEF SchemaInv
  <2>3. (/\ tenant \in [Org -> (Org \X Nat) \cup {NoTenant}] /\ rows \subseteq TenantRows
         /\ RowsFollow /\ OneSecret /\ RealmsFollow)'
    <3>1. KeepRows(db.tables)
      BY <1>8, <2>1, Zenon DEF Statement
    <3> QED
      BY <1>1, <1>2, <2>1, <2>2, <3>1, KeepRowsKeeps
  <2>4. phase' \notin {"provisioning", "serving"}
    BY <1>2, <2>1, <2>2, Zenon DEF TenantsOK
  <2>5. phase' # "serving"
    BY <2>4
  <2> QED
    BY <2>3, <2>4, <2>5, Zenon DEF TenantsOK
<1>9. CASE CommandRefused
  BY <1>4, <1>9, Zenon DEF CommandRefused, Refuse, Abandon, seedVars
<1>10. CASE Migrated
  <2>1. phase' \in {"down", "provisioning"}
    BY <1>10 DEF Migrated
  <2> QED
    BY <1>6, <1>10, <2>1, Zenon DEF Migrated
<1>11. CASE Provision
  BY <1>5, <1>11, Zenon DEF Provision
<1>12. CASE ProvisionFails
  BY <1>5, <1>12, Zenon DEF ProvisionFails
<1>13. CASE SeedAndServe
  <2>1. Seed /\ db' = db /\ command' = command /\ phase = "provisioning" /\ phase' = "serving"
    BY <1>13, Zenon DEF SeedAndServe, schemaVars
  <2>2. command' = "none"
    <3>1. phase \in {"provisioning", "serving"}
      BY <2>1
    <3> QED
      BY <1>2, <2>1, <3>1, Zenon DEF TenantsOK
  <2>3. (/\ tenant \in [Org -> (Org \X Nat) \cup {NoTenant}] /\ rows \subseteq TenantRows
         /\ RowsFollow /\ OneSecret)'
    BY <1>2, <1>3, <2>1, SeedKeepsRows
  <2>4. (RealmsFollow /\ Granted)'
    <3>1. KeycloakOK /\ UsersOK /\ RealmsFollow
      BY <1>1, <1>2, <1>3, Zenon DEF UserInv, TenantsOK
    <3> QED
      BY <2>1, <3>1, SeedGrants, Zenon
  <2> QED
    BY <2>2, <2>3, <2>4, Zenon DEF TenantsOK
<1>14. CASE SeedFails
  BY <1>5, <1>14, Zenon DEF SeedFails
<1>15. CASE Page
  <2>1. UNCHANGED schemaVars /\ phase' = phase /\ db' = db /\ command' = command
    BY <1>15, Zenon DEF Page, schemaVars
  <2>2. CASE UNCHANGED seedVars
    BY <1>5, <2>1, <2>2, Zenon
  <2>3. CASE WritePage
    <3>1. (rows \subseteq TenantRows /\ RowsFollow /\ OneSecret)'
      BY <1>2, <2>1, <2>3, WriteKeeps
    <3>2. tenant' = tenant /\ users' = users /\ granted' = granted
      BY <2>3, Zenon DEF WritePage
    <3> QED
      BY <1>2, <2>1, <3>1, <3>2, Zenon DEF TenantsOK, RealmsFollow, Granted
  <2> QED
    BY <1>15, <2>2, <2>3, Zenon DEF Page, BrowserStep, LoginStep
<1>16. CASE Stop
  BY <1>5, <1>16, Zenon DEF Stop
<1>17. CASE Crash
  BY <1>4, <1>17, Zenon DEF Crash, Abandon, seedVars
<1>18. CASE Operator
  <2>1. phase' = phase /\ phase' = "down" /\ db' = db /\ UNCHANGED seedVars
    BY <1>18, Zenon DEF Operator, OperatorCommand, BeginCommand
  <2> QED
    BY <1>4, <2>1, Zenon DEF seedVars
<1>19. CASE OperatorDone
  <2>1. phase' \in {"down", "provisioning"}
    BY <1>19 DEF OperatorDone
  <2> QED
    BY <1>6, <1>19, <2>1, Zenon DEF OperatorDone
<1>20. CASE RealmChanges
  BY <1>5, <1>20, Zenon DEF RealmChanges
<1>21. CASE UNCHANGED vars
  BY <1>5, <1>21, Zenon DEF vars
<1> QED
  BY <1>7, <1>8, <1>9, <1>10, <1>11, <1>12, <1>13, <1>14, <1>15, <1>16, <1>17, <1>18,
     <1>19, <1>20, <1>21, Zenon DEF Next

\* Before the first start there is no tenant.
LEMMA TenantsInitially == Init => TenantInv
<1> SUFFICES ASSUME Init PROVE TenantInv
  OBVIOUS
<1>1. UserInv /\ SchemaInv
  BY UsersInitially, SchemaInitially, Zenon
<1>2. tenant = [o \in Org |-> NoTenant] /\ users = <<>> /\ rows = {} /\ phase = "down"
  BY Zenon DEF Init, SeedInit
<1>3. tenant \in [Org -> (Org \X Nat) \cup {NoTenant}] /\ \A i : i \notin DOMAIN users
  BY <1>2
<1>4. phase \notin {"provisioning", "serving"} /\ phase # "serving"
  BY <1>2
<1> QED
  BY <1>1, <1>2, <1>3, <1>4, Zenon
     DEF TenantInv, TenantsOK, RowsFollow, OneSecret, RealmsFollow

\* The inductive invariant of tenants.
LEMMA TenantInvariant == Spec => []TenantInv
BY TenantsInitially, TenantStep, PTL DEF Spec

\* Whatever went before (changes of mode, rebuilt realms, dropped tables, starts
\* that broke off), the application serves tenants in one piece: the seed moves
\* every row to the present ID, gives one row of every user its role and adds no
\* second secret, and no page undoes that.
THEOREM TenantsServedWhole == Spec => []ServedTenantsAreWhole
<1>1. TenantInv => ServedTenantsAreWhole
  <2> SUFFICES ASSUME TenantInv, phase = "serving", KeysHold PROVE TenantIsWhole
    BY Zenon DEF ServedTenantsAreWhole
  <2>1. TenantsOK /\ db.foreign = "none"
    BY Zenon DEF TenantInv, KeysHold
  <2> QED
    BY <2>1, Zenon DEF TenantsOK, RowsFollow, OneSecret, RealmsFollow, Granted, TenantIsWhole
<1> QED
  BY <1>1, TenantInvariant, PTL

-----------------------------------------------------------------------------
(***************************************************************************)
(* Where users belong, on either database.                                 *)
(***************************************************************************)

\* SQLite: statements take effect at once, and users go before tenants.
Loose ==
    ~Checked =>
        /\ db \in Schemas /\ work = db
        /\ UsersFirst(plan, users = <<>>)
        /\ users # <<>> => "m8flow_tenant" \in db.tables

\* The inductive invariant of users and tenants on either database.
HomeInv == TenantInv /\ Idle /\ Homes /\ Loose

\* One statement on SQLite.
LEMMA LooseStatement ==
    ASSUME UsersOK, Homes, Loose, ~Checked, Statement
    PROVE  Homes' /\ Loose'
<1>1. /\ db \in Schemas /\ work = db
      /\ UsersFirst(plan, users = <<>>)
      /\ users # <<>> => "m8flow_tenant" \in db.tables
  BY Zenon DEF Loose
<1> DEFINE s == plan[1]
           n == IF Skips(s, work) THEN 2 ELSE 1
<1>2. plan \in Seq(Statements) /\ plan # <<>>
  BY <1>1, Zenon DEF UsersFirst, Statement, Execute
<1>3. s = plan[1] /\ Head(plan) = s /\ s \in Statements /\ 1 \in DOMAIN plan /\ Len(plan) \in Nat
      /\ DOMAIN plan = 1 .. Len(plan)
  BY <1>2
<1> HIDE DEF s
<1>4. /\ db' = Executed(s, db) /\ work' = db' /\ KeepRows(db'.tables)
      /\ plan' = SubSeq(plan, IF Skips(s, work) THEN 3 ELSE 2, Len(plan))
  BY <1>1, <1>3, Zenon DEF Statement, Execute
<1>5. /\ db' \in Schemas
      /\ \A t \in db.tables : ~Drops(s, t) => t \in db'.tables
      /\ \A t : Drops(s, t) => t \notin db'.tables
  BY <1>1, <1>3, <1>4, TablesAfter, Zenon
<1>6. /\ users' = users \/ users' = <<>>
      /\ "user" \notin db'.tables => users' = <<>>
  BY <1>4, Zenon DEF KeepRows
<1>7. users' # <<>> => "m8flow_tenant" \in db'.tables
  <2>1. SUFFICES ASSUME users' # <<>> PROVE ~Drops(s, "m8flow_tenant")
    BY <1>1, <1>5, <1>6, <2>1, Zenon
  <2>2. \A j : j \notin 1 .. 1 - 1
    OBVIOUS
  <2> QED
    BY <1>1, <1>3, <1>6, <2>1, <2>2, Zenon DEF UsersFirst
<1>8. Skips(s, work) => Optional(s)
  BY Zenon DEF Skips, Optional
<1>9. n \in {1, 2} /\ n <= Len(plan) /\ n + 1 = IF Skips(s, work) THEN 3 ELSE 2
  <2>1. CASE Skips(s, work)
    <3>1. 1 + 1 \in DOMAIN plan
      BY <1>1, <1>3, <1>8, <2>1, Zenon DEF UsersFirst
    <3> QED
      BY <1>3, <2>1, <3>1
  <2>2. CASE ~Skips(s, work)
    BY <1>3, <2>2
  <2> QED
    BY <2>1, <2>2
<1>10. ASSUME NEW j \in 1 .. n, Drops(plan[j], "user") PROVE users' = <<>>
  <2>1. CASE j = 1
    BY <1>3, <1>5, <1>6, <1>10, <2>1, Zenon
  <2>2. CASE j # 1
    <3>1. Skips(s, work) /\ j = 1 + 1
      BY <2>2
    <3>2. ~Drops(plan[1 + 1], "user")
      BY <1>1, <1>3, <1>8, <3>1, Zenon DEF UsersFirst
    <3> QED
      BY <1>10, <3>1, <3>2, Zenon
  <2> QED
    BY <2>1, <2>2
<1> HIDE DEF n
<1>11. UsersFirst(SubSeq(plan, n + 1, Len(plan)), users' = <<>>)
  BY <1>1, <1>6, <1>9, <1>10, LaterInOrder, Zenon
<1>12. UsersFirst(plan', users' = <<>>)
  BY <1>4, <1>9, <1>11, Zenon
<1>13. Loose'
  BY <1>4, <1>5, <1>7, <1>12, Zenon DEF Loose
<1>14. Homes'
  BY <1>4, <1>7, RowsKeepHomes, Zenon
<1> QED
  BY <1>13, <1>14

\* Users belong to tenants on SQLite as well.
LEMMA LooseStep ==
    ASSUME KeycloakOK, UsersOK, Idle, Homes, Loose, ~Checked, [Next]_vars
    PROVE  Homes' /\ Loose'
<1>1. /\ db \in Schemas /\ work = db
      /\ UsersFirst(plan, users = <<>>)
      /\ users # <<>> => "m8flow_tenant" \in db.tables
  BY Zenon DEF Loose
<1>2. ASSUME UNCHANGED <<tenant, users>>, db' = db, work' = db,
             UsersFirst(plan', users = <<>>)
      PROVE  Homes' /\ Loose'
  BY <1>1, <1>2, Zenon DEF Homes, RealmsFollow, Loose
<1>3. ASSUME UNCHANGED <<tenant, users>>, UNCHANGED schemaVars PROVE Homes' /\ Loose'
  BY <1>1, <1>2, <1>3, Zenon DEF schemaVars
<1>4. ASSUME UNCHANGED <<tenant, users>>, Abandon PROVE Homes' /\ Loose'
  BY <1>2, <1>4, NothingInOrder, Zenon DEF Abandon
<1>5. ASSUME NEW c \in Commands \cup {"app upgrade"}, BeginCommand(c),
             UNCHANGED <<tenant, users>>
      PROVE  Homes' /\ Loose'
  BY <1>1, <1>2, <1>5, PlansInOrder, Zenon DEF BeginCommand
<1>6. ASSUME CommitCommand, KeepRows(db'.tables) PROVE Homes' /\ Loose'
  <2>1. db' = db /\ work' = work /\ plan' = <<>> /\ KeepRows(db.tables)
    BY <1>1, <1>6, Zenon DEF CommitCommand
  <2>2. users' = users \/ users' = <<>>
    BY <2>1, Zenon DEF KeepRows
  <2>3. users' # <<>> => "m8flow_tenant" \in db.tables
    BY <1>1, <2>2, Zenon
  <2> QED
    BY <1>1, <2>1, <2>3, RowsKeepHomes, NothingInOrder, Zenon DEF Loose
<1>7. ASSUME NEW m \in {"standalone", "shared"}, Start(m) PROVE Homes' /\ Loose'
  <2>1. "app upgrade" \in Commands \cup {"app upgrade"}
    BY Zenon
  <2> QED
    BY <1>5, <1>7, <2>1, Zenon DEF Start, ChooseMode
<1>8. CASE Statement
  BY <1>8, LooseStatement, Zenon
<1>9. CASE CommandRefused \/ Crash
  BY <1>4, <1>9, Zenon DEF CommandRefused, Crash, Refuse, seedVars
<1>10. CASE Migrated \/ OperatorDone
  BY <1>6, <1>10, Zenon DEF Migrated, OperatorDone
<1>11. CASE Operator
  BY <1>5, <1>11, Zenon DEF Operator, OperatorCommand, seedVars
<1>12. CASE SeedAndServe
  <2>1. /\ Seed /\ db' = db /\ work' = work /\ plan' = plan /\ phase = "provisioning"
        /\ LibraryTables \cup {"secret"} \subseteq db.tables
    BY <1>12, Zenon DEF SeedAndServe, schemaVars
  <2>2. plan' = <<>>
    <3>1. phase \in {"provisioning", "serving"}
      BY <2>1
    <3> QED
      BY <2>1, <3>1, Zenon DEF Idle
  <2>3. "m8flow_tenant" \in LibraryTables
    <3>1. 2 \in 1 .. 20
      OBVIOUS
    <3> QED
      BY <3>1, NamesAre, Zenon
  <2>4. RealmsFollow'
    BY <2>1, SeedGrants, Zenon DEF Homes
  <2>5. tenant' \in [Org -> (Org \X Nat) \cup {NoTenant}]
    <3>1. tenant' = [o \in Org |-> CanonicalTenant(o)]
      BY <2>1, Zenon DEF Seed
    <3>2. \A o \in Org : CanonicalTenant(o) \in (Org \X Nat) \cup {NoTenant}
      BY Ids, Zenon
    <3> QED
      BY <3>1, <3>2, Zenon
  <2>6. Loose'
    BY <1>1, <2>1, <2>2, <2>3, NothingInOrder, Zenon DEF Loose
  <2> QED
    BY <2>4, <2>5, <2>6, Zenon DEF Homes
<1>13. CASE Provision \/ ProvisionFails \/ SeedFails \/ Stop \/ RealmChanges \/ UNCHANGED vars
  BY <1>3, <1>13, Zenon DEF Provision, ProvisionFails, SeedFails, Stop, RealmChanges, vars,
     seedVars
<1>14. CASE Page
  BY <1>3, <1>14, Zenon DEF Page, BrowserStep, LoginStep, WritePage, seedVars
<1> QED
  BY <1>7, <1>8, <1>9, <1>10, <1>11, <1>12, <1>13, <1>14, Zenon DEF Next

\* On PostgreSQL the database itself sees to it.
LEMMA HomeStep ==
    ASSUME HomeInv, [Next]_vars
    PROVE  HomeInv'
<1>1. TenantInv' /\ Idle' /\ Checked' = Checked
  BY TenantStep, IdleStep, DialectStays, Zenon DEF HomeInv, Checked
<1>2. CASE Checked
  <2>1. TenantsOK'
    BY <1>1, <1>2, Zenon DEF TenantInv
  <2> QED
    BY <1>1, <1>2, <2>1, Zenon DEF HomeInv, TenantsOK, Homes, Loose
<1>3. CASE ~Checked
  <2>1. KeycloakOK /\ UsersOK
    BY Zenon DEF HomeInv, TenantInv, UserInv, ProvisionInv
  <2>2. Homes' /\ Loose'
    BY <1>3, <2>1, LooseStep, Zenon DEF HomeInv
  <2> QED
    BY <1>1, <2>2, Zenon DEF HomeInv
<1> QED
  BY <1>2, <1>3

\* Before the first start there are no users.
LEMMA HomesInitially == Init => HomeInv
<1> SUFFICES ASSUME Init PROVE HomeInv
  OBVIOUS
<1>1. TenantInv
  BY TenantsInitially
<1>2. tenant = [o \in Org |-> NoTenant] /\ users = <<>> /\ phase = "down"
  BY Zenon DEF Init, SeedInit
<1>3. tenant \in [Org -> (Org \X Nat) \cup {NoTenant}] /\ \A i : i \notin DOMAIN users
  BY <1>2
<1>4. phase \notin {"provisioning", "serving"}
  BY <1>2
<1>5. PICK s \in Scenarios : SchemaInit(s.dialect, s.db)
  BY Zenon DEF Init
<1>6. db \in Schemas /\ work = db /\ plan = <<>>
  BY <1>5, ScenarioAssumption, Zenon DEF SchemaInit
<1> QED
  BY <1>1, <1>2, <1>3, <1>4, <1>6, NothingInOrder, Zenon
     DEF HomeInv, Idle, Homes, RealmsFollow, Loose

-----------------------------------------------------------------------------
(***************************************************************************)
(* Whom shared mode serves.                                                *)
(***************************************************************************)

\* The inductive invariant of sessions.
LoginInv == HomeInv /\ realm.era # Local /\ Blocks /\ ServingOK /\ SessionOK

\* Every step keeps the sessions in order.
LEMMA LoginStepKeeps ==
    ASSUME LoginInv, [Next]_vars
    PROVE  LoginInv'
<1>1. HomeInv'
  BY HomeStep, Zenon DEF LoginInv
<1>2. /\ KeycloakOK /\ UsersOK /\ RealmsFollow /\ Idle
      /\ realm.era # Local /\ Blocks /\ ServingOK /\ SessionOK
  BY Zenon DEF LoginInv, HomeInv, TenantInv, UserInv, ProvisionInv, Homes
<1>3. CASE Quiet
  BY <1>1, <1>2, <1>3, QuietKeeps, Zenon DEF LoginInv
<1>4. CASE SeedAndServe
  BY <1>1, <1>2, <1>4, SeedKeepsSessions, Zenon DEF LoginInv
<1>5. CASE Browses
  BY <1>1, <1>2, <1>5, BrowserKeeps, Zenon DEF LoginInv, Browses
<1> QED
  BY <1>2, <1>3, <1>4, <1>5, StepKinds, Zenon

\* Before the first start nobody has signed in.
LEMMA LoginInitially == Init => LoginInv
<1> SUFFICES ASSUME Init PROVE LoginInv
  OBVIOUS
<1>1. HomeInv
  BY HomesInitially
<1>2. /\ users = <<>> /\ phase = "down" /\ realm = EmptyRealm(1)
      /\ active = NoIdentity /\ pending = NoLogin
  BY Zenon DEF Init, SeedInit, KeycloakInit, LoginInit
<1>3. realm.era = 1
  BY <1>2 DEF EmptyRealm
<1>4. active.user = 0 /\ active.tenant[2] = Local /\ pending.tenant[2] = Local
  BY <1>2 DEF NoIdentity, NoLogin, NoTenant
<1>5. realm.era # Local /\ 0 \in Nat /\ Local \in 0 .. realm.era
  BY <1>3 DEF Local
<1>6. Len(users) \in {0, Size} /\ \A i : i \notin DOMAIN users
  BY <1>2
<1>7. Blocks
  BY <1>6, Zenon DEF Blocks
<1>8. phase # "serving"
  BY <1>2
<1> QED
  BY <1>1, <1>4, <1>5, <1>7, <1>8, Zenon DEF LoginInv, ServingOK, SessionOK, Live

\* In shared mode the application serves only who has signed in, as the user of
\* the account that Keycloak returned: through stale forms, late and repeated
\* answers, sessions that outlive restarts, changes of mode, rebuilt realms, and
\* a user table that was dropped and filled anew.
THEOREM SignedInIsServed == Spec => []ServesWhoSignedIn
<1>1. LoginInv => ServesWhoSignedIn
  <2> SUFFICES ASSUME LoginInv, phase = "serving", mode = "shared", Served
               PROVE  signedIn # Nobody /\ signedIn[1] = users[active.user].name
    BY Zenon DEF ServesWhoSignedIn, ServedIsSignedIn
  <2>1. Blocks /\ ServingOK /\ SessionOK
    BY Zenon DEF LoginInv
  <2>2. PICK o \in Org : tenant[o] = active.tenant
    BY Zenon DEF Served
  <2>3. active.tenant[2] # Local
    BY <2>1, <2>2, Zenon DEF ServingOK
  <2>4. signedIn # Nobody /\ Named
    BY <2>1, <2>2, <2>3, Zenon DEF SessionOK, Live
  <2>5. active.user \in DOMAIN users
    BY Zenon DEF Served, UsersOf
  <2> QED
    BY <2>1, <2>4, <2>5, Zenon DEF Named, Blocks
<1> QED
  BY <1>1, LoginInitially, LoginStepKeeps, PTL DEF Spec

=============================================================================

----------------------------- MODULE SampleApp ------------------------------
(***************************************************************************)
(* The sample application from start to stop (app.py create_app): migrate  *)
(* the database, provision Keycloak in shared mode, seed, serve.  It may   *)
(* fail or be killed anywhere and is started again, in either mode.  While *)
(* it is down operators run Alembic, and the realm may be rebuilt.         *)
(***************************************************************************)
EXTENDS SchemaMigrations, SharedLogin

CONSTANT Scenarios  \* databases to begin with, and bounds for each

VARIABLES
    phase,  \* how far the application has come
    budget  \* what the environment may still do

vars == <<schemaVars, keycloakVars, seedVars, loginVars, phase, budget>>

\* Bounds: commands of operators, crashes and lost answers, rebuilt realms,
\* changes to the realm, logins, pages that write; and whether there is a
\* browser at all.
Bounds == {"commands", "faults", "rebuilds", "meddling", "logins", "writes",
           "browsers"}

ASSUME ScenarioAssumption ==
    \A s \in Scenarios :
        /\ s.dialect \in {"postgresql", "sqlite"}
        /\ s.budget \in [Bounds -> Nat]
        /\ s.db \in Schemas
        /\ s.dialect = "postgresql" => SoundDatabase(s.db)

Init ==
    /\ \E s \in Scenarios :
          SchemaInit(s.dialect, s.db) /\ budget = s.budget
    /\ KeycloakInit
    /\ SeedInit
    /\ LoginInit
    /\ phase = "down"

Spend(what) ==
    /\ budget[what] > 0
    /\ budget' = [budget EXCEPT ![what] = @ - 1]

-----------------------------------------------------------------------------
\* create_app: discover the audit mode, and run_migrations.
Start(m) ==
    /\ phase = "down"
    /\ BeginCommand("app upgrade")
    /\ ChooseMode(m)
    /\ phase' = "migrating"
    /\ UNCHANGED <<keycloakVars, loginVars, budget>>

\* One statement of the running command, the application's or an operator's.
Statement ==
    /\ Execute
    /\ KeepRows(db'.tables)
    /\ UNCHANGED <<keycloakVars, loginVars, phase, budget>>

CommandRefused ==
    /\ Refuse
    /\ phase' = "down"
    /\ UNCHANGED <<keycloakVars, seedVars, loginVars, budget>>

\* Migrated: in shared mode, on to the browser client and the realm.
Migrated ==
    /\ phase = "migrating"
    /\ CommitCommand
    /\ KeepRows(db'.tables)
    /\ todo' = IF mode = "shared" THEN Program ELSE <<>>
    /\ phase' = "provisioning"
    /\ UNCHANGED <<realm, loginVars, budget>>

Provision ==
    /\ phase = "provisioning"
    /\ Request
    /\ UNCHANGED <<schemaVars, seedVars, loginVars, phase, budget>>

\* The answer of Keycloak is lost: create_app raises.
ProvisionFails ==
    /\ phase = "provisioning"
    /\ Spend("faults")
    /\ RequestFails
    /\ phase' = "down"
    /\ UNCHANGED <<schemaVars, seedVars, loginVars>>

\* The transaction of the seed; it needs every table.
SeedAndServe ==
    /\ phase = "provisioning" /\ todo = <<>>
    /\ LibraryTables \cup {"secret"} \subseteq db.tables
    /\ Seed
    /\ phase' = "serving"
    /\ UNCHANGED <<schemaVars, keycloakVars, loginVars, budget>>

SeedFails ==
    /\ phase = "provisioning" /\ todo = <<>>
    /\ ~(LibraryTables \cup {"secret"} \subseteq db.tables)
    /\ phase' = "down"
    /\ UNCHANGED <<schemaVars, keycloakVars, seedVars, loginVars, budget>>

Stop ==
    /\ phase = "serving"
    /\ phase' = "down"
    /\ UNCHANGED <<schemaVars, keycloakVars, seedVars, loginVars, budget>>

\* The application, or an operator's command, is killed.
Crash ==
    /\ phase \in {"migrating", "provisioning"} \/ command # "none"
    /\ Spend("faults")
    /\ Abandon
    /\ todo' = <<>>
    /\ phase' = "down"
    /\ UNCHANGED <<realm, seedVars, loginVars>>

\* Pages of the running application.
Page ==
    /\ phase = "serving"
    /\ budget["browsers"] > 0
    /\ \/ BrowserStep /\ UNCHANGED budget
       \/ LoginStep /\ Spend("logins")
       \/ WritePage /\ Spend("writes")
    /\ UNCHANGED <<schemaVars, keycloakVars, phase>>

\* Operators and administrators.
Operator ==
    /\ phase = "down"
    /\ Spend("commands")
    /\ OperatorCommand
    /\ UNCHANGED <<keycloakVars, seedVars, loginVars, phase>>

OperatorDone ==
    /\ phase = "down"
    /\ CommitCommand
    /\ KeepRows(db'.tables)
    /\ UNCHANGED <<keycloakVars, loginVars, phase, budget>>

RealmChanges ==
    /\ phase \in {"down", "serving"} /\ command = "none"
    /\ \/ RebuildRealm /\ Spend("rebuilds")
       \/ Meddle /\ Spend("meddling")
    /\ UNCHANGED <<schemaVars, seedVars, loginVars, phase>>

Next ==
    \/ \E m \in {"standalone", "shared"} : Start(m)
    \/ Statement \/ CommandRefused \/ Migrated
    \/ Provision \/ ProvisionFails
    \/ SeedAndServe \/ SeedFails
    \/ Page \/ Stop \/ Crash
    \/ Operator \/ OperatorDone \/ RealmChanges

Spec == Init /\ [][Next]_vars

\* Whoever runs the application starts it again, and a running program or
\* command goes on.
FairSpec ==
    /\ Spec
    /\ WF_vars(\E m \in {"standalone", "shared"} : Start(m))
    /\ WF_vars(Statement \/ CommandRefused \/ Migrated \/ OperatorDone)
    /\ WF_vars(Provision \/ SeedAndServe \/ SeedFails)

-----------------------------------------------------------------------------
\* When provisioning has returned, after any number of starts that broke off
\* between two requests, the realm is whole before a row is written.
ProvisionedWhole ==
    phase = "provisioning" /\ todo = <<>> /\ mode = "shared" => RealmIsWhole

\* While the application serves, its tenants are in one piece.  Without
\* foreign keys, the secrets of a tenant whose table was dropped stay behind.
ServedTenantsAreWhole == phase = "serving" /\ KeysHold => TenantIsWhole

\* While the application serves, shared mode serves who has signed in.
ServesWhoSignedIn == phase = "serving" => ServedIsSignedIn

\* What keeps the application from starting is a secret table of another shape,
\* and tables that were taken from under its version table.
CanStart ==
    /\ db.foreign # "incompatible"
    /\ db.app > 0 => LibraryTables \subseteq db.tables
    /\ db.app > 1 => "secret" \in db.tables

\* create_app succeeds sooner or later: nothing that the application itself
\* left behind keeps it from starting, neither an upgrade torn on SQLite, nor a
\* half-provisioned realm, nor the rows of another mode.
StartsAgain == CanStart ~> (phase = "serving" \/ ~CanStart)
=============================================================================

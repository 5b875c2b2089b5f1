---------------------------- MODULE MCSampleApp -----------------------------
(***************************************************************************)
(* One organization with two users of different groups.                    *)
(***************************************************************************)
EXTENDS SampleApp

MCOrgs == <<"alpha">>
MCAccounts == <<"admin", "clerk">>
MCOrgOf == [u \in {"admin", "clerk"} |-> "alpha"]
MCRoleGroups == <<"Administrators">>
MCGroupsOf ==
    [u \in {"admin", "clerk"} |->
        IF u = "admin" THEN <<"Administrators">> ELSE <<"Operations">>]

Database(product, tables, foreign, library) ==
    [tables |-> tables,
     types |-> IF product = "postgresql" /\ "m8flow_tenant" \in tables
               THEN {"tenantstatus"} ELSE {},
     indexed |-> IF foreign = "none" THEN tables ELSE tables \ {"secret"},
     foreign |-> foreign, library |-> library, app |-> 0]

MCDatabases(product) ==
    {Database(product, {}, "none", 0),
     Database(product, LibraryTables, "none", 1),
     Database(product, {"secret"}, "compatible", 0),
     Database(product, {"secret"}, "incompatible", 0)}

\* A database that the application has migrated.
AtHead ==
    [Database("postgresql", LibraryTables \cup {"secret"}, "none", 0)
        EXCEPT !.app = 2]

Budget(c, f, r, m) ==
    [commands |-> c, faults |-> f, rebuilds |-> r, meddling |-> m,
     logins |-> 0, writes |-> 0, browsers |-> 0]

Browsing(r, l, w) ==
    [Budget(0, 0, r, 0) EXCEPT !.logins = l, !.writes = w, !.browsers = 1]

Scenario(d, schema, b) == [dialect |-> d, db |-> schema, budget |-> b]

\* The database is disturbed, or the realm, or people use the application.
MCScenarios ==
    UNION {{Scenario(d, schema, b) :
               schema \in MCDatabases(d),
               b \in {Budget(2, 0, 0, 0), Budget(1, 1, 0, 0)}} :
           d \in {"postgresql", "sqlite"}}
    \cup {Scenario("postgresql", AtHead, Budget(0, 1, 1, 1)),
          Scenario("postgresql", AtHead, Budget(0, 1, 2, 0)),
          Scenario("postgresql", AtHead, Browsing(0, 2, 0)),
          Scenario("postgresql", AtHead, Browsing(1, 1, 0)),
          Scenario("postgresql", AtHead, Browsing(1, 0, 3))}
=============================================================================

----------------------------- MODULE TenantSeed -----------------------------
(***************************************************************************)
(* sample_app seed.py: the tenants, users, roles and default secrets that  *)
(* the sample application writes at every start, in one transaction.  In   *)
(* standalone mode a tenant's ID is its slug and users have local service  *)
(* IDs.  In shared mode both come from Keycloak, and a tenant whose ID is  *)
(* another is realigned: its rows move to a new tenant row.                *)
(*                                                                         *)
(* An ID is a name with the era of the realm that handed it out, and era 0 *)
(* for a local one, which for tenants is also the slug.  Roles stand for   *)
(* the group, membership and grants of ensure_v1_role (see Authorization); *)
(* rows of the library's tenant-scoped tables are one kind of row, secrets *)
(* another.                                                                *)
(***************************************************************************)
EXTENDS KeycloakProvisioning

VARIABLES
    mode,     \* audit mode of the running application
    tenant,   \* ID of the tenant with the slug of each organization
    users,    \* sequence of user rows: username, service ID, realm_identifier
    rows,     \* tenant-scoped rows: table, organization they are about, ID
    granted,  \* user rows with a role in a tenant
    back      \* the application has gone from shared to standalone mode

seedVars == <<mode, tenant, users, rows, granted, back>>

Local == 0
Id(name, era) == <<name, era>>
Slug(o) == Id(o, Local)
NoTenant == <<"none", Local>>

\* No organization goes by the name that stands for no tenant.
ASSUME SeedAssumption == "none" \notin Org

Row(table, o, id, value) ==
    [table |-> table, org |-> o, id |-> id, value |-> value]

-----------------------------------------------------------------------------
SeedInit ==
    /\ mode = "standalone"
    /\ tenant = [o \in Org |-> NoTenant]
    /\ users = <<>>
    /\ rows = {}
    /\ granted = {}
    /\ back = FALSE

\* _canonical_tenant_id, _resolved_user_identity
Era == IF mode = "shared" THEN realm.era ELSE Local
CanonicalTenant(o) == Id(o, Era)
ServiceId(u) == Id(u, Era)

\* Mutant: the tables of the library only.
TenantScopedLibrary == {"library"}

\* _tenant_scoped_tables: of the library's metadata and the application's.
TenantScoped == {"library", "secret"}

\* _ensure_tenant found the slug with another ID.
Realigned(o) == tenant[o] \notin {NoTenant, CanonicalTenant(o)}

\* _realign_tenant_to_canonical_id: tenant-scoped rows and users follow.
MovedRows ==
    {IF /\ Realigned(r.org) /\ r.id = tenant[r.org]
        /\ r.table \in TenantScoped
     THEN [r EXCEPT !.id = CanonicalTenant(r.org)] ELSE r : r \in rows}

MovedUsers ==
    [i \in DOMAIN users |->
        LET o == OrgOf[users[i].name] IN
        IF Realigned(o) /\ users[i].realm = tenant[o]
        THEN [users[i] EXCEPT !.realm = CanonicalTenant(o)] ELSE users[i]]

\* Mutant: users are looked up by their service ID only.
FoundByServiceId(u) ==
    {i \in DOMAIN users : users[i].service = ServiceId(u)}

\* _ensure_user: by service ID, and in shared mode by name in the tenant.
Found(u) ==
    LET same == {i \in DOMAIN users : users[i].service = ServiceId(u)} IN
    IF same # {} \/ mode = "standalone" THEN same
    ELSE {i \in DOMAIN users : users[i].name = u}

NewUsers ==
    LET after[n \in 0 .. Len(Accounts)] ==
            IF n = 0 THEN <<>>
            ELSE IF Found(Accounts[n]) = {} THEN Append(after[n - 1], Accounts[n])
            ELSE after[n - 1]
    IN  after[Len(Accounts)]

UserRow(u) ==
    [name |-> u, service |-> ServiceId(u), realm |-> CanonicalTenant(OrgOf[u])]

\* Existing rows are overwritten, missing ones appended.
SeededUsers(pick) ==
    [i \in DOMAIN users |->
        IF \E u \in User : i = pick[u] THEN UserRow(users[i].name)
        ELSE MovedUsers[i]]
    \o [i \in DOMAIN NewUsers |-> UserRow(NewUsers[i])]

\* _ensure_default_tenant_secrets: keys the tenant has are left alone.
SeededRows ==
    MovedRows \cup
        {Row("secret", o, CanonicalTenant(o), "default") :
            o \in {p \in Org : ~\E r \in MovedRows :
                      r.table = "secret" /\ r.id = CanonicalTenant(p)}}

\* The row that stands for a user: session.scalar takes one of those found,
\* and 0 is none.
Picks ==
    {p \in [User -> 0 .. Len(users)] :
        \A u \in User : IF Found(u) = {} THEN p[u] = 0 ELSE p[u] \in Found(u)}

\* seed_static_reference_data and the COMMIT of session_scope.
Seed ==
    /\ tenant' = [o \in Org |-> CanonicalTenant(o)]
    /\ \E pick \in Picks :
          /\ users' = SeededUsers(pick)
          /\ granted' = granted \cup
                {<<i, CanonicalTenant(OrgOf[users'[i].name])>> :
                    i \in {j \in DOMAIN users' :
                              \/ j > Len(users)
                              \/ \E u \in User : pick[u] = j}}
    /\ rows' = SeededRows
    /\ UNCHANGED <<mode, back>>

\* The settings of a start.
ChooseMode(m) ==
    /\ mode' = m
    /\ back' = (back \/ (mode = "shared" /\ m = "standalone"))
    /\ UNCHANGED <<tenant, users, rows, granted>>

\* Dropped tables take their rows along.
KeepRows(tables) ==
    /\ tenant' = IF "m8flow_tenant" \in tables THEN tenant
                 ELSE [o \in Org |-> NoTenant]
    /\ users' = IF "user" \in tables THEN users ELSE <<>>
    /\ granted' = IF "permission_assignment" \in tables THEN granted ELSE {}
    /\ rows' = {r \in rows : IF r.table = "secret" THEN "secret" \in tables
                             ELSE "bpmn_process_definition" \in tables}
    /\ UNCHANGED <<mode, back>>

-----------------------------------------------------------------------------
\* Whatever the mode was and however often the realm was rebuilt, a seeded
\* tenant is in one piece: every row about it carries its present ID, every
\* user row belongs to it, and one row of every user has its role there.
\* It has one value of a secret: the default is not added to an edited one.
TenantIsWhole ==
    /\ \A r \in rows : r.id = tenant[r.org]
    /\ \A i \in DOMAIN users : users[i].realm = tenant[OrgOf[users[i].name]]
    /\ \A u \in User : \E i \in DOMAIN users :
           users[i].name = u /\ <<i, tenant[OrgOf[u]]>> \in granted
    /\ \A r, s \in rows :
           r.table = "secret" /\ s.table = "secret" /\ r.org = s.org => r = s

\* A user keeps one row, and with it the tasks and groups that refer to it,
\* from standalone to shared mode and through rebuilt realms.  Going back to
\* standalone makes new rows, since local users are not looked up by name.
OneRowPerUser ==
    ~back => \A i, j \in DOMAIN users :
                 users[i].name = users[j].name => i = j
=============================================================================

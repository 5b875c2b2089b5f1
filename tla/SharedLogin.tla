---------------------------- MODULE SharedLogin -----------------------------
(***************************************************************************)
(* The sessions of the sample application (web.py, auth.py,                *)
(* keycloak_login.py) for one browser.  The session is a signed cookie: it *)
(* outlives restarts, changes of mode and rebuilt realms.  In standalone   *)
(* mode a selected identity becomes active at once; in shared mode the     *)
(* browser is sent to Keycloak, and the callback activates it.             *)
(*                                                                         *)
(* Forms may be stale: they carry any tenant ID there has been.  Answers   *)
(* of Keycloak arrive in any order, late, or twice, and whoever sits at    *)
(* the browser may sign in as another user than the selected one.          *)
(***************************************************************************)
EXTENDS TenantSeed

VARIABLES
    active,   \* tenant ID and user row of the session, or NoIdentity
    pending,  \* tenant ID, user row and state of a started login
    logins,   \* logins started so far; a login's number is its state value
    answers,  \* answers of Keycloak: state and account, or Denied
    signedIn  \* ghost: the account that the session was opened for

loginVars == <<active, pending, logins, answers, signedIn>>

NoIdentity == [tenant |-> NoTenant, user |-> 0]
NoLogin == [tenant |-> NoTenant, user |-> 0, state |-> 0]
Nobody == Id("nobody", Local)
Denied == Id("denied", Local)

TenantIds == {Id(o, e) : o \in Org, e \in 0 .. realm.era}

LoginInit ==
    /\ active = NoIdentity
    /\ pending = NoLogin
    /\ logins = 0
    /\ answers = {}
    /\ signedIn = Nobody

-----------------------------------------------------------------------------
\* tenant_identifiers_for: a tenant found by ID or slug goes by both.
IdentifiersOf(t) ==
    {t} \cup UNION {{tenant[o], Slug(o)} :
                       o \in {p \in Org : tenant[p] # NoTenant
                                          /\ t \in {tenant[p], Slug(p)}}}

\* user_belongs_to_tenant; external_org_id is the slug.
Belongs(i, t) ==
    {users[i].realm, Slug(OrgOf[users[i].name])} \cap IdentifiersOf(t) # {}

\* list_users_for_tenant
UsersOf(t) == {i \in DOMAIN users : Belongs(i, t)}

\* get_active_identity returns an identity: a tenant with this very ID.
Served ==
    /\ active.tenant # NoTenant
    /\ \E o \in Org : tenant[o] = active.tenant
    /\ active.user \in UsersOf(active.tenant)

\* A page that finds no valid identity clears the session, except that a
\* user row that is gone raises before it is cleared.
Visit ==
    /\ active # NoIdentity
    /\ ~Served
    /\ ~\E o \in Org : tenant[o] = active.tenant /\ active.user > Len(users)
    /\ active' = NoIdentity
    /\ pending' = NoLogin
    /\ signedIn' = Nobody
    /\ UNCHANGED <<logins, answers>>

\* POST /session/select in standalone mode.
SelectIdentity(t, i) ==
    /\ mode = "standalone"
    /\ i \in UsersOf(t)
    /\ active' = [tenant |-> t, user |-> i]
    /\ pending' = NoLogin
    /\ signedIn' = Nobody
    /\ UNCHANGED <<logins, answers>>

\* start_shared_keycloak_login; a session that is active stays so.
StartLogin(t, i) ==
    /\ mode = "shared"
    /\ i \in UsersOf(t)
    /\ logins' = logins + 1
    /\ pending' = [tenant |-> t, user |-> i, state |-> logins + 1]
    /\ UNCHANGED <<active, answers, signedIn>>

\* Keycloak: somebody signs in, or gives up, for a login that was started.
\* The page is answered once.
Answer(state, who) ==
    /\ state \in 1 .. logins
    /\ ~\E a \in answers : a.state = state
    /\ who = Denied \/ \E u \in realm.accounts : who = Id(u, realm.era)
    /\ answers' = answers \cup {[state |-> state, who |-> who]}
    /\ UNCHANGED <<active, pending, logins, signedIn>>

\* find_user_for_service_identity: exactly one row of the tenant.
Resolved(who) ==
    {i \in UsersOf(pending.tenant) : users[i].service = who}

\* The answer belongs to the login that is pending, Keycloak exchanges its
\* code, and the account is the user that was selected.
CallbackMatches(a) ==
    /\ mode = "shared"
    /\ pending # NoLogin
    /\ a.state = pending.state
    /\ a.who # Denied
    /\ a.who[2] = realm.era
    /\ Resolved(a.who) = {pending.user}

\* Mutant: the account that signed in is not compared with the selection.
CallbackOpensUnchecked(a) ==
    /\ mode = "shared" /\ pending # NoLogin /\ a.state = pending.state
    /\ a.who # Denied /\ a.who[2] = realm.era
    /\ active' = [tenant |-> pending.tenant, user |-> pending.user]
    /\ pending' = NoLogin
    /\ signedIn' = a.who
    /\ UNCHANGED <<logins, answers>>

\* shared_keycloak_callback opens the session.
CallbackOpens(a) ==
    /\ CallbackMatches(a)
    /\ active' = [tenant |-> pending.tenant, user |-> pending.user]
    /\ pending' = NoLogin
    /\ signedIn' = a.who
    /\ UNCHANGED <<logins, answers>>

\* Every other outcome, a failed exchange included, drops the pending login.
CallbackRefuses ==
    /\ pending # NoLogin
    /\ pending' = NoLogin
    /\ UNCHANGED <<active, logins, answers, signedIn>>

Callback ==
    \E a \in answers : CallbackOpens(a) \/ CallbackRefuses

\* POST /session/clear
ClearIdentity ==
    /\ active # NoIdentity \/ pending # NoLogin
    /\ active' = NoIdentity
    /\ pending' = NoLogin
    /\ signedIn' = Nobody
    /\ UNCHANGED <<logins, answers>>

-----------------------------------------------------------------------------
\* The pages that write: secrets.py, and the import of a definition.
MyTenant(o) == Served /\ tenant[o] = active.tenant

SecretsOf(o) == {r \in rows : r.table = "secret" /\ r.id = tenant[o]}

\* new_secret_page; the key is unique per tenant.
CreateSecret(o) ==
    /\ MyTenant(o)
    /\ SecretsOf(o) = {}
    /\ rows' = rows \cup {Row("secret", o, tenant[o], "edited")}

\* edit_secret_page with a new value.
EditSecret(o) ==
    /\ MyTenant(o)
    /\ SecretsOf(o) # {}
    /\ rows' = (rows \ SecretsOf(o))
                   \cup {Row("secret", o, tenant[o], "edited")}

DeleteSecret(o) ==
    /\ MyTenant(o)
    /\ SecretsOf(o) # {}
    /\ rows' = rows \ SecretsOf(o)

Deploy(o) ==
    /\ MyTenant(o)
    /\ rows' = rows \cup {Row("library", o, tenant[o], "model")}

WritePage ==
    /\ \E o \in Org :
          CreateSecret(o) \/ EditSecret(o) \/ DeleteSecret(o) \/ Deploy(o)
    /\ UNCHANGED <<mode, tenant, users, granted, back, loginVars>>

LoginStep ==
    /\ \E t \in TenantIds, i \in DOMAIN users : StartLogin(t, i)
    /\ UNCHANGED seedVars

BrowserStep ==
    /\ \/ Visit \/ Callback \/ ClearIdentity
       \/ \E t \in TenantIds, i \in DOMAIN users : SelectIdentity(t, i)
       \/ \E s \in 1 .. logins, u \in User :
             Answer(s, Id(u, realm.era))
       \/ \E s \in 1 .. logins : Answer(s, Denied)
    /\ UNCHANGED seedVars

-----------------------------------------------------------------------------
\* In shared mode the pages serve nobody who has not signed in: whatever the
\* session has been through, the identity they accept is that of the account
\* that Keycloak returned when the session was opened.
ServedIsSignedIn ==
    mode = "shared" /\ Served =>
        signedIn # Nobody /\ signedIn[1] = users[active.user].name
=============================================================================

------------------------ MODULE KeycloakProvisioning ------------------------
(***************************************************************************)
(* utils/keycloak/service.py and the browser client of the sample          *)
(* application: one program of HTTP requests that brings the shared realm  *)
(* into the shape the application needs.  Nothing in it is transactional.  *)
(* A request may fail, or take effect although its answer is lost; either  *)
(* raises, and the next start runs the program again from the beginning.   *)
(*                                                                         *)
(* A lookup is a request of its own that decides which requests follow.    *)
(* Identifiers that Keycloak hands out are the name and the era of the     *)
(* realm, which begins anew when the realm is rebuilt.  Profiles, tokens,  *)
(* paging and URLs are left out.                                           *)
(***************************************************************************)
EXTENDS Naturals, Sequences, Functions

CONSTANTS
    Orgs,        \* sequence of the organizations, in the order of the seed
    Accounts,    \* sequence of the users
    OrgOf,       \* the organization of each user
    RoleGroups,  \* sequence of the groups that every organization has
    GroupsOf     \* sequence of the groups of each user

VARIABLES
    realm,  \* what Keycloak has stored
    todo    \* requests the running program still has to send

keycloakVars == <<realm, todo>>

Org == Range(Orgs)
User == Range(Accounts)

\* The users of the seed have names of their own.
ASSUME KeycloakAssumption ==
    /\ Orgs \in Seq(Org) /\ Accounts \in Seq(User)
    /\ \A i, j \in DOMAIN Accounts : Accounts[i] = Accounts[j] => i = j
    /\ OrgOf \in [User -> Org]
    /\ RoleGroups \in Seq(Range(RoleGroups))
    /\ \A u \in User : GroupsOf[u] \in Seq(Range(GroupsOf[u]))

-----------------------------------------------------------------------------
R(do, on, group) == [do |-> do, on |-> on, group |-> group]

\* A realm in which nothing has been provisioned.
EmptyRealm(era) ==
    [era |-> era, client |-> "absent", orgs |-> {}, groups |-> {},
     accounts |-> {}, cleared |-> {}, password |-> {}, members |-> {},
     joined |-> {}]

\* One program after the other.
InOrder(programs) ==
    LET after[n \in 0 .. Len(programs)] ==
            IF n = 0 THEN <<>> ELSE after[n - 1] \o programs[n]
    IN  after[Len(programs)]

\* get_organization_by_alias or create_organization, then the role groups.
OrgProgram(o) ==
    <<R("find org", o, "")>>
        \o [i \in DOMAIN RoleGroups |-> R("find group", o, RoleGroups[i])]

\* The account, the membership, and each group with its member.
UserProgram(u) ==
    <<R("find user", u, ""), R("add member", u, "")>>
        \o [i \in 1 .. 2 * Len(GroupsOf[u]) |->
               IF i % 2 = 1
               THEN R("find group", OrgOf[u], GroupsOf[u][(i + 1) \div 2])
               ELSE R("join group", u, GroupsOf[u][i \div 2])]

\* ensure_shared_realm_browser_client, and then
\* ensure_shared_realm_organizations_and_users.
Program ==
    <<R("find client", "", "")>>
        \o InOrder([i \in DOMAIN Orgs |-> OrgProgram(Orgs[i])])
        \o InOrder([i \in DOMAIN Accounts |-> UserProgram(Accounts[i])])

\* ensure_shared_realm_browser_client: the client is created, or brought up
\* to date if it knows another address.
ClientRequests ==
    CASE realm.client = "absent" -> <<R("post client", "", "")>>
      [] realm.client = "stale" -> <<R("put client", "", "")>>
      [] OTHER -> <<>>

\* create_organization
OrgRequests(o) ==
    IF o \in realm.orgs THEN <<>> ELSE <<R("post org", o, "")>>

\* create_organization_group
GroupRequests(o, g) ==
    IF <<o, g>> \in realm.groups THEN <<>> ELSE <<R("post group", o, g)>>

\* Mutant: an account that exists is taken as it is.
AccountRequestsTrusting(u) ==
    IF u \in realm.accounts THEN <<>>
    ELSE <<R("post user", u, ""), R("put user", u, "")>>

\* create_user_in_realm; an account that exists is reconciled.
AccountRequests(u) ==
    IF u \in realm.accounts
    THEN <<R("put user", u, ""), R("put password", u, "")>>
    ELSE <<R("post user", u, ""), R("put user", u, "")>>

\* What the answer to a lookup makes necessary.
Follows(r) ==
    CASE r.do = "find client" -> ClientRequests
      [] r.do = "find org" -> OrgRequests(r.on)
      [] r.do = "find group" -> GroupRequests(r.on, r.group)
      [] r.do = "find user" -> AccountRequests(r.on)
      [] OTHER -> <<>>

\* add_organization_member; a member that is there is no error.
Member(u) == [realm EXCEPT !.members = @ \cup {u}]

\* add_organization_group_member
GroupMember(u, g) == [realm EXCEPT !.joined = @ \cup {<<u, g>>}]

\* A new account has its password, and the required actions of the realm.
Effect(r) ==
    CASE r.do \in {"post client", "put client"} ->
            [realm EXCEPT !.client = "current"]
      [] r.do = "post org" -> [realm EXCEPT !.orgs = @ \cup {r.on}]
      [] r.do = "post group" ->
            [realm EXCEPT !.groups = @ \cup {<<r.on, r.group>>}]
      [] r.do = "post user" ->
            [realm EXCEPT !.accounts = @ \cup {r.on},
                          !.password = @ \cup {r.on}]
      [] r.do = "put user" -> [realm EXCEPT !.cleared = @ \cup {r.on}]
      [] r.do = "put password" -> [realm EXCEPT !.password = @ \cup {r.on}]
      [] r.do = "add member" -> Member(r.on)
      [] r.do = "join group" -> GroupMember(r.on, r.group)
      [] OTHER -> realm

-----------------------------------------------------------------------------
KeycloakInit ==
    /\ realm = EmptyRealm(1)
    /\ todo = <<>>

\* A request takes effect and is answered.
Request ==
    /\ todo # <<>>
    /\ realm' = Effect(Head(todo))
    /\ todo' = Follows(Head(todo)) \o Tail(todo)

\* A request fails, with or without its effect, and the program raises.
RequestFails ==
    /\ todo # <<>>
    /\ realm' \in {realm, Effect(Head(todo))}
    /\ todo' = <<>>

\* The realm is rebuilt from its export: new identifiers for everything.
RebuildRealm ==
    /\ realm' = EmptyRealm(realm.era + 1)
    /\ UNCHANGED todo

\* An administrator gives a user a temporary password.
ResetPassword(u) ==
    /\ u \in realm.password
    /\ realm' = [realm EXCEPT !.cleared = @ \ {u}, !.password = @ \ {u}]
    /\ UNCHANGED todo

\* The application is configured with another address.
MoveClient ==
    /\ realm.client = "current"
    /\ realm' = [realm EXCEPT !.client = "stale"]
    /\ UNCHANGED todo

Meddle == MoveClient \/ \E u \in User : ResetPassword(u)

-----------------------------------------------------------------------------
\* The realm is as the application needs it: the client knows its address,
\* every organization has its groups, and every user can sign in with the
\* seeded password, without a required action, as a member of the groups.
RealmIsWhole ==
    /\ realm.client = "current"
    /\ Org = realm.orgs
    /\ \A o \in Org : \A g \in Range(RoleGroups) : <<o, g>> \in realm.groups
    /\ User = realm.cleared /\ User = realm.password /\ User = realm.members
    /\ \A u \in User : \A g \in Range(GroupsOf[u]) :
           <<OrgOf[u], g>> \in realm.groups /\ <<u, g>> \in realm.joined
=============================================================================

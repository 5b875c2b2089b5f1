--------------------------- MODULE Authorization ----------------------------
(***************************************************************************)
(* Permission grants and the decisions taken from them.  Each session runs *)
(* ensure_v1_role or grant_permission_to_user in one transaction, at       *)
(* PostgreSQL's READ COMMITTED: a sequence of rows that _get_or_create     *)
(* finds or makes, each with a SELECT, an INSERT ... ON CONFLICT DO        *)
(* NOTHING and a second SELECT.                                            *)
(***************************************************************************)
EXTENDS Naturals, FiniteSets, Sequences, Functions

CONSTANTS
    Granters,     \* the sessions that call
    Call,         \* Call[w]: what session w calls
    Committed,    \* the writer of a committed row
    NoId,         \* resource_id NULL
    Identifiers,  \* Identifiers[t]: the id and the slug of the tenant t names
    Request,      \* requests that are decided
    MaxAborts     \* bound: transactions that are rolled back

ASSUME CommittedAssumption == Committed \notin Granters

VARIABLES
    rows,     \* the rows of the permission tables
    phase,    \* phase[w]: what session w executes next
    place,    \* place[w]: the row of its program it is at
    target,   \* target[w]: the ID of the permission_target row it has got
    update,   \* update[w]: the assignments it has updated to its grant_type
    before,   \* before[w]: the sessions with the same program that had committed
              \* when it began; no statement depends on it
    aborts    \* transactions rolled back

grantVars == <<rows, phase, place, target, update, before, aborts>>

-----------------------------------------------------------------------------
(***************************************************************************)
(* Programs: the keys of the rows a call needs, in its order.              *)
(***************************************************************************)

\* COMMAND_AUTHORIZATION_SPECS, as far as roles contain the commands.
Permission(c) ==
    [process_start |-> "start", definition_import |-> "create",
     task_claim |-> "execute", task_complete |-> "execute",
     process_suspend |-> "execute", process_resume |-> "execute",
     process_retry |-> "execute", process_terminate |-> "execute"][c]

\* Mutant: the manager's commands are listed in another order.
RoleCommandsSwapped ==
    [user |-> <<"process_start", "task_claim", "task_complete">>,
     manager |-> <<"task_complete", "task_claim">>,
     admin |-> <<"process_start", "task_claim", "task_complete",
                 "definition_import", "process_suspend", "process_resume",
                 "process_retry", "process_terminate">>]

\* V1_BASIC_ROLE_COMMAND_KEYS
RoleCommands ==
    [user |-> <<"process_start", "task_claim", "task_complete">>,
     manager |-> <<"task_claim", "task_complete">>,
     admin |-> <<"process_start", "task_claim", "task_complete",
                 "definition_import", "process_suspend", "process_resume",
                 "process_retry", "process_terminate">>]

\* The rows for one grant to a principal, who is a user or a group.
GrantKeys(who, command, permission, type, id) ==
    << <<"principal", who>>,
       <<"target", command, type, id>>,
       <<"assignment", who, permission, command, type, id>> >>

\* ensure_v1_role with grant_command_permissions_to_group, which grants one
\* command after the other.
RoleProgram(t, role, users) ==
    LET g == <<t, role>>
        commands == RoleCommands[role] IN
    << <<"group", g>> >>
    \o [n \in DOMAIN users |-> <<"member", users[n], g>>]
    \o [n \in 1 .. 3 * Len(commands) |->
          LET c == commands[(n + 2) \div 3] IN
          GrantKeys(g, c, Permission(c), "tenant", t)[((n - 1) % 3) + 1]]

Program(call) ==
    IF call.name = "ensure_v1_role"
    THEN RoleProgram(call.tenant, call.role, call.users)
    ELSE GrantKeys(call.user, call.command, call.permission, call.type, call.id)

Plan == [w \in Granters |-> Program(Call[w])]

Grant(call) == IF call.name = "ensure_v1_role" THEN "permit" ELSE call.grant

\* A principal is a user or a group: a row of the table principal has one of
\* the two IDs.
ASSUME CallAssumption ==
    \A w \in Granters :
        IF Call[w].name = "ensure_v1_role"
        THEN /\ Call[w].role \in DOMAIN RoleCommands
             /\ Call[w].tenant # NoId
             /\ Call[w].users \in Seq(Range(Call[w].users))
             /\ \A q \in Request : q.user # <<Call[w].tenant, Call[w].role>>
             /\ \A v \in Granters : Call[v].name # "ensure_v1_role" =>
                   Call[v].user # <<Call[w].tenant, Call[w].role>>
        ELSE Call[w].grant \in {"permit", "deny"}

ASSUME TenantAssumption == \A q \in Request : q.tenant \in Identifiers[q.tenant]

-----------------------------------------------------------------------------
(***************************************************************************)
(* _get_or_create                                                          *)
(***************************************************************************)

\* The key that session w is at; that of an assignment has the ID of the
\* target row.
Key(w) ==
    LET k == Plan[w][place[w]] IN
    IF k[1] = "assignment" THEN Append(k, target[w]) ELSE k

\* The unique constraint of permission_target does not compare NULLs.
Arbitrated(k) == k[1] # "target" \/ k[4] # NoId

RowsOf(k) == {r \in rows : r.key = k}

Visible(w, k) == {r \in RowsOf(k) : r.by \in {Committed, w}}

Proceed(w, p) == phase' = [phase EXCEPT ![w] = p]

NewId(k) == CHOOSE n \in 1 .. Cardinality(RowsOf(k)) + 1 :
                \A r \in RowsOf(k) : r.id # n

NewRow(w, k) ==
    [key |-> k, id |-> NewId(k), by |-> w,
     grant |-> IF k[1] = "assignment" THEN Grant(Call[w]) ELSE "none"]

\* The grant_type of a row as session w sees it.
Seen(w, r) ==
    IF r.key \in update[w] THEN Grant(Call[w]) ELSE r.grant

\* A row has been found; an assignment with another grant_type is updated.
Obtain(w, r) ==
    /\ target' = IF r.key[1] = "target" THEN [target EXCEPT ![w] = r.id]
                 ELSE target
    /\ IF r.key[1] = "assignment" /\ Seen(w, r) # Grant(Call[w])
       THEN Proceed(w, "update") /\ UNCHANGED place
       ELSE Proceed(w, "select") /\ place' = [place EXCEPT ![w] = @ + 1]

Running(w) == place[w] <= Len(Plan[w])

\* The first statement of a session begins its transaction.
Begin(w) ==
    before' = IF place[w] > 1 THEN before
              ELSE [before EXCEPT ![w] = {v \in Granters : /\ phase[v] = "done"
                                                            /\ Plan[v] = Plan[w]}]

Select(w) ==
    /\ phase[w] = "select"
    /\ Running(w)
    /\ Begin(w)
    /\ IF Visible(w, Key(w)) = {}
       THEN Proceed(w, "insert") /\ UNCHANGED <<place, target>>
       ELSE \E r \in Visible(w, Key(w)) : Obtain(w, r)
    /\ UNCHANGED <<rows, update, aborts>>

\* Mutant: a plain INSERT without a unique constraint.
InsertAnyway(w) ==
    /\ phase[w] = "insert"
    /\ rows' = rows \cup {NewRow(w, Key(w))}
    /\ Proceed(w, "reload")
    /\ UNCHANGED <<place, target, update, before, aborts>>

\* Mutant: an INSERT that gives way to rows that are not committed.
InsertWithoutWaiting(w) ==
    /\ phase[w] = "insert"
    /\ rows' = IF Arbitrated(Key(w)) /\ RowsOf(Key(w)) # {} THEN rows
               ELSE rows \cup {NewRow(w, Key(w))}
    /\ Proceed(w, "reload")
    /\ UNCHANGED <<place, target, update, before, aborts>>

\* ON CONFLICT DO NOTHING waits for the transaction that has inserted the
\* conflicting row, and then finds it committed or gone.
Insert(w) ==
    /\ phase[w] = "insert"
    /\ Arbitrated(Key(w)) => \A r \in RowsOf(Key(w)) : r.by = Committed
    /\ rows' = IF Arbitrated(Key(w)) /\ RowsOf(Key(w)) # {} THEN rows
               ELSE rows \cup {NewRow(w, Key(w))}
    /\ Proceed(w, "reload")
    /\ UNCHANGED <<place, target, update, before, aborts>>

\* The second SELECT; RuntimeError if it finds nothing.
Reload(w) ==
    /\ phase[w] = "reload"
    /\ IF Visible(w, Key(w)) = {}
       THEN Proceed(w, "error") /\ UNCHANGED <<place, target>>
       ELSE \E r \in Visible(w, Key(w)) : Obtain(w, r)
    /\ UNCHANGED <<rows, update, before, aborts>>

\* Mutant: the grant_type of an assignment that is there is left as it is.
UpdateGrantKeeping(w) ==
    /\ phase[w] = "update"
    /\ Proceed(w, "select")
    /\ place' = [place EXCEPT ![w] = @ + 1]
    /\ UNCHANGED <<rows, target, update, before, aborts>>

\* _find_or_create_permission_assignment updates grant_type; it waits for the
\* row lock of another update.
UpdateGrant(w) ==
    /\ phase[w] = "update"
    /\ \A v \in Granters \ {w} : Key(w) \notin update[v]
    /\ update' = [update EXCEPT ![w] = @ \cup {Key(w)}]
    /\ Proceed(w, "select")
    /\ place' = [place EXCEPT ![w] = @ + 1]
    /\ UNCHANGED <<rows, target, before, aborts>>

\* The caller commits.
Commit(w) ==
    /\ phase[w] = "select"
    /\ ~Running(w)
    /\ rows' = {[key |-> r.key, id |-> r.id, grant |-> Seen(w, r),
                 by |-> IF r.by = w THEN Committed ELSE r.by] : r \in rows}
    /\ update' = [update EXCEPT ![w] = {}]
    /\ Proceed(w, "done")
    /\ UNCHANGED <<place, target, before, aborts>>

\* The transaction is rolled back, and the caller tries again.
Rollback(w) ==
    /\ phase[w] \notin {"done", "error"}
    /\ aborts < MaxAborts
    /\ aborts' = aborts + 1
    /\ rows' = {r \in rows : r.by # w}
    /\ update' = [update EXCEPT ![w] = {}]
    /\ Proceed(w, "select")
    /\ place' = [place EXCEPT ![w] = 1]
    /\ UNCHANGED <<target, before>>

GrantInit ==
    /\ rows = {}
    /\ phase = [w \in Granters |-> "select"]
    /\ place = [w \in Granters |-> 1]
    /\ target = [w \in Granters |-> 0]
    /\ update = [w \in Granters |-> {}]
    /\ before = [w \in Granters |-> {}]
    /\ aborts = 0

Statement(w) ==
    Select(w) \/ Insert(w) \/ Reload(w) \/ UpdateGrant(w) \/ Commit(w)

GrantNext == \E w \in Granters : Statement(w) \/ Rollback(w)

GrantSpec == GrantInit /\ [][GrantNext]_grantVars

\* While some statement need not wait, one is executed.
FairSpec == GrantSpec /\ WF_grantVars(\E w \in Granters : Statement(w))

-----------------------------------------------------------------------------
(***************************************************************************)
(* Decisions, from the committed rows.                                     *)
(***************************************************************************)

\* group_identifier_applies_to_tenant: an identifier without a colon applies to
\* every tenant, prefix:role to the tenant whose id or slug the prefix is.
AppliesToTenant(g, t) == Len(g) = 1 \/ g[1] \in Identifiers[t]

\* The user and the user's groups that apply to the tenant.
Principals(q) ==
    {q.user} \cup
    {r.key[3] : r \in {r \in rows : /\ r.by = Committed
                                   /\ r.key[1] = "member"
                                   /\ r.key[2] = q.user
                                   /\ AppliesToTenant(r.key[3], q.tenant)}}

\* permission_assignment_matches_request
Matches(permission, command, type, id, q) ==
    /\ permission \in {q.permission, "all"}
    /\ command = q.command
    /\ IF type = "tenant" THEN id \in {NoId, q.tenant}
       ELSE type = q.type /\ id \in {NoId, q.id}

\* The grant_types of the assignments that match a request.
MatchingGrants(q) ==
    {r.grant : r \in {r \in rows :
        /\ r.by = Committed
        /\ r.key[1] = "assignment"
        /\ r.key[2] \in Principals(q)
        /\ Matches(r.key[3], r.key[4], r.key[5], r.key[6], q)}}

\* DatabaseAuthorizationPolicy.authorize: a denial wins.
Authorize(q) ==
    /\ "deny" \notin MatchingGrants(q)
    /\ "permit" \in MatchingGrants(q)

-----------------------------------------------------------------------------
(***************************************************************************)
(* Properties                                                              *)
(***************************************************************************)

\* Types of the rows and of the sessions' local state: only assignments have
\* a grant_type, which is one of PermitDeny.
GrantTypeOK ==
    /\ \A r \in rows :
          /\ r.by \in Granters \cup {Committed}
          /\ r.id \in 1 .. Cardinality(Granters)
          /\ r.grant \in IF r.key[1] = "assignment" THEN {"permit", "deny"}
                         ELSE {"none"}
    /\ phase \in [Granters -> {"select", "insert", "reload", "update", "done",
                               "error"}]
    /\ \A w \in Granters :
          /\ place[w] \in 1 .. Len(Plan[w]) + 1
          /\ target[w] \in 0 .. Cardinality(Granters)
          /\ \A k \in update[w] : k[1] = "assignment"
          /\ before[w] \subseteq {v \in Granters : phase[v] = "done"}
    /\ aborts \in 0 .. MaxAborts

\* Concurrent calls of _get_or_create leave one row for a key, except for
\* targets whose resource_id is NULL.
OneRowPerKey ==
    \A r, s \in rows : r.key = s.key /\ Arbitrated(r.key) => r = s

\* The RuntimeError at the end of _get_or_create is never raised: after the
\* INSERT the row is there, whoever has made it and whoever rolls back.
ReloadFinds == \A w \in Granters : phase[w] # "error"

\* Call c, once committed, grants or denies request q.
Concerns(c, q) ==
    IF c.name = "ensure_v1_role"
    THEN /\ c.tenant = q.tenant
         /\ q.user \in Range(c.users)
         /\ q.command \in Range(RoleCommands[c.role])
         /\ q.permission = Permission(q.command)
    ELSE /\ c.user = q.user
         /\ Matches(c.permission, c.command, c.type, c.id, q)

Decided(q, grant) ==
    {w \in Granters : /\ phase[w] = "done"
                      /\ Grant(Call[w]) = grant
                      /\ Concerns(Call[w], q)}

\* A call that had not committed when w began, and has committed since, sets
\* the same assignment to permit.
Overruled(w) ==
    \E v \in Granters :
        /\ phase[v] = "done"
        /\ v \notin before[w]
        /\ Plan[v] = Plan[w]
        /\ Grant(Call[v]) = "permit"

\* Whatever order the calls' statements are in, a decision of the database
\* policy follows from the calls that have committed: what is allowed has
\* been granted; what has been granted and not denied is allowed; and a denial
\* beats the grants of every role and every earlier permission of the same
\* kind: only a call that is not over when the denial begins can turn it
\* around, by the update of the grant_type that both of them find.
DecisionMatchesGrants ==
    \A q \in Request :
        /\ Authorize(q) => Decided(q, "permit") # {}
        /\ Decided(q, "permit") # {} /\ Decided(q, "deny") = {} => Authorize(q)
        /\ (\E w \in Decided(q, "deny") : ~Overruled(w)) => ~Authorize(q)

\* Every call commits: sessions that insert the rows of overlapping roles wait
\* for each other but never in a circle, as the roles list their commands in
\* one order.
AllProvisioned == <>(\A w \in Granters : phase[w] = "done")
=============================================================================

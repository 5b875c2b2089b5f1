-------------------------- MODULE MCAuthorization ---------------------------
(***************************************************************************)
(* Two roles with common commands are set up for one user, while the user  *)
(* is denied and permitted to claim any task.                              *)
(***************************************************************************)
EXTENDS Authorization, TLC

CONSTANTS s1, s2, s3, s4, acme, acmeSlug, other, ann, bob, task7

Role(role, users) ==
    [name |-> "ensure_v1_role", tenant |-> acme, role |-> role,
     users |-> users]

ClaimGrant(grant) ==
    [name |-> "grant_permission_to_user", user |-> ann,
     command |-> "task_claim", permission |-> "execute", type |-> "task",
     id |-> NoId, grant |-> grant]

ConcurrentCalls ==
    s1 :> Role("user", <<ann>>) @@ s2 :> Role("manager", <<ann, bob>>)
    @@ s3 :> ClaimGrant("deny") @@ s4 :> ClaimGrant("permit")

\* A tenant is named by its id or by its slug.
TenantIdentifiers ==
    acme :> {acme, acmeSlug} @@ acmeSlug :> {acme, acmeSlug} @@ other :> {other}

TaskRequests ==
    {[tenant |-> t, user |-> u, command |-> c, permission |-> "execute",
      type |-> "task", id |-> task7] :
        t \in {acme, acmeSlug, other}, u \in {ann, bob},
        c \in {"task_claim", "task_complete"}}
=============================================================================

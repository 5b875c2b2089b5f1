-------------------------- MODULE WorkItemContract --------------------------
(***************************************************************************)
(* What claim_task, complete_task and terminate_process_instance promise   *)
(* their callers about one process instance of parallel manual tasks, as   *)
(* if each command took effect at once.                                    *)
(***************************************************************************)
EXTENDS FiniteSets

CONSTANTS Users, NoUser, Manual

VARIABLES
    phase,     \* the instance as its users see it: live, complete, terminated
    finished,  \* the manual tasks whose completion has been acknowledged
    work       \* the work items

vars == <<phase, finished, work>>

Item == [completed : BOOLEAN, owner : Users \cup {NoUser},
         by : Users \cup {NoUser}]

\* A work item that anybody may claim.
Free == [completed |-> FALSE, owner |-> NoUser, by |-> NoUser]

\* A work item that u has completed or, as an operator, closed.
ClosedBy(u) == [completed |-> TRUE, owner |-> u, by |-> u]

Init ==
    /\ phase = "live"
    /\ finished = {}
    /\ work = [m \in Manual |-> Free]

\* Only the owner of a work item, or anybody while it has none, may claim it.
Claim(u, m) ==
    /\ ~work[m].completed
    /\ work[m].owner \in {NoUser, u}
    /\ work' = [work EXCEPT ![m].owner = u]
    /\ UNCHANGED <<phase, finished>>

\* Completing a task moves the workflow and, at most, frees other open items.
Complete(u, m) ==
    /\ phase = "live"
    /\ ~work[m].completed
    /\ work[m].owner = u
    /\ finished' = finished \cup {m}
    /\ work' \in [Manual -> Item]
    /\ work'[m] = ClosedBy(u)
    /\ \A x \in Manual \ {m} :
          work'[x] = work[x] \/ (~work[x].completed /\ work'[x] = Free)
    /\ phase' = IF finished' = Manual THEN "complete" ELSE "live"

Terminate(u) ==
    /\ phase = "live"
    /\ phase' = "terminated"
    /\ work' = [m \in Manual |-> IF work[m].completed THEN work[m]
                                 ELSE ClosedBy(u)]
    /\ UNCHANGED finished

Next ==
    \/ \E u \in Users, m \in Manual : Claim(u, m) \/ Complete(u, m)
    \/ \E u \in Users : Terminate(u)

Spec == Init /\ [][Next]_vars
=============================================================================

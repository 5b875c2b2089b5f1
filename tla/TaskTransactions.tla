-------------------------- MODULE TaskTransactions --------------------------
(***************************************************************************)
(* Sessions that claim and complete the parallel manual tasks of one       *)
(* process instance, or terminate it, at the same time.  Every session is  *)
(* a READ COMMITTED transaction: a SELECT sees the latest committed row,   *)
(* an UPDATE waits for the row lock and keeps it to the end, and the ORM   *)
(* writes only the columns whose value differs from the one it had read.   *)
(* There are no version columns.  What a session has written but not       *)
(* committed is visible to nobody else, so writes take effect at commit.   *)
(***************************************************************************)
EXTENDS FiniteSets

CONSTANTS
    Users, NoUser,
    Manual,     \* the manual tasks, all READY when the instance has started
    Sessions,   \* the sessions
    NoSession,
    Writers,    \* the sessions that complete tasks or terminate the instance
    Instance    \* the rows every writer updates: instance, process, definition

ASSUME SessionAssumption ==
    /\ NoUser \notin Users
    /\ NoSession \notin Sessions
    /\ Writers \subseteq Sessions
    /\ Instance \notin Manual

VARIABLES
    status,     \* committed process_instance.status
    done,       \* the manual tasks completed in the committed workflow state
    item,       \* committed work_item rows
    lock,       \* row -> the session that holds its lock
    stage,      \* where each session is
    user, task, \* the arguments of its command
    seenStatus, seenDone, seenItem, \* what it has read
    fetched     \* the work items it has read

db == <<status, done, item>>
mem == <<user, task, seenStatus, seenDone, seenItem, fetched>>
vars == <<db, lock, stage, mem>>

Ended == {"complete", "terminated"}

Item == [completed : BOOLEAN, owner : Users \cup {NoUser},
         by : Users \cup {NoUser}]

Stage == {"idle", "claim", "claimed", "complete", "loaded", "flush", "own",
          "persist", "terminate", "close", "closing"}

Free == [completed |-> FALSE, owner |-> NoUser, by |-> NoUser]

ClosedBy(u) == [completed |-> TRUE, owner |-> u, by |-> u]

\* Every committed row, lock and session-local copy has its type.
TypeOK ==
    /\ status \in Ended \cup {"live"}
    /\ done \in SUBSET Manual
    /\ item \in [Manual -> Item]
    /\ lock \in [Manual \cup {Instance} -> Sessions \cup {NoSession}]
    /\ stage \in [Sessions -> Stage]
    /\ user \in [Sessions -> Users]
    /\ task \in [Sessions -> Manual]
    /\ seenStatus \in [Sessions -> Ended \cup {"live"}]
    /\ seenDone \in [Sessions -> SUBSET Manual]
    /\ seenItem \in [Sessions -> [Manual -> Item]]
    /\ fetched \in [Sessions -> SUBSET Manual]

Init ==
    /\ status = "live"
    /\ done = {}
    /\ item = [m \in Manual |-> Free]
    /\ lock = [r \in Manual \cup {Instance} |-> NoSession]
    /\ stage = [w \in Sessions |-> "idle"]
    /\ user \in [Sessions -> Users]
    /\ task \in [Sessions -> Manual]
    /\ seenStatus = [w \in Sessions |-> "live"]
    /\ seenDone = [w \in Sessions |-> {}]
    /\ seenItem = [w \in Sessions |-> item]
    /\ fetched = [w \in Sessions |-> {}]

-----------------------------------------------------------------------------
(***************************************************************************)
(* Transactions.                                                           *)
(***************************************************************************)

Goto(w, s) == stage' = [stage EXCEPT ![w] = s]

Lock(w, r) ==
    /\ lock[r] = NoSession
    /\ lock' = [lock EXCEPT ![r] = w]

\* COMMIT or ROLLBACK
End(w) ==
    /\ Goto(w, "idle")
    /\ lock' = [r \in DOMAIN lock |-> IF lock[r] = w THEN NoSession
                                      ELSE lock[r]]

\* The value of a column after the flush of an ORM object.
Column(stored, loaded, assigned) ==
    IF assigned = loaded THEN stored ELSE assigned

Row(stored, loaded, assigned) ==
    [completed |-> Column(stored.completed, loaded.completed,
                          assigned.completed),
     owner |-> Column(stored.owner, loaded.owner, assigned.owner),
     by |-> Column(stored.by, loaded.by, assigned.by)]

\* A failed command, a lost connection, a crash, or the victim of PostgreSQL's
\* deadlock detection: the transaction leaves nothing behind.
Abort(w) ==
    /\ stage[w] # "idle"
    /\ End(w)
    /\ UNCHANGED <<db, mem>>

-----------------------------------------------------------------------------
(***************************************************************************)
(* claim_task                                                              *)
(***************************************************************************)

Claimable(u, m) ==
    /\ ~item[m].completed
    /\ item[m].owner \in {NoUser, u}

\* The checks on the row as loaded; the user is a potential owner.
BeginClaim(w, u, m) ==
    /\ stage[w] = "idle"
    /\ Claimable(u, m)
    /\ user' = [user EXCEPT ![w] = u]
    /\ task' = [task EXCEPT ![w] = m]
    /\ Goto(w, "claim")
    /\ UNCHANGED <<db, lock, seenStatus, seenDone, seenItem, fetched>>

\* Mutant: an update by primary key, without the compare-and-set condition.
UpdateClaimBlindly(w) ==
    /\ stage[w] = "claim"
    /\ Lock(w, task[w])
    /\ Goto(w, "claimed")
    /\ UNCHANGED <<db, mem>>

\* The compare-and-set; it waits for the row and evaluates its WHERE clause
\* on what is committed by then.  rowcount = 0 raises InvalidStateError.
UpdateClaim(w) ==
    /\ stage[w] = "claim"
    /\ lock[task[w]] = NoSession
    /\ IF Claimable(user[w], task[w])
       THEN Lock(w, task[w]) /\ Goto(w, "claimed")
       ELSE End(w)
    /\ UNCHANGED <<db, mem>>

\* task_updated_at of the instance is flushed, then the caller commits.
CommitClaim(w) ==
    /\ stage[w] = "claimed"
    /\ lock[Instance] = NoSession
    /\ item' = [item EXCEPT ![task[w]].owner = user[w]]
    /\ End(w)
    /\ UNCHANGED <<status, done, mem>>

-----------------------------------------------------------------------------
(***************************************************************************)
(* complete_task and advance_process_instance_workflow                     *)
(***************************************************************************)

\* The checks on the row as loaded.
BeginComplete(w, u, m) ==
    /\ w \in Writers
    /\ stage[w] = "idle"
    /\ ~item[m].completed
    /\ item[m].owner = u
    /\ user' = [user EXCEPT ![w] = u]
    /\ task' = [task EXCEPT ![w] = m]
    /\ seenItem' = [seenItem EXCEPT ![w][m] = item[m]]
    /\ fetched' = [fetched EXCEPT ![w] = {m}]
    /\ Goto(w, "complete")
    /\ UNCHANGED <<db, lock, seenStatus, seenDone>>

\* The process_instance row is loaded.
LoadInstance(w) ==
    /\ stage[w] = "complete"
    /\ seenStatus' = [seenStatus EXCEPT ![w] = status]
    /\ Goto(w, "loaded")
    /\ UNCHANGED <<db, lock, user, task, seenDone, seenItem, fetched>>

\* The serialized workflow is restored, the task completed in it, and the
\* workflow run, all in memory.
LoadWorkflow(w) ==
    /\ stage[w] = "loaded"
    /\ seenDone' = [seenDone EXCEPT ![w] = done]
    /\ Goto(w, "flush")
    /\ UNCHANGED <<db, lock, user, task, seenStatus, seenItem, fetched>>

\* The first flush updates the definition and instance rows ...
FlushInstance(w) ==
    /\ stage[w] = "flush"
    /\ Lock(w, Instance)
    /\ Goto(w, "own")
    /\ UNCHANGED <<db, mem>>

\* ... and then the work item being completed.
FlushOwn(w) ==
    /\ stage[w] = "own"
    /\ Lock(w, task[w])
    /\ Goto(w, "persist")
    /\ UNCHANGED <<db, mem>>

\* The tasks the session's copy of the workflow has completed.
DoneHere(w) == seenDone[w] \cup {task[w]}

\* The rows the flushes of session w write; an instance that was loaded in a
\* terminal status is not advanced.
Written(w) ==
    IF stage[w] = "closing" THEN {x \in Manual : ~seenItem[w][x].completed}
    ELSE IF seenStatus[w] \in Ended THEN {task[w]}
    ELSE {task[w]} \cup {x \in Manual : \/ x \notin DoneHere(w)
                                        \/ ~seenItem[w][x].completed}

\* _sync_inactive_work_items and _upsert_work_item read the other work items.
FetchItem(w, x) ==
    /\ stage[w] = "persist"
    /\ seenStatus[w] \notin Ended
    /\ x \in Manual \ fetched[w]
    /\ seenItem' = [seenItem EXCEPT ![w][x] = item[x]]
    /\ fetched' = [fetched EXCEPT ![w] = @ \cup {x}]
    /\ UNCHANGED <<db, lock, stage, user, task, seenStatus, seenDone>>

\* A row that was read is flushed with the values assigned to it.
FlushItem(w, x) ==
    /\ stage[w] \in {"persist", "closing"}
    /\ x \in fetched[w] \cap Written(w)
    /\ Lock(w, x)
    /\ UNCHANGED <<db, stage, mem>>

\* The values complete_work_item, close_work_item (for a task that is over in
\* the workflow) and prepare_work_item_for_ready_state assign.
Assigned(w, x) ==
    IF x = task[w] THEN ClosedBy(user[w])
    ELSE IF x \in DoneHere(w)
    THEN [completed |-> TRUE, owner |-> seenItem[w][x].owner, by |-> NoUser]
    ELSE Free

Flushed(w) ==
    /\ seenStatus[w] \in Ended \/ fetched[w] = Manual
    /\ \A x \in Written(w) : lock[x] = w

\* Mutant: the session's copy of the workflow is stored without its new task.
CommitCompleteUnsaved(w) ==
    /\ stage[w] = "persist"
    /\ Flushed(w)
    /\ item' = [x \in Manual |->
                   IF x \in Written(w)
                   THEN Row(item[x], seenItem[w][x], Assigned(w, x))
                   ELSE item[x]]
    /\ End(w)
    /\ UNCHANGED <<status, done, mem>>

\* The rest of the flushes, and the caller's commit.
CommitComplete(w) ==
    /\ stage[w] = "persist"
    /\ Flushed(w)
    /\ item' = [x \in Manual |->
                   IF x \in Written(w)
                   THEN Row(item[x], seenItem[w][x], Assigned(w, x))
                   ELSE item[x]]
    /\ IF seenStatus[w] \in Ended
       THEN UNCHANGED <<status, done>>
       ELSE /\ done' = DoneHere(w)
            /\ status' = Column(status, seenStatus[w],
                                IF DoneHere(w) = Manual THEN "complete"
                                ELSE "live")
    /\ End(w)
    /\ UNCHANGED mem

-----------------------------------------------------------------------------
(***************************************************************************)
(* terminate_process_instance                                              *)
(***************************************************************************)

BeginTerminate(w, u) ==
    /\ w \in Writers
    /\ stage[w] = "idle"
    /\ status \notin Ended
    /\ user' = [user EXCEPT ![w] = u]
    /\ seenStatus' = [seenStatus EXCEPT ![w] = status]
    /\ Goto(w, "terminate")
    /\ UNCHANGED <<db, lock, task, seenDone, seenItem, fetched>>

\* process_instance.work_items is loaded.
LoadItems(w) ==
    /\ stage[w] = "terminate"
    /\ seenItem' = [seenItem EXCEPT ![w] = item]
    /\ fetched' = [fetched EXCEPT ![w] = Manual]
    /\ Goto(w, "close")
    /\ UNCHANGED <<db, lock, user, task, seenStatus, seenDone>>

FlushTerminated(w) ==
    /\ stage[w] = "close"
    /\ Lock(w, Instance)
    /\ Goto(w, "closing")
    /\ UNCHANGED <<db, mem>>

\* Mutant: claimed work items are left open.
CommitTerminateUnclaimed(w) ==
    /\ stage[w] = "closing"
    /\ Flushed(w)
    /\ status' = Column(status, seenStatus[w], "terminated")
    /\ item' = [x \in Manual |->
                   IF x \in Written(w) /\ seenItem[w][x].owner = NoUser
                   THEN Row(item[x], seenItem[w][x], ClosedBy(user[w]))
                   ELSE item[x]]
    /\ End(w)
    /\ UNCHANGED <<done, mem>>

CommitTerminate(w) ==
    /\ stage[w] = "closing"
    /\ Flushed(w)
    /\ status' = Column(status, seenStatus[w], "terminated")
    /\ item' = [x \in Manual |->
                   IF x \in Written(w)
                   THEN Row(item[x], seenItem[w][x], ClosedBy(user[w]))
                   ELSE item[x]]
    /\ End(w)
    /\ UNCHANGED <<done, mem>>

-----------------------------------------------------------------------------
Step(w) ==
    \/ \E u \in Users, m \in Manual : BeginClaim(w, u, m)
    \/ UpdateClaim(w)
    \/ CommitClaim(w)
    \/ \E u \in Users, m \in Manual : BeginComplete(w, u, m)
    \/ LoadInstance(w)
    \/ LoadWorkflow(w)
    \/ FlushInstance(w)
    \/ FlushOwn(w)
    \/ \E x \in Manual : FetchItem(w, x)
    \/ \E x \in Manual : FlushItem(w, x)
    \/ CommitComplete(w)
    \/ \E u \in Users : BeginTerminate(w, u)
    \/ LoadItems(w)
    \/ FlushTerminated(w)
    \/ CommitTerminate(w)
    \/ Abort(w)

Next == \E w \in Sessions : Step(w)

Spec == Init /\ [][Next]_vars

-----------------------------------------------------------------------------
(***************************************************************************)
(* Properties.                                                             *)
(***************************************************************************)

\* Whatever the sessions do, an open work item never passes from one user to
\* another: the compare-and-set of claim_task lets one of two claims win.
ClaimIsExclusive ==
    [][\A m \in Manual :
          (/\ item[m].owner # NoUser
           /\ item'[m].owner # NoUser
           /\ ~item'[m].completed) => item'[m].owner = item[m].owner]_vars

\* A claim that has passed its compare-and-set will not be refuted: the row
\* lock keeps the work item claimable until the claim commits.
ClaimHolds ==
    \A w \in Sessions :
        stage[w] = "claimed" =>
            /\ lock[task[w]] = w
            /\ Claimable(user[w], task[w])

\* The tables agree: outside a termination the completed work items are those
\* of the tasks the stored workflow has completed, and an ended instance
\* offers no work.
WorkAgrees ==
    /\ status # "terminated" =>
          \A m \in Manual : item[m].completed <=> m \in done
    /\ status \in Ended => \A m \in Manual : item[m].completed

Contract == INSTANCE WorkItemContract
              WITH phase <- status, finished <- done, work <- item

\* Seen by its committed rows, the system does what the contract says.
ImplementsContract == Contract!Spec

-----------------------------------------------------------------------------
(***************************************************************************)
(* Statements of the documentation that concurrent writers break.          *)
(***************************************************************************)

\* A task somebody completed stays completed.
CompletionIsNotLost ==
    [][\A m \in Manual : m \in done => m \in done']_vars
=============================================================================

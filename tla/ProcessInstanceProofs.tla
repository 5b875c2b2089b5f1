----------------------- MODULE ProcessInstanceProofs -----------------------
(***************************************************************************)
(* Proofs, for every process diagram, set of users and set of durations,   *)
(* of the safety properties of ProcessInstance.                            *)
(***************************************************************************)
EXTENDS ProcessInstance, TLAPS

-----------------------------------------------------------------------------
(***************************************************************************)
(* What else it takes to make the invariants inductive.                    *)
(***************************************************************************)

\* An instance put in error without a failed service task still has the work
\* items of its READY tasks, so that a plain retry can reopen them.
Reopenable ==
    (status = "error" /\ ~Failed(state)) =>
        \A m \in Manual : state[m] = "READY" => item[m].status # "NONE"

\* An instance that waits for timers or users has a stored workflow to resume.
WaitsOnStoredWorkflow ==
    status \in {"waiting", "user_input_required"} => initialized

-----------------------------------------------------------------------------
(***************************************************************************)
(* What the helpers return.                                                *)
(***************************************************************************)

\* Entering tasks yields a workflow state, and moves no other task.
LEMMA MoveType ==
    ASSUME NEW s0 \in [Task -> EngineState], NEW entered, NEW failing
    PROVE  /\ Move(s0, entered, failing) \in [Task -> EngineState]
           /\ \A t \in Task :
                 Move(s0, entered, failing)[t] =
                     IF t \in entered THEN Entered(t, failing) ELSE s0[t]
<1>1. \A t \in Task : Entered(t, failing) \in EngineState
  BY Zenon DEF Entered, EngineState, Settled
<1> QED BY <1>1, Zenon DEF Move

\* The engine operators map workflow states to workflow states.
LEMMA EngineType ==
    ASSUME TypeOK
    PROVE  /\ \A m \in Manual : \A woken : Complete(m, woken) \in [Task -> EngineState]
           /\ \A F : RefreshWaiting(F) \in [Task -> EngineState]
           /\ ResetErrored \in [Task -> EngineState]
           /\ \A s0 \in [Task -> EngineState] :
                 RunAll(s0) \subseteq [Task -> EngineState]
<1>1. \A m \in Manual : \A woken : Complete(m, woken) \in [Task -> EngineState]
  BY Zenon DEF TypeOK, Complete, EngineState, Settled, Task
<1>2. \A F : RefreshWaiting(F) \in [Task -> EngineState]
  BY Zenon DEF TypeOK, RefreshWaiting, EngineState, Settled
<1>3. ResetErrored \in [Task -> EngineState]
  BY Zenon DEF TypeOK, ResetErrored, EngineState, Settled
<1>4. \A s0 \in [Task -> EngineState] :
         RunAll(s0) \subseteq [Task -> EngineState]
  BY MoveType DEF RunAll
<1> QED BY <1>1, <1>2, <1>3, <1>4, Zenon

\* A run only moves FUTURE tasks; manual tasks become READY, timers wait.
LEMMA RunAllMoves ==
    ASSUME NEW s0 \in [Task -> EngineState], NEW s \in RunAll(s0), NEW t \in Task
    PROVE  /\ s0[t] # "FUTURE" => s[t] = s0[t]
           /\ t \in Manual /\ s0[t] = "FUTURE" => s[t] \in {"FUTURE", "READY"}
           /\ t \in Timer /\ s0[t] = "FUTURE" => s[t] \in {"FUTURE", "WAITING"}
<1>1. PICK entered \in SUBSET {x \in Task : s0[x] = "FUTURE"},
           failing \in SUBSET Service : s = Move(s0, entered, failing)
  BY DEF RunAll
<1>2. s[t] = IF t \in entered THEN Entered(t, failing) ELSE s0[t]
  BY <1>1, MoveType
<1>3. s0[t] # "FUTURE" => t \notin entered
  BY <1>1, Zenon
<1> QED BY <1>2, <1>3, TaskAssumption, Zenon DEF Entered

\* s0 keeps what is over in the stored workflow, apart from a cancelled task
\* that counts as done after all, and leaves READY manual tasks READY or
\* settled.
Prepared(s0) ==
    /\ s0 \in [Task -> EngineState]
    /\ \A t \in Task :
          state[t] \in Settled =>
             \/ s0[t] = state[t]
             \/ state[t] = "CANCELLED" /\ s0[t] = "REDONE"
    /\ \A m \in Manual : state[m] = "READY" => s0[m] \in Settled \cup {"READY"}

\* Completing a task settles it and takes no other task back.
LEMMA CompletePrepares ==
    ASSUME TypeOK, NEW m \in Manual, NEW woken \in SUBSET Overdue(m)
    PROVE  /\ Prepared(Complete(m, woken))
           /\ Complete(m, woken)[m] \in Settled
           /\ \A t \in Task \ {m} :
                 state[t] \in Settled => Complete(m, woken)[t] = state[t]
<1>1. Complete(m, woken) \in [Task -> EngineState]
  BY EngineType, Zenon
<1>2. m \in Task /\ m \notin Timer
  BY TaskAssumption, Zenon DEF Task
<1>3. Complete(m, woken)[m] =
         IF state[m] \in {"CANCELLED", "REDONE"} THEN "REDONE" ELSE "COMPLETED"
  BY <1>2, Zenon DEF Complete
<1>4. \A t \in Task \ {m} :
         state[t] # "WAITING" => Complete(m, woken)[t] = state[t]
  BY Zenon DEF Complete, Overdue, Elapsed
<1>5. \A t \in Task \ {m} :
         state[t] \in Settled \cup {"READY"} => Complete(m, woken)[t] = state[t]
  BY <1>4, Zenon DEF Settled
<1>6. /\ Complete(m, woken)[m] \in Settled
      /\ state[m] \in Settled =>
            \/ Complete(m, woken)[m] = state[m]
            \/ state[m] = "CANCELLED" /\ Complete(m, woken)[m] = "REDONE"
  BY <1>3 DEF Settled
<1> QED BY <1>1, <1>2, <1>5, <1>6, Zenon DEF Prepared, Task

\* Firing timers and resetting failed service tasks take no settled task back.
LEMMA RefreshKeepsSettled ==
    ASSUME TypeOK
    PROVE  /\ \A F \in Firings :
                 /\ Prepared(RefreshWaiting(F))
                 /\ \A t \in Task :
                       state[t] \in Settled => RefreshWaiting(F)[t] = state[t]
           /\ Prepared(ResetErrored)
           /\ \A t \in Task : state[t] \in Settled => ResetErrored[t] = state[t]
<1>1. \A F \in Firings, t \in Task :
         /\ state[t] \in Settled => RefreshWaiting(F)[t] = state[t]
         /\ state[t] = "READY" => RefreshWaiting(F)[t] \in Settled \cup {"READY"}
  BY Zenon DEF RefreshWaiting, Interrupted, Firings, Elapsed, Settled
<1>2. \A t \in Task :
         /\ state[t] \in Settled => ResetErrored[t] = state[t]
         /\ state[t] = "READY" => ResetErrored[t] = "READY"
  BY Zenon DEF ResetErrored, Settled
<1> QED BY <1>1, <1>2, EngineType, Zenon DEF Prepared, Task

\* The due dates of a saved workflow are naturals.
LEMMA DueType ==
    ASSUME TypeOK, NEW s
    PROVE  DueOf(s) \in [Timer -> Nat]
  BY TimeAssumption, Zenon DEF TypeOK, DueOf

\* The work item helpers return work items.
LEMMA ItemType ==
    ASSUME NEW its \in [Manual -> Item], NEW s \in [Task -> EngineState],
           NEW u \in Users \cup {NoUser}
    PROVE  /\ SyncInactive(its, s) \in [Manual -> Item]
           /\ MaterializeReady(its, s) \in [Manual -> Item]
           /\ CloseItems(its, u) \in [Manual -> Item]
<1>1. ReadyItem \in Item
  BY Zenon DEF ReadyItem, Item, ItemState
<1>2. \A i \in Item, c \in ItemState : CloseWorkItem(i, c, u) \in Item
  BY Zenon DEF CloseWorkItem, Item
<1>3. \A i \in Item, e \in EngineState : CloseInactive(i, e) \in Item
  BY Zenon DEF CloseInactive, CloseWorkItem, Item, ItemState, EngineState, Settled
<1>4. SyncInactive(its, s) \in [Manual -> Item]
  BY <1>3, Zenon DEF SyncInactive, Task
<1>5. MaterializeReady(its, s) \in [Manual -> Item]
  BY <1>1, Zenon DEF MaterializeReady
<1>6. CloseItems(its, u) \in [Manual -> Item]
  BY <1>2, Zenon DEF CloseItems, ItemState
<1> QED BY <1>4, <1>5, <1>6, Zenon

\* Rows derived from rows or from a workflow state are rows.
LEMMA RowType ==
    ASSUME NEW r \in [Task -> RowState]
    PROVE  CloseRows(r) \in [Task -> RowState]
  BY Zenon DEF CloseRows, RowState

\* The rows of a workflow state say COMPLETED only of settled tasks.
LEMMA TaskRowsType ==
    ASSUME NEW s \in [Task -> EngineState]
    PROVE  /\ TaskRows(s) \in [Task -> RowState]
           /\ \A t \in Task : TaskRows(s)[t] = "COMPLETED" => s[t] \in Settled
<1>1. \A t \in Task : s[t] # "REDONE" => s[t] \in RowState
  BY Zenon DEF RowState
<1>2. "COMPLETED" \in RowState
  BY Zenon DEF RowState, EngineState, Settled
<1> QED BY <1>1, <1>2, Zenon DEF TaskRows, Settled

\* Synchronising the timer job leaves no job or a natural run_at, which is the
\* earliest due date of the saved workflow.
LEMMA SyncTimerJobType ==
    ASSUME TypeOK, NEW s, SyncTimerJob(s)
    PROVE  /\ timerJob' \in Nat \cup {NoJob}
           /\ (\A t \in Timer : s[t] # "WAITING") => timerJob' = NoJob
           /\ (\E t \in Timer : s[t] = "WAITING") =>
                 /\ \E t \in Timer : s[t] = "WAITING" /\ timerJob' = DueOf(s)[t]
                 /\ \A t \in Timer : s[t] = "WAITING" => timerJob' <= DueOf(s)[t]
  BY DueType DEF SyncTimerJob

-----------------------------------------------------------------------------
(***************************************************************************)
(* What the shared tails of the commands establish.                        *)
(***************************************************************************)

\* s is a later workflow state than the stored one.
Advances(s) ==
    /\ s \in [Task -> EngineState]
    /\ \A t \in Task : state[t] \in Settled => s[t] \in Settled
    /\ \A t \in Task : state[t] = "COMPLETED" => s[t] = "COMPLETED"
    /\ \A m \in Manual : state[m] = "READY" => s[m] \in Settled \cup {"READY"}

\* A run changes nothing of what is settled or READY.
LEMMA RunKeeps ==
    ASSUME NEW s0 \in [Task -> EngineState], NEW s \in RunAll(s0), NEW t \in Task,
           s0[t] \in Settled \cup {"READY"}
    PROVE  s[t] = s0[t]
  BY RunAllMoves, Zenon DEF Settled

\* Every run the runtime starts leads to a later workflow state.
LEMMA RunsAdvance ==
    ASSUME TypeOK, NEW s0 \in [Task -> EngineState], NEW s \in RunAll(s0),
           \/ s0 = state
           \/ \E m \in Manual : \E woken \in SUBSET Overdue(m) :
                 s0 = Complete(m, woken)
           \/ \E F \in Firings : s0 = RefreshWaiting(F)
           \/ s0 = ResetErrored
    PROVE  Advances(s)
<1>1. s \in [Task -> EngineState]
  BY EngineType, Zenon
<1>2. Prepared(s0)
  <2>1. CASE s0 = state
    BY <2>1, Zenon DEF Prepared
  <2>2. CASE s0 # state
    BY <2>2, CompletePrepares, RefreshKeepsSettled, Zenon
  <2> QED BY <2>1, <2>2, Zenon
<1>3. \A t \in Task :
         /\ state[t] \in Settled => s0[t] \in Settled
         /\ state[t] = "COMPLETED" => s0[t] = "COMPLETED"
  BY <1>2, Zenon DEF Prepared, Settled
<1>4. \A t \in Task : s0[t] \in Settled \cup {"READY"} => s[t] = s0[t]
  BY RunKeeps, Zenon
<1>5. \A t \in Task : s0[t] = "COMPLETED" => s0[t] \in Settled
  BY Zenon DEF Settled
<1>6. \A m \in Manual : state[m] = "READY" => s0[m] \in Settled \cup {"READY"}
  BY <1>2, Zenon DEF Prepared
<1> QED BY <1>1, <1>3, <1>4, <1>5, <1>6, Zenon DEF Advances, Task

\* A completed task is over in every state its completion can run to.
LEMMA CompleteSettles ==
    ASSUME TypeOK, NEW m \in Manual, NEW woken \in SUBSET Overdue(m),
           NEW s \in RunAll(Complete(m, woken))
    PROVE  s[m] \in Settled
<1>1. Complete(m, woken)[m] \in Settled
  BY CompletePrepares, Zenon
<1>2. s[m] = Complete(m, woken)[m]
  BY <1>1, EngineType, RunKeeps, Zenon DEF Task
<1> QED BY <1>1, <1>2, Zenon

\* A work item whose task is not READY is closed, as the task's state or as
\* TERMINATED, and is not touched when it was closed before.
LEMMA CloseInactiveCloses ==
    ASSUME NEW i, NEW e \in EngineState
    PROVE  /\ ~Open(i) => CloseInactive(i, e) = i
           /\ Open(i) => \/ CloseInactive(i, e).status = e /\ e \in Settled \cup {"ERROR"}
                         \/ CloseInactive(i, e).status = "COMPLETED" /\ e = "REDONE"
                         \/ CloseInactive(i, e).status = "TERMINATED"
           /\ ~Open(CloseInactive(i, e))
<1>1. \A c : CloseWorkItem(i, c, NoUser).status = c
  BY Zenon DEF CloseWorkItem
<1>2. CASE ~Open(i)
  BY <1>2, Zenon DEF CloseInactive
<1>3. CASE Open(i) /\ e \in Settled \cup {"ERROR"} /\ e # "REDONE"
  <2>1. CloseInactive(i, e) = CloseWorkItem(i, e, NoUser)
    BY <1>3, Zenon DEF CloseInactive
  <2> QED BY <1>1, <1>3, <2>1, Zenon DEF Open, Settled
<1>4. CASE Open(i) /\ e \notin Settled \cup {"ERROR"}
  <2>1. CloseInactive(i, e) = CloseWorkItem(i, "TERMINATED", NoUser)
    BY <1>4, Zenon DEF CloseInactive, Settled
  <2> QED BY <1>1, <1>4, <2>1, Zenon DEF Open
<1>5. CASE Open(i) /\ e = "REDONE"
  <2>1. CloseInactive(i, e) = CloseWorkItem(i, "COMPLETED", NoUser)
    BY <1>5, Zenon DEF CloseInactive
  <2>2. CloseInactive(i, e).status = "COMPLETED"
    BY <1>1, <2>1, Zenon
  <2> QED BY <1>5, <2>2, Zenon DEF Open
<1> QED BY <1>2, <1>3, <1>4, <1>5, Zenon

\* The conjuncts that saving a successful run establishes by itself.
LEMMA SaveProgressEstablishes ==
    ASSUME TypeOK, NEW s \in [Task -> EngineState], NEW its \in [Manual -> Item],
           ~Failed(s),
           \A m \in Manual : its[m].status # "NONE" => s[m] \in Settled \cup {"READY"},
           SaveProgress(s, its)
    PROVE  /\ status' \in {"complete", "user_input_required", "waiting", "running"}
           /\ initialized' \in BOOLEAN
           /\ state' \in [Task -> EngineState]
           /\ due' \in [Timer -> Nat]
           /\ row' \in [Task -> RowState]
           /\ item' \in [Manual -> Item]
           /\ timerJob' \in Nat \cup {NoJob}
           /\ EndedMeansClosed'
           /\ FailureIsVisible'
           /\ NoLostWork'
           /\ NoPhantomCompletion'
           /\ TimerJobCurrent'
           /\ ItemIsEntered'
           /\ Reopenable'
           /\ WaitsOnStoredWorkflow'
<1>1. status' \in {"complete", "user_input_required", "waiting", "running"}
  BY Zenon DEF SaveProgress, StatusFromWorkflow
<1>2. /\ initialized' \in BOOLEAN
      /\ state' = s
      /\ due' = DueOf(s)
      /\ due' \in [Timer -> Nat]
      /\ row' = TaskRows(s)
  BY DueType, Zenon DEF SaveProgress, SaveBlob
<1>3. row' \in [Task -> RowState]
  BY <1>2, TaskRowsType, Zenon
<1>4. item' \in [Manual -> Item]
  BY ItemType, Zenon DEF SaveProgress
<1>5. timerJob' \in Nat \cup {NoJob}
  BY SyncTimerJobType, Zenon DEF SaveProgress
<1>6. \A m \in Manual :
          /\ s[m] = "READY" => item'[m] = ReadyItem
          /\ s[m] # "READY" => item'[m] = CloseInactive(its[m], s[m])
  BY Zenon DEF SaveProgress, MaterializeReady, SyncInactive
<1>7. \A m \in Manual : s[m] # "READY" => ~Open(item'[m])
  BY <1>6, CloseInactiveCloses DEF Task
<1>8. EndedMeansClosed'
  <2>1. status' \in Terminal => \A m \in Manual : s[m] # "READY"
    BY Zenon DEF SaveProgress, StatusFromWorkflow, Completed, Terminal, Settled, Task
  <2> QED BY <2>1, <1>7, Zenon DEF EndedMeansClosed
<1>9. FailureIsVisible'
  BY <1>2, Zenon DEF FailureIsVisible, Failed
<1>10. NoLostWork'
  BY <1>2, <1>6 DEF NoLostWork, ReadyItem, Open
<1>11. NoPhantomCompletion'
  <2> SUFFICES ASSUME NEW m \in Manual,
                      row'[m] = "COMPLETED" \/ item'[m].status = "COMPLETED"
               PROVE  s[m] \in Settled
    BY <1>2, Zenon DEF NoPhantomCompletion
  <2>1. CASE row'[m] = "COMPLETED"
    BY <1>2, <2>1, TaskRowsType, Zenon DEF Task
  <2>2. CASE item'[m].status = "COMPLETED"
    <3>1. s[m] # "READY"
      BY <2>2, <1>6 DEF ReadyItem
    <3>2. its[m].status = "COMPLETED" \/ s[m] \in {"COMPLETED", "REDONE"}
      BY <2>2, <3>1, <1>6, CloseInactiveCloses DEF Task
    <3> QED BY <3>1, <3>2, Zenon DEF Settled
  <2> QED BY <2>1, <2>2, Zenon
<1>12. TimerJobCurrent'
  BY <1>2, SyncTimerJobType, Zenon DEF SaveProgress, TimerJobCurrent, Waiting
<1>13. ItemIsEntered'
  <2> SUFFICES ASSUME NEW m \in Manual, item'[m].status # "NONE",
                      s[m] # "READY"
               PROVE  s[m] \in Settled \cup {"READY"}
    BY <1>2, Zenon DEF ItemIsEntered
  <2>1. its[m].status # "NONE"
    BY <1>6, CloseInactiveCloses DEF Open, Task
  <2> QED BY <2>1, Zenon
<1>14. Reopenable' /\ WaitsOnStoredWorkflow'
  BY <1>1, Zenon DEF Reopenable, WaitsOnStoredWorkflow, SaveProgress, SaveBlob
<1> QED BY Zenon, <1>1, <1>2, <1>3, <1>4, <1>5, <1>8, <1>9, <1>10, <1>11, <1>12,
           <1>13, <1>14

\* Closing work items leaves none open, and neither creates an item nor makes
\* one COMPLETED.
LEMMA CloseItemsCloses ==
    ASSUME NEW its \in [Manual -> Item], NEW u \in Users \cup {NoUser},
           NEW m \in Manual
    PROVE  /\ ~Open(CloseItems(its, u)[m])
           /\ CloseItems(its, u)[m].status = "NONE" <=> its[m].status = "NONE"
           /\ CloseItems(its, u)[m].status = "COMPLETED"
                 <=> its[m].status = "COMPLETED"
  BY Zenon DEF CloseItems, CloseWorkItem, Open

\* The conjuncts that the error transition after a failed run establishes,
\* from the blob, rows and work items it leaves.
LEMMA FailureEstablishes ==
    ASSUME TypeOK, NEW s \in [Task -> EngineState], NEW its \in [Manual -> Item],
           NEW r \in [Task -> RowState],
           Failed(s),
           \A m \in Manual : its[m].status # "NONE" => s[m] \in Settled \cup {"READY"},
           \A m \in Manual : its[m].status = "COMPLETED" => s[m] \in Settled,
           \A m \in Manual : r[m] = "COMPLETED" => s[m] \in Settled,
           SaveBlob(s),
           status' = "error", lastEvent' = "error",
           row' = CloseRows(r), item' = CloseItems(its, NoUser)
    PROVE  /\ status' \in Status
           /\ initialized' \in BOOLEAN
           /\ state' \in [Task -> EngineState]
           /\ due' \in [Timer -> Nat]
           /\ row' \in [Task -> RowState]
           /\ item' \in [Manual -> Item]
           /\ lastEvent' \in Event
           /\ EndedMeansClosed'
           /\ FailureIsVisible'
           /\ NoLostWork'
           /\ NoPhantomCompletion'
           /\ TimerJobCurrent'
           /\ RetryJobNeedsError'
           /\ AuditMatchesStatus'
           /\ ItemIsEntered'
           /\ Reopenable'
           /\ WaitsOnStoredWorkflow'
<1>1. /\ initialized' \in BOOLEAN
      /\ state' = s
      /\ due' \in [Timer -> Nat]
  BY DueType, Zenon DEF SaveBlob
<1>2. /\ row' \in [Task -> RowState]
      /\ item' \in [Manual -> Item]
  BY RowType, ItemType, Zenon
<1>3. EndedMeansClosed' /\ NoLostWork'
  BY CloseItemsCloses, Zenon DEF EndedMeansClosed, NoLostWork, Terminal
<1>4. \A m \in Manual : row'[m] = "COMPLETED" => r[m] = "COMPLETED"
  BY Zenon DEF CloseRows, Task
<1>5. NoPhantomCompletion' /\ ItemIsEntered'
  BY <1>1, <1>4, CloseItemsCloses DEF NoPhantomCompletion, ItemIsEntered
<1>6. Failed(state')
  BY <1>1, Zenon
<1>7. FailureIsVisible' /\ TimerJobCurrent' /\ RetryJobNeedsError'
         /\ AuditMatchesStatus' /\ Reopenable' /\ WaitsOnStoredWorkflow'
  BY <1>6, Zenon DEF FailureIsVisible, TimerJobCurrent, RetryJobNeedsError,
              AuditMatchesStatus, Reopenable, WaitsOnStoredWorkflow, Failed
<1>8. status' \in Status /\ lastEvent' \in Event
  BY Zenon DEF Status, Terminal, Event
<1> QED BY <1>1, <1>2, <1>3, <1>5, <1>7, <1>8, Zenon

-----------------------------------------------------------------------------
(***************************************************************************)
(* The inductive invariant and its preservation, one lemma per action.     *)
(***************************************************************************)
IInv ==
    /\ TypeOK
    /\ EndedMeansClosed
    /\ FailureIsVisible
    /\ NoLostWork
    /\ NoPhantomCompletion
    /\ TimerJobCurrent
    /\ RetryJobNeedsError
    /\ AuditMatchesStatus
    /\ ItemIsEntered
    /\ Reopenable
    /\ WaitsOnStoredWorkflow

\* A failed run committed by the independent session preserves the invariant.
LEMMA CommitFailurePreserves ==
    ASSUME IInv, NEW s, Advances(s), Failed(s), CommitFailure(s)
    PROVE  IInv'
<1>1. \A m \in Manual : state[m] \in Settled \cup {"READY"}
                           => s[m] \in Settled \cup {"READY"}
  BY Zenon DEF Advances, Task
<1>2. \A m \in Manual : item[m].status # "NONE" => s[m] \in Settled \cup {"READY"}
  BY <1>1, Zenon DEF IInv, ItemIsEntered
<1>3. \A m \in Manual : state[m] \in Settled => s[m] \in Settled
  BY Zenon DEF Advances, Task
<1>4. \A m \in Manual : /\ item[m].status = "COMPLETED" => s[m] \in Settled
                        /\ row[m] = "COMPLETED" => s[m] \in Settled
  BY <1>3, Zenon DEF IInv, NoPhantomCompletion
<1>5. timerJob' \in Nat \cup {NoJob} /\ retryJob' \in Nat \cup {NoJob}
  BY Zenon DEF CommitFailure, IInv, TypeOK
<1>6. TypeOK /\ s \in [Task -> EngineState]
         /\ item \in [Manual -> Item] /\ row \in [Task -> RowState]
  BY Zenon DEF IInv, TypeOK, Advances
<1>7. SaveBlob(s) /\ status' = "error" /\ lastEvent' = "error"
         /\ row' = CloseRows(row) /\ item' = CloseItems(item, NoUser)
  BY Zenon DEF CommitFailure
<1> QED BY <1>2, <1>4, <1>5, <1>6, <1>7, FailureEstablishes, Zenon DEF IInv, TypeOK

\* A successful run of a live or retried instance preserves the invariant.
LEMMA SaveProgressPreserves ==
    ASSUME IInv, NEW s, NEW its \in [Manual -> Item], Advances(s), ~Failed(s),
           \A m \in Manual : its[m].status # "NONE" => item[m].status # "NONE",
           SaveProgress(s, its),
           retryJob' = NoJob, lastEvent' \in Event
    PROVE  IInv'
<1>1. \A m \in Manual : state[m] \in Settled \cup {"READY"}
                           => s[m] \in Settled \cup {"READY"}
  BY Zenon DEF Advances, Task
<1>2. \A m \in Manual : its[m].status # "NONE" => s[m] \in Settled \cup {"READY"}
  BY <1>1, Zenon DEF IInv, ItemIsEntered
<1>3. TypeOK /\ s \in [Task -> EngineState]
  BY Zenon DEF IInv, Advances
<1>4. /\ status' \in {"complete", "user_input_required", "waiting", "running"}
      /\ initialized' \in BOOLEAN
      /\ state' \in [Task -> EngineState]
      /\ due' \in [Timer -> Nat]
      /\ row' \in [Task -> RowState]
      /\ item' \in [Manual -> Item]
      /\ timerJob' \in Nat \cup {NoJob}
      /\ EndedMeansClosed' /\ FailureIsVisible' /\ NoLostWork'
      /\ NoPhantomCompletion' /\ TimerJobCurrent' /\ ItemIsEntered'
      /\ Reopenable' /\ WaitsOnStoredWorkflow'
  BY <1>2, <1>3, SaveProgressEstablishes, Zenon
<1>5. RetryJobNeedsError' /\ AuditMatchesStatus'
  BY <1>4, Zenon DEF RetryJobNeedsError, AuditMatchesStatus
<1>6. TypeOK'
  BY <1>4, Zenon DEF TypeOK, Status, Terminal
<1> QED BY <1>4, <1>5, <1>6, Zenon DEF IInv

\* Starting an instance preserves the invariant: the first run materializes
\* its READY tasks, and a failed first run leaves an error shell.
LEMMA InitializePreserves ==
    ASSUME IInv, Initialize
    PROVE  IInv'
<1>1. TypeOK /\ state \in [Task -> EngineState] /\ item \in [Manual -> Item]
  BY Zenon DEF IInv, TypeOK
<1>2. PICK s \in RunAll(state) :
          \/ /\ ~Failed(s)
             /\ SaveProgress(s, item)
             /\ lastEvent' = "created"
             /\ UNCHANGED retryJob
          \/ /\ Failed(s)
             /\ CommitFailure(s)
  BY Zenon DEF Initialize
<1>3. Advances(s)
  BY <1>1, RunsAdvance, Zenon
<1>4. retryJob = NoJob
  BY Zenon DEF Initialize, IInv, RetryJobNeedsError, Terminal
<1>5. CASE Failed(s)
  BY <1>2, <1>3, <1>5, CommitFailurePreserves, Zenon
<1>6. CASE ~Failed(s)
  <2>1. retryJob' = NoJob /\ lastEvent' \in Event /\ SaveProgress(s, item)
    BY <1>2, <1>4, <1>6, Zenon DEF Event
  <2> QED BY <1>1, <1>3, <1>6, <2>1, SaveProgressPreserves, Zenon
<1> QED BY <1>5, <1>6, Zenon

\* Claiming a work item preserves the invariant, whatever the instance's status.
LEMMA ClaimTaskPreserves ==
    ASSUME IInv, NEW u \in Users, NEW m \in Manual, ClaimTask(u, m)
    PROVE  IInv'
<1>1. item' \in [Manual -> Item]
  <2> DEFINE claimed == [item[m] EXCEPT !.owner = u, !.status = "CLAIMED"]
  <2>1. item \in [Manual -> Item]
    BY Zenon DEF IInv, TypeOK
  <2>2. claimed \in Item
    BY <2>1, Zenon DEF Item, ItemState
  <2>3. item' = [item EXCEPT ![m] = claimed]
    BY <2>1, Zenon DEF ClaimTask, Item
  <2> QED BY <2>1, <2>2, <2>3, Zenon
<1>2. TypeOK'
  BY <1>1, Zenon DEF ClaimTask, IInv, TypeOK
<1>3. \A x \in Manual :
          /\ Open(item'[x]) <=> Open(item[x])
          /\ item'[x].status = "NONE" <=> item[x].status = "NONE"
          /\ item'[x].status = "COMPLETED" <=> item[x].status = "COMPLETED"
  BY Zenon DEF ClaimTask, Open, IInv, TypeOK, Item
<1>4. /\ EndedMeansClosed' /\ NoLostWork' /\ NoPhantomCompletion'
      /\ ItemIsEntered' /\ Reopenable'
  BY <1>3, Zenon DEF ClaimTask, IInv, EndedMeansClosed, NoLostWork,
              NoPhantomCompletion, ItemIsEntered, Reopenable, Failed
<1>5. /\ FailureIsVisible' /\ TimerJobCurrent' /\ RetryJobNeedsError'
      /\ AuditMatchesStatus' /\ WaitsOnStoredWorkflow'
  BY Zenon DEF ClaimTask, IInv, FailureIsVisible, Failed, TimerJobCurrent, Waiting,
         RetryJobNeedsError, AuditMatchesStatus, WaitsOnStoredWorkflow
<1> QED BY <1>2, <1>4, <1>5, Zenon DEF IInv

\* Completing a task preserves the invariant: if its run succeeds, if it fails
\* and the independent session records that, and for a task that is over.
LEMMA CompleteTaskPreserves ==
    ASSUME IInv, NEW u \in Users, NEW m \in Manual, CompleteTask(u, m)
    PROVE  IInv'
<1>1. TypeOK /\ state \in [Task -> EngineState] /\ item \in [Manual -> Item]
  BY Zenon DEF IInv, TypeOK
<1>2. status \notin Terminal
  BY Zenon DEF CompleteTask, IInv, EndedMeansClosed
<1>3. PICK woken \in SUBSET Overdue(m), s \in [Task -> EngineState] :
          /\ s \in RunAll(Complete(m, woken))
          /\ \/ /\ ~Failed(s)
                /\ SaveProgress(s, CompletedItem(u, m))
                /\ lastEvent' = IF status' = "complete" THEN "completed"
                                ELSE lastEvent
                /\ UNCHANGED retryJob
             \/ /\ Failed(s)
                /\ SaveBlob(s)
                /\ SyncTimerJob(s)
                /\ row' = CloseRows(TaskRows(s))
                /\ item' = CloseItems(SyncInactive(CompletedItem(u, m), s), NoUser)
                /\ status' = "error"
                /\ lastEvent' = "error"
                /\ UNCHANGED retryJob
  BY <1>1, <1>2, EngineType, Zenon DEF CompleteTask
<1>4. Advances(s)
  BY <1>1, <1>3, RunsAdvance, EngineType, Zenon
<1>5. item[m].status # "NONE" /\ state[m] \in Settled \cup {"READY"}
  BY Zenon DEF CompleteTask, Open, IInv, ItemIsEntered
<1>6. s[m] \in Settled
  BY <1>1, <1>3, CompleteSettles, Zenon
<1>7. retryJob = NoJob
  BY <1>2, Zenon DEF IInv, RetryJobNeedsError, Terminal
<1>8. /\ CompletedItem(u, m) \in [Manual -> Item]
      /\ \A x \in Manual : CompletedItem(u, m)[x].status # "NONE"
                              => item[x].status # "NONE"
      /\ \A x \in Manual : x # m => CompletedItem(u, m)[x] = item[x]
  BY <1>1, <1>5, Zenon DEF CompletedItem, Item, ItemState
<1>9. CASE ~Failed(s)
  <2>1. lastEvent' \in Event
    BY <1>1, <1>3, <1>9, Zenon DEF TypeOK, Event
  <2>2. retryJob' = NoJob /\ SaveProgress(s, CompletedItem(u, m))
    BY <1>3, <1>7, <1>9, Zenon
  <2> QED BY <1>4, <1>8, <1>9, <2>1, <2>2, SaveProgressPreserves, Zenon
<1>10. CASE Failed(s)
  <2> DEFINE its == SyncInactive(CompletedItem(u, m), s)
  <2>1. s \in [Task -> EngineState] /\ TaskRows(s) \in [Task -> RowState]
    BY <1>4, TaskRowsType, Zenon DEF Advances
  <2>2. its \in [Manual -> Item]
    BY <1>8, <2>1, ItemType, Zenon
  <2>3. \A x \in Manual : state[x] \in Settled \cup {"READY"}
                             => s[x] \in Settled \cup {"READY"}
    BY <1>4, Zenon DEF Advances, Task
  <2>4. \A x \in Manual :
            /\ s[x] = "READY" => its[x] = CompletedItem(u, m)[x]
            /\ s[x] # "READY" => its[x] = CloseInactive(CompletedItem(u, m)[x], s[x])
    BY Zenon DEF SyncInactive
  <2>5. \A x \in Manual : its[x].status # "NONE"
                             => CompletedItem(u, m)[x].status # "NONE"
    <3> SUFFICES ASSUME NEW x \in Manual, CompletedItem(u, m)[x].status = "NONE"
                 PROVE  its[x].status = "NONE"
      BY Zenon
    <3>1. ~Open(CompletedItem(u, m)[x]) /\ s[x] \in EngineState
      BY <2>1, Zenon DEF Open, Task
    <3>2. CloseInactive(CompletedItem(u, m)[x], s[x]) = CompletedItem(u, m)[x]
      BY <3>1, CloseInactiveCloses, Zenon
    <3> QED BY <2>4, <3>2, Zenon
  <2>6. \A x \in Manual : its[x].status # "NONE" => s[x] \in Settled \cup {"READY"}
    BY <1>8, <2>3, <2>5, Zenon DEF IInv, ItemIsEntered
  <2>7. \A x \in Manual : its[x].status = "COMPLETED" => s[x] \in Settled
    <3> SUFFICES ASSUME NEW x \in Manual, its[x].status = "COMPLETED", x # m
                 PROVE  s[x] \in Settled
      BY <1>6, Zenon
    <3>1. CASE CompletedItem(u, m)[x].status = "COMPLETED"
      <4>1. state[x] \in Settled
        BY <1>8, <3>1, Zenon DEF IInv, NoPhantomCompletion
      <4> QED BY <4>1, <1>4, Zenon DEF Advances, Task
    <3>2. CASE CompletedItem(u, m)[x].status # "COMPLETED"
      <4>1. its[x] = CloseInactive(CompletedItem(u, m)[x], s[x])
        BY <2>4, <3>2, Zenon
      <4>2. s[x] \in EngineState
        BY <2>1, Zenon DEF Task
      <4>3. \/ CloseInactive(CompletedItem(u, m)[x], s[x]).status \in {s[x], "TERMINATED"}
            \/ s[x] = "REDONE"
        BY <3>2, <4>1, <4>2, CloseInactiveCloses, Zenon
      <4> QED BY <4>1, <4>3, Zenon DEF Settled
    <3> QED BY <3>1, <3>2, Zenon
  <2>8. \A x \in Manual : TaskRows(s)[x] = "COMPLETED" => s[x] \in Settled
    BY <2>1, TaskRowsType, Zenon DEF Task
  <2>9. SaveBlob(s) /\ status' = "error" /\ lastEvent' = "error"
           /\ row' = CloseRows(TaskRows(s)) /\ item' = CloseItems(its, NoUser)
    BY <1>3, <1>10, Zenon
  <2>10. timerJob' \in Nat \cup {NoJob} /\ retryJob' \in Nat \cup {NoJob}
    <3>1. SyncTimerJob(s) /\ retryJob' = retryJob
      BY <1>3, <1>10, Zenon
    <3>2. timerJob' \in Nat \cup {NoJob}
      BY <1>1, <3>1, SyncTimerJobType, Zenon
    <3> QED BY <3>1, <3>2, <1>7, Zenon
  <2> HIDE DEF its
  <2> QED BY Zenon, <1>1, <1>10, <2>1, <2>2, <2>6, <2>7, <2>8, <2>9, <2>10,
             FailureEstablishes DEF IInv, TypeOK
<1> QED BY <1>9, <1>10, Zenon

\* Suspending preserves the invariant: it only changes the status.
LEMMA SuspendPreserves ==
    ASSUME IInv, Suspend
    PROVE  IInv'
<1>1. TypeOK'
  BY Zenon DEF Suspend, IInv, TypeOK, Status, Event
<1>2. retryJob = NoJob /\ ~Failed(state)
  BY Zenon DEF Suspend, IInv, RetryJobNeedsError, FailureIsVisible, Terminal
<1> QED BY Zenon, <1>1, <1>2
        DEF Suspend, IInv, EndedMeansClosed, FailureIsVisible, Failed, NoLostWork,
            NoPhantomCompletion, TimerJobCurrent, RetryJobNeedsError,
            AuditMatchesStatus, ItemIsEntered, WaitsOnStoredWorkflow, Reopenable, Terminal

\* Resuming preserves the invariant: the work items of a suspended instance
\* are as the last run left them.
LEMMA ResumePreserves ==
    ASSUME IInv, Resume
    PROVE  IInv'
<1>1. TypeOK'
  BY Zenon DEF Resume, IInv, TypeOK, Status, Event
<1> QED BY Zenon, <1>1
        DEF Resume, IInv, EndedMeansClosed, FailureIsVisible, Failed, NoLostWork,
            NoPhantomCompletion, TimerJobCurrent, RetryJobNeedsError,
            AuditMatchesStatus, ItemIsEntered, WaitsOnStoredWorkflow, Reopenable, Terminal

\* Closing the rows and work items of a live instance preserves the invariant
\* whether it ends in error or terminated.
LEMMA EndPreserves ==
    ASSUME IInv, NEW u \in Users \cup {NoUser}, status \notin Terminal,
           status' \in {"error", "terminated"}, lastEvent' = status',
           row' = CloseRows(row), item' = CloseItems(item, u),
           UNCHANGED <<initialized, state, due, timerJob, retryJob>>
    PROVE  IInv'
<1>1. item \in [Manual -> Item] /\ row \in [Task -> RowState]
  BY Zenon DEF IInv, TypeOK
<1>2. TypeOK'
  BY <1>1, ItemType, RowType, Zenon DEF IInv, TypeOK, Status, Terminal, Event
<1>3. retryJob = NoJob /\ ~Failed(state)
  BY Zenon DEF IInv, RetryJobNeedsError, FailureIsVisible, Terminal
<1>4. \A m \in Manual : row'[m] = "COMPLETED" => row[m] = "COMPLETED"
  BY Zenon DEF CloseRows, Task
<1>5. /\ EndedMeansClosed' /\ NoLostWork' /\ NoPhantomCompletion'
      /\ ItemIsEntered'
  <2>1. EndedMeansClosed'
    BY <1>1, CloseItemsCloses, Zenon DEF EndedMeansClosed
  <2>2. NoLostWork'
    BY Zenon DEF NoLostWork, Terminal
  <2>3. NoPhantomCompletion'
    <3>1. \A m \in Manual : item'[m].status = "COMPLETED"
                                <=> item[m].status = "COMPLETED"
      BY <1>1, CloseItemsCloses
    <3> QED BY <1>4, <3>1, Zenon DEF IInv, NoPhantomCompletion
  <2>4. ItemIsEntered'
    <3>1. \A m \in Manual : item'[m].status = "NONE" <=> item[m].status = "NONE"
      BY <1>1, CloseItemsCloses, Zenon
    <3> QED BY <3>1, Zenon DEF IInv, ItemIsEntered
  <2> QED BY <2>1, <2>2, <2>3, <2>4, Zenon
<1>6. Reopenable'
  <2>1. \A m \in Manual : state[m] = "READY" => item[m].status # "NONE"
    BY Zenon DEF IInv, NoLostWork, Open
  <2> QED BY <1>1, <2>1, CloseItemsCloses, Zenon DEF Reopenable
<1>7. /\ FailureIsVisible' /\ TimerJobCurrent' /\ RetryJobNeedsError'
      /\ AuditMatchesStatus' /\ WaitsOnStoredWorkflow'
  BY <1>3, Zenon DEF FailureIsVisible, Failed, TimerJobCurrent, RetryJobNeedsError,
              AuditMatchesStatus, WaitsOnStoredWorkflow
<1> QED BY <1>2, <1>5, <1>6, <1>7, Zenon DEF IInv

\* Scheduling a retry preserves the invariant: it needs an errored instance.
LEMMA ScheduleRetryPreserves ==
    ASSUME IInv, ScheduleRetry
    PROVE  IInv'
<1>1. TypeOK'
  BY TimeAssumption DEF ScheduleRetry, IInv, TypeOK
<1> QED BY Zenon, <1>1
        DEF ScheduleRetry, IInv, EndedMeansClosed, FailureIsVisible, Failed,
            NoLostWork, NoPhantomCompletion, TimerJobCurrent, RetryJobNeedsError,
            AuditMatchesStatus, ItemIsEntered, WaitsOnStoredWorkflow, Reopenable, Terminal

\* Reopening creates no work item, and every item that exists ends up open.
LEMMA ReopenItemsOpens ==
    ASSUME TypeOK
    PROVE  /\ ReopenItems \in [Manual -> Item]
           /\ \A m \in Manual :
                 /\ item[m].status = "NONE" => ReopenItems[m] = item[m]
                 /\ item[m].status # "NONE" => Open(ReopenItems[m])
<1>1. ReadyItem \in Item /\ Open(ReadyItem)
  BY Zenon DEF ReadyItem, Item, ItemState, Open
<1>2. item \in [Manual -> Item]
  BY Zenon DEF TypeOK
<1> QED BY <1>1, <1>2, Zenon DEF ReopenItems

\* Retrying an instance without a failed service task preserves the invariant:
\* rows and work items are reopened and no task of the engine moves.
LEMMA RetryPlainPreserves ==
    ASSUME IInv, RetryPlain
    PROVE  IInv'
<1>1. TypeOK
  BY Zenon DEF IInv
<1>2. ReopenRows \in [Task -> RowState]
  BY <1>1, Zenon DEF ReopenRows, TypeOK, RowState, EngineState
<1>3. TypeOK'
  BY <1>1, <1>2, ReopenItemsOpens, Zenon DEF RetryPlain, TypeOK, Status, Event
<1>4. \A m \in Manual : row'[m] = "COMPLETED" => row[m] = "COMPLETED"
  BY Zenon DEF RetryPlain, ReopenRows, Task
<1>5. \A m \in Manual : item'[m].status # "COMPLETED" \/ item[m].status = "NONE"
  BY <1>1, ReopenItemsOpens, Zenon DEF RetryPlain, Open
<1>6. NoPhantomCompletion'
  <2> SUFFICES ASSUME NEW m \in Manual,
                      row'[m] = "COMPLETED" \/ item'[m].status = "COMPLETED"
               PROVE  state[m] \in Settled
    BY Zenon DEF NoPhantomCompletion, RetryPlain
  <2>1. item'[m].status # "COMPLETED"
    BY <1>1, <1>5, ReopenItemsOpens, Zenon DEF RetryPlain
  <2> QED BY <1>4, <2>1, Zenon DEF IInv, NoPhantomCompletion
<1>7. NoLostWork'
  BY <1>1, ReopenItemsOpens, Zenon DEF RetryPlain, IInv, NoLostWork, Reopenable
<1>8. ItemIsEntered'
  BY <1>1, ReopenItemsOpens, Zenon DEF RetryPlain, IInv, ItemIsEntered
<1>9. /\ EndedMeansClosed' /\ FailureIsVisible' /\ TimerJobCurrent'
      /\ RetryJobNeedsError' /\ AuditMatchesStatus' /\ Reopenable'
      /\ WaitsOnStoredWorkflow'
  BY Zenon DEF RetryPlain, EndedMeansClosed, FailureIsVisible, Failed, TimerJobCurrent,
         RetryJobNeedsError, AuditMatchesStatus, Reopenable,
         WaitsOnStoredWorkflow, Terminal
<1> QED BY <1>3, <1>6, <1>7, <1>8, <1>9, Zenon DEF IInv

\* Retrying an instance with a failed service task preserves the invariant,
\* whether the rerun succeeds or fails again.
LEMMA RetryServicePreserves ==
    ASSUME IInv, RetryService
    PROVE  IInv'
<1>1. TypeOK
  BY Zenon DEF IInv
<1>2. PICK s \in RunAll(ResetErrored) :
          \/ /\ ~Failed(s)
             /\ SaveProgress(s, ReopenItems)
             /\ retryJob' = NoJob
             /\ lastEvent' = "retried"
          \/ /\ Failed(s)
             /\ CommitFailure(s)
  BY Zenon DEF RetryService
<1>3. Advances(s)
  BY <1>1, RunsAdvance, EngineType, Zenon
<1>4. CASE Failed(s)
  BY <1>2, <1>3, <1>4, CommitFailurePreserves, Zenon
<1>5. CASE ~Failed(s)
  <2>1. \A m \in Manual : ReopenItems[m].status # "NONE" => item[m].status # "NONE"
    BY <1>1, ReopenItemsOpens, Zenon
  <2>2. /\ SaveProgress(s, ReopenItems)
        /\ retryJob' = NoJob
        /\ lastEvent' \in Event
    BY <1>2, <1>5, Zenon DEF Event
  <2> QED BY <1>1, <1>3, <1>5, <2>1, <2>2, ReopenItemsOpens, SaveProgressPreserves, Zenon
<1> QED BY <1>4, <1>5, Zenon

\* The intermediate timer job preserves the invariant: it advances the
\* instance, or is deleted when there is nothing left to wait for.
LEMMA RunTimerJobPreserves ==
    ASSUME IInv, RunTimerJob
    PROVE  IInv'
<1>1. TypeOK /\ item \in [Manual -> Item]
  BY Zenon DEF IInv, TypeOK
<1>2. CASE status \notin {"waiting", "user_input_required"} \/ ~initialized
  <2>1. CASE /\ timerJob' = NoJob
             /\ status \notin {"waiting", "user_input_required"}
             /\ UNCHANGED <<status, initialized, state, due, row, item,
                            retryJob, lastEvent>>
    BY <2>1, Zenon DEF IInv, TypeOK, EndedMeansClosed, FailureIsVisible, Failed,
                NoLostWork, NoPhantomCompletion, TimerJobCurrent,
                RetryJobNeedsError, AuditMatchesStatus, ItemIsEntered, WaitsOnStoredWorkflow, Reopenable
  <2> QED BY <1>2, <2>1, Zenon DEF RunTimerJob, Refreshable, IInv, WaitsOnStoredWorkflow
<1>3. CASE status \in {"waiting", "user_input_required"} /\ initialized
  <2>1. PICK F \in Firings, s \in [Task -> EngineState] :
            /\ s \in RunAll(RefreshWaiting(F))
            /\ \/ /\ ~Failed(s)
                  /\ SaveProgress(s, item)
                  /\ UNCHANGED <<retryJob, lastEvent>>
               \/ /\ Failed(s)
                  /\ CommitFailure(s)
    BY <1>1, <1>3, EngineType, Zenon DEF RunTimerJob, Refreshable
  <2>2. Advances(s)
    BY <1>1, <2>1, RunsAdvance, EngineType, Zenon
  <2>3. CASE Failed(s)
    BY <2>1, <2>2, <2>3, CommitFailurePreserves, Zenon
  <2>4. CASE ~Failed(s)
    <3>1. retryJob = NoJob /\ lastEvent \in Event
      BY <1>3, Zenon DEF IInv, TypeOK, RetryJobNeedsError
    <3>2. retryJob' = NoJob /\ lastEvent' \in Event /\ SaveProgress(s, item)
      BY <2>1, <2>4, <3>1, Zenon
    <3> QED BY <1>1, <2>2, <2>4, <3>2, SaveProgressPreserves, Zenon
  <2> QED BY <2>3, <2>4, Zenon
<1> QED BY <1>2, <1>3, Zenon

\* The scheduled retry preserves the invariant, as retrying does.
LEMMA RunRetryJobPreserves ==
    ASSUME IInv, RunRetryJob
    PROVE  IInv'
<1>1. retryJob # NoJob
  BY DEF RunRetryJob, NoJob
<1>2. status = "error"
  BY <1>1, Zenon DEF IInv, RetryJobNeedsError
<1>3. RetryPlain \/ RetryService
  BY <1>2, Zenon DEF RunRetryJob, Retry
<1> QED BY <1>3, RetryPlainPreserves, RetryServicePreserves, Zenon

\* The passing of time preserves the invariant: the timers of the saved
\* workflow and the date of the job move together.
LEMMA TickPreserves ==
    ASSUME IInv, Tick
    PROVE  IInv'
<1>1. TypeOK /\ due \in [Timer -> Nat]
         /\ timerJob \in Nat \cup {NoJob} /\ retryJob \in Nat \cup {NoJob}
  BY Zenon DEF IInv, TypeOK
<1>2. \A d \in Nat \cup {NoJob} : Closer(d) \in Nat \cup {NoJob}
  BY DEF Closer, NoJob
<1>3. \A d \in Nat : Closer(d) \in Nat
  BY DEF Closer
<1>4. TypeOK'
  BY <1>1, <1>2, <1>3, Zenon DEF Tick, TypeOK
<1>5. TimerJobCurrent'
  <2> SUFFICES ASSUME status \in {"waiting", "user_input_required"}
               PROVE  IF Waiting = {} THEN timerJob' = NoJob
                      ELSE /\ \E t \in Waiting : timerJob' = due'[t]
                           /\ \A t \in Waiting : timerJob' <= due'[t]
    BY Zenon DEF Tick, TimerJobCurrent, Waiting
  <2>1. CASE Waiting = {}
    BY <2>1 DEF IInv, TimerJobCurrent, Tick, Closer, NoJob
  <2>2. CASE Waiting # {}
    <3>1. /\ \E t \in Waiting : timerJob = due[t]
          /\ \A t \in Waiting : timerJob <= due[t]
      BY <2>2, Zenon DEF IInv, TimerJobCurrent
    <3>2. Waiting \subseteq Timer
      BY Zenon DEF Waiting
    <3>3. \A a, b \in Nat : a <= b => Closer(a) <= Closer(b)
      BY DEF Closer
    <3>4. \A t \in Waiting : due'[t] = Closer(due[t])
      BY <3>2, Zenon DEF Tick
    <3>5. timerJob \in Nat /\ timerJob' = Closer(timerJob)
      BY <1>1, <3>1, <3>2, Zenon DEF Tick
    <3> QED BY <1>1, <2>2, <3>1, <3>2, <3>3, <3>4, <3>5, Zenon
  <2> QED BY <2>1, <2>2, Zenon
<1>6. RetryJobNeedsError'
  BY DEF IInv, RetryJobNeedsError, Tick, Closer, NoJob
<1> QED BY Zenon, <1>4, <1>5, <1>6
        DEF Tick, IInv, EndedMeansClosed, FailureIsVisible, Failed, NoLostWork,
            NoPhantomCompletion, AuditMatchesStatus, ItemIsEntered, WaitsOnStoredWorkflow, Reopenable

\* The invariant holds of an instance that was just created.
LEMMA InitEstablishes ==
    ASSUME Init
    PROVE  IInv
<1>1. TypeOK
  BY Zenon DEF Init, TypeOK, Status, EngineState, RowState, Item, ItemState, NoJob, Event
<1> QED BY <1>1, Zenon DEF Init, IInv, EndedMeansClosed, FailureIsVisible, Failed,
                    NoLostWork, NoPhantomCompletion, TimerJobCurrent,
                    RetryJobNeedsError, AuditMatchesStatus, ItemIsEntered,
                    WaitsOnStoredWorkflow, Reopenable, Terminal, Open, Task

\* Every step preserves the invariant.
LEMMA NextPreserves ==
    ASSUME IInv, [Next]_vars
    PROVE  IInv'
<1>1. CASE Initialize
  BY <1>1, InitializePreserves, Zenon
<1>2. ASSUME NEW u \in Users, NEW m \in Manual, ClaimTask(u, m)
      PROVE  IInv'
  BY <1>2, ClaimTaskPreserves, Zenon
<1>3. ASSUME NEW u \in Users, NEW m \in Manual, CompleteTask(u, m)
      PROVE  IInv'
  BY <1>3, CompleteTaskPreserves, Zenon
<1>4. CASE Suspend
  BY <1>4, SuspendPreserves, Zenon
<1>5. CASE Resume
  BY <1>5, ResumePreserves, Zenon
<1>6. ASSUME NEW u \in Users \cup {NoUser}, ErrorInstance(u)
      PROVE  IInv'
  BY <1>6, EndPreserves, Zenon DEF ErrorInstance
<1>7. ASSUME NEW u \in Users, Terminate(u)
      PROVE  IInv'
  BY <1>7, EndPreserves, Zenon DEF Terminate
<1>8. CASE ScheduleRetry
  BY <1>8, ScheduleRetryPreserves, Zenon
<1>9. CASE Retry
  BY <1>9, RetryPlainPreserves, RetryServicePreserves, Zenon DEF Retry
<1>10. CASE RunTimerJob
  BY <1>10, RunTimerJobPreserves, Zenon
<1>11. CASE RunRetryJob
  BY <1>11, RunRetryJobPreserves, Zenon
<1>12. CASE Tick
  BY <1>12, TickPreserves, Zenon
<1>13. CASE UNCHANGED vars
  BY <1>13, Zenon DEF vars, IInv, TypeOK, EndedMeansClosed, FailureIsVisible, Failed,
               NoLostWork, NoPhantomCompletion, TimerJobCurrent, Waiting,
               RetryJobNeedsError, AuditMatchesStatus, ItemIsEntered, WaitsOnStoredWorkflow, Reopenable
<1> QED BY Zenon, <1>1, <1>2, <1>3, <1>4, <1>5, <1>6, <1>7, <1>8, <1>9, <1>10, <1>11,
           <1>12, <1>13 DEF Next

-----------------------------------------------------------------------------
(***************************************************************************)
(* Theorems.                                                               *)
(***************************************************************************)

\* The inductive invariant holds in every reachable state.
THEOREM Invariance == Spec => []IInv
<1>1. Init => IInv
  BY InitEstablishes, Zenon
<1>2. IInv /\ [Next]_vars => IInv'
  BY NextPreserves, Zenon
<1> QED BY <1>1, <1>2, PTL DEF Spec

\* The columns of the process instance, its work items and its jobs keep
\* their types under every command and job.
THEOREM TypeCorrect == Spec => []TypeOK
<1>1. IInv => TypeOK
  BY Zenon DEF IInv
<1> QED BY <1>1, Invariance, PTL

\* No command leaves an open work item behind an ended process instance,
\* although claim_task and complete_task never look at its status.
THEOREM EndedClosed == Spec => []EndedMeansClosed
<1>1. IInv => EndedMeansClosed
  BY Zenon DEF IInv
<1> QED BY <1>1, Invariance, PTL

\* A failed service task keeps its process instance in error, where
\* retry_process_instance can rerun it.
THEOREM FailureVisible == Spec => []FailureIsVisible
<1>1. IInv => FailureIsVisible
  BY Zenon DEF IInv
<1> QED BY <1>1, Invariance, PTL

\* A READY manual task of a live process instance always has an open work item.
THEOREM WorkNotLost == Spec => []NoLostWork
<1>1. IInv => NoLostWork
  BY Zenon DEF IInv
<1> QED BY <1>1, Invariance, PTL

\* Rows and work items never claim a completion the engine does not know of.
THEOREM NoPhantom == Spec => []NoPhantomCompletion
<1>1. IInv => NoPhantomCompletion
  BY Zenon DEF IInv
<1> QED BY <1>1, Invariance, PTL

\* While the instance waits, its timer job is due with its earliest timer.
THEOREM TimerJobIsCurrent == Spec => []TimerJobCurrent
<1>1. IInv => TimerJobCurrent
  BY Zenon DEF IInv
<1> QED BY <1>1, Invariance, PTL

\* A process_retry job exists only for an instance in error: every way out of
\* error deletes it, a manual retry that races it included.
THEOREM RetryJobsAreForErrors == Spec => []RetryJobNeedsError
<1>1. IInv => RetryJobNeedsError
  BY Zenon DEF IInv
<1> QED BY <1>1, Invariance, PTL

\* The newest lifecycle event agrees with the status that an operator's
\* suspend, error or terminate has left.
THEOREM AuditFollows == Spec => []AuditMatchesStatus
<1>1. IInv => AuditMatchesStatus
  BY Zenon DEF IInv
<1> QED BY <1>1, Invariance, PTL

\* A completed or terminated process instance is never touched again: the
\* work item guards of claim_task and complete_task, and the status guards of
\* the other commands and of the scheduler jobs, are enough.
THEOREM Frozen == Spec => EndedIsFrozen
<1> DEFINE A == (status \in {"complete", "terminated"}) =>
                   UNCHANGED <<status, state, row, item, retryJob, lastEvent>>
<1>1. ASSUME IInv, [Next]_vars
      PROVE  [A]_vars
  <2> SUFFICES ASSUME Next, status \in {"complete", "terminated"}
               PROVE  UNCHANGED <<status, state, row, item, retryJob, lastEvent>>
    BY <1>1, Zenon
  <2>1. \A m \in Manual : ~Open(item[m])
    BY <1>1, Zenon DEF IInv, EndedMeansClosed, Terminal
  <2>2. retryJob = NoJob
    BY <1>1, Zenon DEF IInv, RetryJobNeedsError
  <2>3. ~Initialize /\ ~Suspend /\ ~Resume /\ ~ScheduleRetry /\ ~Retry
    BY Zenon DEF Initialize, Suspend, Resume, ScheduleRetry, Retry, RetryPlain,
           RetryService, Terminal
  <2>4. \A u, m : m \in Manual => ~ClaimTask(u, m) /\ ~CompleteTask(u, m)
    BY <2>1, Zenon DEF ClaimTask, CompleteTask
  <2>5. \A u : ~ErrorInstance(u) /\ ~Terminate(u)
    BY Zenon DEF ErrorInstance, Terminate, Terminal
  <2>6. ~RunRetryJob
    BY <2>2 DEF RunRetryJob, NoJob
  <2>7. CASE RunTimerJob
    BY <2>7, Zenon DEF RunTimerJob, Refreshable
  <2>8. CASE Tick
    BY <2>2, <2>8 DEF Tick, Closer, NoJob
  <2> QED BY <2>3, <2>4, <2>5, <2>6, <2>7, <2>8, Zenon DEF Next
<1>2. QED BY <1>1, Invariance, PTL DEF Spec, EndedIsFrozen

\* No command takes back a settled task of the engine, for any process diagram:
\* only the user who completes a reopened work item turns its cancelled task
\* into a completed one.
THEOREM SettledForever == Spec => SettledStaysSettled
<1> DEFINE A(t) == state[t] \in Settled =>
                      \/ state'[t] = state[t]
                      \/ /\ state[t] = "CANCELLED" /\ state'[t] = "REDONE"
                         /\ t \in Manual /\ Open(item[t]) /\ item'[t].by # NoUser
<1>1. ASSUME IInv, [Next]_vars
      PROVE  [\A t \in Task : A(t)]_vars
  <2> SUFFICES ASSUME Next, NEW t \in Task, state[t] \in Settled PROVE A(t)
    BY <1>1, Zenon
  <2>1. TypeOK /\ state \in [Task -> EngineState]
    BY <1>1, Zenon DEF IInv, TypeOK
  <2>2. ASSUME NEW s0 \in [Task -> EngineState], NEW s \in RunAll(s0),
               s0[t] = state[t], state' = s
        PROVE  A(t)
    BY <2>2, RunKeeps, Zenon
  <2>3. CASE Initialize
    <3>1. PICK s \in RunAll(state) : state' = s
      BY <2>3, Zenon DEF Initialize, SaveProgress, CommitFailure, SaveBlob
    <3> QED BY <2>1, <2>2, <3>1, Zenon
  <2>4. ASSUME NEW u \in Users, NEW m \in Manual, CompleteTask(u, m)
        PROVE  A(t)
    <3>1. status \notin Terminal
      BY <1>1, <2>4, Zenon DEF CompleteTask, IInv, EndedMeansClosed
    <3>2. PICK woken \in SUBSET Overdue(m), s \in [Task -> EngineState] :
             /\ s \in RunAll(Complete(m, woken)) /\ state' = s
             /\ \/ SaveProgress(s, CompletedItem(u, m))
                \/ item' = CloseItems(SyncInactive(CompletedItem(u, m), s), NoUser)
      BY <2>1, <2>4, <3>1, EngineType, Zenon DEF CompleteTask, SaveProgress, SaveBlob
    <3>3. Complete(m, woken) \in [Task -> EngineState]
      BY <2>1, EngineType, Zenon
    <3>4. CASE t # m
      BY <2>1, <2>2, <3>2, <3>3, <3>4, CompletePrepares, Zenon
    <3>5. CASE t = m
      <4>1. \/ Complete(m, woken)[m] = state[m]
            \/ state[m] = "CANCELLED" /\ Complete(m, woken)[m] = "REDONE"
        <5>1. Prepared(Complete(m, woken))
          BY <2>1, CompletePrepares, Zenon
        <5> QED BY <3>5, <5>1, Zenon DEF Prepared
      <4>2. Complete(m, woken)[m] \in Settled
        BY <2>1, CompletePrepares, Zenon
      <4>3. state'[m] = Complete(m, woken)[m]
        BY <3>2, <3>3, <3>5, <4>2, RunKeeps, Zenon
      <4>4. item'[m].by = u
        <5>1. /\ CompletedItem(u, m)[m] = [status |-> "COMPLETED", owner |-> u, by |-> u]
              /\ ~Open(CompletedItem(u, m)[m])
          BY <2>1, Zenon DEF TypeOK, CompletedItem, Open
        <5>2. s[m] # "READY"
          BY <3>2, <4>2, <4>3, Zenon DEF Settled
        <5>3. SyncInactive(CompletedItem(u, m), s)[m] = CompletedItem(u, m)[m]
          BY <5>1, <5>2, Zenon DEF SyncInactive, CloseInactive
        <5>4. item'[m] = CompletedItem(u, m)[m]
          <6> DEFINE its == SyncInactive(CompletedItem(u, m), s)
          <6>1. MaterializeReady(its, s)[m] = its[m] /\ CloseItems(its, NoUser)[m] = its[m]
            BY <5>1, <5>2, <5>3, Zenon DEF MaterializeReady, CloseItems
          <6>2. item' = MaterializeReady(its, s) \/ item' = CloseItems(its, NoUser)
            BY <3>2, Zenon DEF SaveProgress
          <6> QED BY <5>3, <6>1, <6>2, Zenon
        <5> QED BY <5>1, <5>4
      <4>5. Open(item[m]) /\ u # NoUser
        BY <2>4, UserAssumption, Zenon DEF CompleteTask
      <4> QED BY <3>5, <4>1, <4>3, <4>4, <4>5, Zenon
    <3> QED BY <3>4, <3>5, Zenon
  <2>5. CASE RetryService
    <3>1. PICK s \in RunAll(ResetErrored) : state' = s
      BY <2>5, Zenon DEF RetryService, SaveProgress, CommitFailure, SaveBlob
    <3> QED BY <2>1, <2>2, <3>1, RefreshKeepsSettled, EngineType, Zenon
  <2>6. CASE RetryPlain
    BY <2>6, Zenon DEF RetryPlain
  <2>7. CASE RunTimerJob
    <3>1. CASE state' = state
      BY <3>1, Zenon
    <3>2. CASE state' # state
      <4>1. PICK F \in Firings, s \in [Task -> EngineState] :
               s \in RunAll(RefreshWaiting(F)) /\ state' = s
        BY <2>1, <2>7, EngineType, <3>2, Zenon DEF RunTimerJob, SaveProgress, CommitFailure, SaveBlob
      <4> QED BY <2>1, <2>2, <4>1, RefreshKeepsSettled, EngineType, Zenon
    <3> QED BY <3>1, <3>2, Zenon
  <2>8. CASE RunRetryJob
    <3>1. state' = state \/ RetryPlain \/ RetryService
      BY <2>8, Zenon DEF RunRetryJob, Retry
    <3> QED BY <2>5, <2>6, <3>1, Zenon
  <2>9. \/ Suspend \/ Resume \/ ScheduleRetry \/ Tick
        \/ \E u \in Users, m \in Manual : ClaimTask(u, m)
        \/ \E u \in Users \cup {NoUser} : ErrorInstance(u)
        \/ \E u \in Users : Terminate(u)
        => A(t)
    BY Zenon DEF Suspend, Resume, ScheduleRetry, Tick, ClaimTask, ErrorInstance,
           Terminate
  <2> QED BY <2>3, <2>4, <2>5, <2>6, <2>7, <2>8, <2>9, Zenon DEF Next, Retry
<1>2. QED BY <1>1, Invariance, PTL DEF Spec, SettledStaysSettled

-----------------------------------------------------------------------------
(***************************************************************************)
(* Work that is done again.                                                *)
(***************************************************************************)

\* The stored workflow has run as far as it can, and only timers that wait
\* have a due date.
RunToTheEnd ==
    /\ ~initialized => \A t \in Task : state[t] = "FUTURE"
    /\ initialized /\ ~Failed(state) =>
          \A t \in Task : state[t] = "FUTURE" => ~Reached(state, t)
    /\ \A t \in Timer : state[t] # "WAITING" => due[t] = 0

\* What run_all leaves behind has run as far as it can.
LEMMA RunAllExhausts ==
    ASSUME NEW s0 \in [Task -> EngineState], NEW s \in RunAll(s0), ~Failed(s)
    PROVE  \A t \in Task : s[t] = "FUTURE" => ~Reached(s, t)
<1> TAKE t \in Task
<1> HAVE s[t] = "FUTURE"
<1>1. s0[t] = "FUTURE"
  BY RunAllMoves, Zenon
<1>2. \A x \in {y \in Task : s0[y] = "FUTURE"} :
         IF Reached(s, x) THEN s[x] # "FUTURE" \/ Failed(s) ELSE s[x] = "FUTURE"
  BY DEF RunAll
<1> QED
  BY <1>1, <1>2, Zenon

\* Running a workflow that has run as far as it can changes nothing.  The task
\* that would move first has only predecessors that do not move.
LEMMA RunAllAgain ==
    ASSUME NEW s0 \in [Task -> EngineState], NEW s \in RunAll(s0),
           \A t \in Task : s0[t] = "FUTURE" => ~Reached(s0, t)
    PROVE  s = s0
<1>1. PICK entered \in SUBSET {x \in Task : s0[x] = "FUTURE"},
           failing \in SUBSET Service : s = Move(s0, entered, failing)
  BY DEF RunAll
<1>2. \A t \in Task : s[t] = IF t \in entered THEN Entered(t, failing) ELSE s0[t]
  BY <1>1, MoveType
<1>3. CASE entered # {}
  <2>1. PICK t \in entered : Pred[t] \cap entered = {}
    BY <1>3, GraphAssumption, Zenon
  <2>2. t \in Task /\ s0[t] = "FUTURE" /\ Pred[t] \subseteq Task
    BY GraphAssumption, Zenon
  <2>3. \A p \in Pred[t] : s[p] = s0[p]
    BY <1>2, <2>1, <2>2, Zenon
  <2>4. ~Reached(s, t)
    BY <2>2, <2>3, Zenon DEF Reached
  <2>5. s[t] = "FUTURE"
    BY <2>2, <2>4 DEF RunAll
  <2>6. s[t] = Entered(t, failing)
    BY <1>2, <2>2, Zenon
  <2> QED
    BY <2>5, <2>6, Zenon DEF Entered
<1>4. CASE entered = {}
  <2>1. s \in [Task -> EngineState]
    BY <1>1, MoveType, Zenon
  <2> QED
    BY <1>2, <1>4, <2>1
<1> QED
  BY <1>3, <1>4, Zenon

\* Whatever a command stores has been run.
LEMMA SaveBlobRuns ==
    ASSUME TypeOK, NEW s0 \in [Task -> EngineState], NEW s \in RunAll(s0),
           SaveBlob(s)
    PROVE  RunToTheEnd'
<1>1. initialized' = TRUE /\ state' = s /\ due' = DueOf(s)
  BY Zenon DEF SaveBlob
<1>2. ~Failed(s) => \A t \in Task : s[t] = "FUTURE" => ~Reached(s, t)
  BY RunAllExhausts, Zenon
<1>3. Failed(state)' <=> Failed(s)
  BY <1>1, Zenon DEF Failed
<1>4. \A t \in Task : Reached(state, t)' <=> Reached(s, t)
  BY <1>1, Zenon DEF Reached
<1>5. \A t \in Timer : s[t] # "WAITING" => due'[t] = 0
  BY <1>1, Zenon DEF DueOf
<1> QED
  BY <1>1, <1>2, <1>3, <1>4, <1>5, Zenon DEF RunToTheEnd

\* Every step leaves a workflow that has run as far as it can.
LEMMA RunToTheEndKept ==
    ASSUME IInv, RunToTheEnd, [Next]_vars
    PROVE  RunToTheEnd'
<1>1. TypeOK /\ state \in [Task -> EngineState]
  BY Zenon DEF IInv, TypeOK
<1>2. ASSUME UNCHANGED <<initialized, state, due>> PROVE RunToTheEnd'
  BY <1>2, Zenon DEF RunToTheEnd, Failed, Reached
<1>3. CASE Initialize
  <2>1. PICK s \in RunAll(state) : SaveBlob(s)
    BY <1>3, Zenon DEF Initialize, SaveProgress, CommitFailure
  <2> QED
    BY <1>1, <2>1, SaveBlobRuns, Zenon
<1>4. ASSUME NEW u \in Users, NEW m \in Manual, CompleteTask(u, m)
      PROVE  RunToTheEnd'
  <2>1. CASE status \in Terminal
    BY <1>2, <1>4, <2>1, Zenon DEF CompleteTask
  <2>2. CASE status \notin Terminal
    <3>1. PICK woken \in SUBSET Overdue(m), s \in [Task -> EngineState] :
             s \in RunAll(Complete(m, woken)) /\ SaveBlob(s)
      BY <1>1, <1>4, <2>2, EngineType, Zenon DEF CompleteTask, SaveProgress
    <3> QED
      BY <1>1, <3>1, EngineType, SaveBlobRuns, Zenon
  <2> QED
    BY <2>1, <2>2, Zenon
<1>5. CASE Retry
  <2>1. CASE RetryPlain
    BY <1>2, <2>1, Zenon DEF RetryPlain
  <2>2. CASE RetryService
    <3>1. PICK s \in RunAll(ResetErrored) : SaveBlob(s)
      BY <2>2, Zenon DEF RetryService, SaveProgress, CommitFailure
    <3> QED
      BY <1>1, <3>1, EngineType, SaveBlobRuns, Zenon
  <2> QED
    BY <1>5, <2>1, <2>2, Zenon DEF Retry
<1>6. CASE RunTimerJob
  <2>1. CASE UNCHANGED <<initialized, state, due>>
    BY <1>2, <2>1, Zenon
  <2>2. CASE ~UNCHANGED <<initialized, state, due>>
    <3>1. PICK F \in Firings, s \in [Task -> EngineState] :
             s \in RunAll(RefreshWaiting(F)) /\ SaveBlob(s)
      BY <1>1, <1>6, EngineType, <2>2, Zenon DEF RunTimerJob, SaveProgress, CommitFailure
    <3> QED
      BY <1>1, <3>1, EngineType, SaveBlobRuns, Zenon
  <2> QED
    BY <2>1, <2>2, Zenon
<1>7. CASE RunRetryJob
  BY <1>2, <1>5, <1>7, Zenon DEF RunRetryJob
<1>8. CASE Tick
  <2>1. initialized' = initialized /\ state' = state
        /\ \A t \in Timer : due[t] = 0 => due'[t] = 0
    BY <1>8 DEF Tick, Closer
  <2> QED
    BY <2>1, Zenon DEF RunToTheEnd, Failed, Reached
<1>9. CASE \/ \E u \in Users, m \in Manual : ClaimTask(u, m)
           \/ Suspend \/ Resume \/ ScheduleRetry
           \/ \E u \in Users \cup {NoUser} : ErrorInstance(u)
           \/ \E u \in Users : Terminate(u)
           \/ UNCHANGED vars
  BY <1>2, <1>9, Zenon DEF ClaimTask, Suspend, Resume, ScheduleRetry,
                           ErrorInstance, Terminate, vars
<1> QED
  BY <1>3, <1>4, <1>5, <1>6, <1>7, <1>8, <1>9, Zenon DEF Next

\* An open work item is completed by a user in complete_task alone: every other
\* step leaves it, opens it anew, or closes it on nobody's behalf.
LEMMA OnlyUsersComplete ==
    ASSUME IInv, Next, NEW m \in Manual, Open(item[m]),
           item'[m].status = "COMPLETED", item'[m].by # NoUser
    PROVE  \E u \in Users : CompleteTask(u, m)
<1>1. item \in [Manual -> Item] /\ item[m].status # "COMPLETED"
  BY Zenon DEF IInv, TypeOK, Open
<1>2. \A u : CloseItems(item, u)[m].status = "TERMINATED"
  BY Zenon DEF CloseItems, CloseWorkItem
<1>3. \A its, s : Open(its[m]) =>
         LET i == MaterializeReady(SyncInactive(its, s), s)[m]
         IN  i.status # "COMPLETED" \/ i.by = NoUser
  BY Zenon DEF MaterializeReady, SyncInactive, CloseInactive, CloseWorkItem, ReadyItem
<1>4. \A its, s : Open(its[m]) =>
         LET i == CloseItems(SyncInactive(its, s), NoUser)[m]
         IN  i.status # "COMPLETED" \/ i.by = NoUser
  BY Zenon DEF CloseItems, SyncInactive, CloseInactive, CloseWorkItem
<1>5. ReopenItems[m] = item[m]
  BY Zenon DEF ReopenItems
<1>6. ~Initialize /\ ~RetryPlain /\ ~RetryService
  BY <1>1, <1>2, <1>3, <1>5, Zenon
     DEF Initialize, RetryPlain, RetryService, SaveProgress, CommitFailure
<1>7. ~RunTimerJob
  BY <1>1, <1>2, <1>3, Zenon DEF RunTimerJob, SaveProgress, CommitFailure
<1>8. ~RunRetryJob
  BY <1>1, <1>6, Zenon DEF RunRetryJob, Retry
<1>9. ASSUME NEW u \in Users, NEW k \in Manual, ClaimTask(u, k) PROVE FALSE
  BY <1>1, <1>9 DEF ClaimTask
<1>10. ASSUME NEW u \in Users, NEW k \in Manual \ {m}, CompleteTask(u, k)
       PROVE  FALSE
  <2>1. CompletedItem(u, k)[m] = item[m]
    BY <1>1, Zenon DEF CompletedItem
  <2> QED
    BY <1>1, <1>3, <1>4, <1>10, <2>1, Zenon DEF CompleteTask, SaveProgress
<1>11. ASSUME NEW u, ErrorInstance(u) \/ Terminate(u) PROVE FALSE
  BY <1>2, <1>11, Zenon DEF ErrorInstance, Terminate
<1>12. ~Suspend /\ ~Resume /\ ~ScheduleRetry /\ ~Tick
  BY <1>1, Zenon DEF Suspend, Resume, ScheduleRetry, Tick
<1> QED
  BY <1>6, <1>7, <1>8, <1>9, <1>10, <1>11, <1>12, Zenon DEF Next, Retry

\* Boundary timers keep to the tasks they sit on: what has been entered had a
\* token, and the timers of a task that is over are over.
BoundaryTimersFollow ==
    /\ \A t \in Timer : state[t] \in Settled \cup {"FUTURE", "WAITING"}
    /\ \A m \in Manual : state[m] # "FUTURE" => Reached(state, m)
    /\ \A t \in Timer : \A m \in Host[t] :
          state[m] \in Settled => state[t] \in Settled

\* A run preserves that, if what is prepared for it does.
LEMMA RunFollows ==
    ASSUME BoundaryTimersFollow, NEW s0 \in [Task -> EngineState],
           NEW s \in RunAll(s0), Advances(s), SaveBlob(s),
           \A t \in Timer : s0[t] \in Settled \cup {"FUTURE", "WAITING"},
           \A m \in Manual : s0[m] # "FUTURE" => state[m] # "FUTURE",
           \A t \in Timer : \A m \in Host[t] :
              s0[m] \in Settled => s0[t] \in Settled
    PROVE  BoundaryTimersFollow'
<1>1. state' = s
  BY Zenon DEF SaveBlob
<1>2. \A t \in Task : s0[t] \in Settled => s[t] = s0[t]
  BY RunKeeps, Zenon
<1>3. \A t \in Timer : s[t] \in Settled \cup {"FUTURE", "WAITING"}
  <2> SUFFICES ASSUME NEW t \in Timer PROVE s[t] \in Settled \cup {"FUTURE", "WAITING"}
    BY Zenon
  <2>1. /\ s0[t] # "FUTURE" => s[t] = s0[t]
        /\ s0[t] = "FUTURE" => s[t] \in {"FUTURE", "WAITING"}
    BY RunAllMoves, Zenon DEF Task
  <2> QED BY <2>1, Zenon
<1>4. ASSUME NEW m \in Manual, s[m] # "FUTURE" PROVE Reached(s, m)
  <2>1. m \in Task /\ Pred[m] \subseteq Task
    BY GraphAssumption, Zenon DEF Task
  <2>2. CASE s0[m] = "FUTURE"
    <3>1. \A x \in {y \in Task : s0[y] = "FUTURE"} :
             IF Reached(s, x) THEN s[x] # "FUTURE" \/ Failed(s) ELSE s[x] = "FUTURE"
      BY DEF RunAll
    <3> QED BY <1>4, <2>1, <2>2, <3>1, Zenon
  <2>3. CASE s0[m] # "FUTURE"
    <3>1. Reached(state, m)
      BY <2>3, Zenon DEF BoundaryTimersFollow
    <3>2. \A p \in Pred[m] : /\ state[p] \in Settled => s[p] \in Settled
                             /\ state[p] = "COMPLETED" => s[p] = "COMPLETED"
      BY <2>1, Zenon DEF Advances
    <3> QED BY <3>1, <3>2, Zenon DEF Reached
  <2> QED BY <2>2, <2>3, Zenon
<1>5. ASSUME NEW t \in Timer, NEW m \in Host[t], s[m] \in Settled
      PROVE  s[t] \in Settled
  <2>1. m \in Manual /\ m \in Task /\ t \in Task
    BY GraphAssumption, Zenon DEF Task
  <2>2. s0[m] = "FUTURE" => s[m] \in {"FUTURE", "READY"}
    BY <2>1, RunAllMoves, Zenon
  <2>3. s0[m] # "FUTURE" => s[m] = s0[m]
    BY <2>1, RunAllMoves, Zenon
  <2>4. s0[m] \in Settled
    BY <1>5, <2>2, <2>3 DEF Settled
  <2>5. s0[t] \in Settled
    BY <2>4, Zenon
  <2> QED BY <1>2, <2>1, <2>5, Zenon
<1>6. \A m : Reached(state, m)' <=> Reached(s, m)
  BY <1>1, Zenon DEF Reached
<1> QED BY <1>1, <1>3, <1>4, <1>5, <1>6, Zenon DEF BoundaryTimersFollow

\* Unless a service task has failed, the boundary timers of a task that has
\* been entered have been entered too.
LEMMA TimersEntered ==
    ASSUME RunToTheEnd, BoundaryTimersFollow, ~Failed(state),
           NEW t \in Timer, NEW m \in Host[t], state[m] # "FUTURE"
    PROVE  state[t] \in Settled \cup {"WAITING"}
<1>1. m \in Manual /\ m \in Task /\ t \in Task
  BY GraphAssumption, Zenon DEF Task
<1>2. initialized
  BY <1>1, Zenon DEF RunToTheEnd
<1>3. Reached(state, m)
  BY <1>1, Zenon DEF BoundaryTimersFollow
<1>4. Pred[t] = Pred[m]
  BY BoundaryAssumption, Zenon
<1>5. Reached(state, t)
  BY <1>3, <1>4, Zenon DEF Reached
<1>6. state[t] # "FUTURE"
  BY <1>1, <1>2, <1>5, Zenon DEF RunToTheEnd
<1> QED BY <1>6, Zenon DEF BoundaryTimersFollow

\* Completing a task preserves it: its boundary timers are cancelled.
LEMMA CompleteFollows ==
    ASSUME IInv, RunToTheEnd, BoundaryTimersFollow, ~Failed(state),
           NEW m \in Manual, NEW woken \in SUBSET Overdue(m),
           state[m] \in Settled \cup {"READY"},
           NEW s \in RunAll(Complete(m, woken)), SaveBlob(s)
    PROVE  BoundaryTimersFollow'
<1> DEFINE s0 == Complete(m, woken)
<1>1. TypeOK /\ s0 \in [Task -> EngineState]
  BY EngineType, Zenon DEF IInv
<1>2. Advances(s)
  BY <1>1, RunsAdvance, Zenon
<1>3. m \notin Timer /\ state[m] # "FUTURE"
  BY TaskAssumption, Zenon DEF Settled
<1>4. \A t \in Timer : s0[t] \in Settled \cup {"FUTURE", "WAITING"}
  BY <1>3, Zenon DEF Complete, BoundaryTimersFollow, Settled, Task
<1>5. \A x \in Manual : s0[x] # "FUTURE" => state[x] # "FUTURE"
  BY <1>3, Zenon DEF Complete, Task, Overdue, Elapsed
<1>6. ASSUME NEW t \in Timer, NEW x \in Host[t], s0[x] \in Settled
      PROVE  s0[t] \in Settled
  <2>1. x \in Manual /\ x \notin Timer /\ t \in Task /\ x \in Task /\ t # m
    BY <1>3, GraphAssumption, TaskAssumption, Zenon DEF Task
  <2>2. CASE x = m
    <3>1. state[t] \in Settled \cup {"WAITING"}
      BY <1>3, <2>2, TimersEntered, Zenon
    <3>2. state[t] = "WAITING" => s0[t] = "CANCELLED"
      BY <2>1, <2>2, Zenon DEF Complete
    <3>3. state[t] \in Settled => s0[t] = state[t]
      BY <1>1, <2>1, CompletePrepares, Zenon
    <3> QED BY <3>1, <3>2, <3>3 DEF Settled
  <2>3. CASE x # m
    <3>1. s0[x] = state[x]
      BY <2>1, <2>3, Zenon DEF Complete, Overdue, Elapsed
    <3>2. state[t] \in Settled
      BY <1>6, <3>1, Zenon DEF BoundaryTimersFollow
    <3>3. s0[t] = state[t]
      BY <1>1, <2>1, <3>2, CompletePrepares, Zenon
    <3> QED BY <3>2, <3>3, Zenon
  <2> QED BY <2>2, <2>3, Zenon
<1> HIDE DEF s0
<1>7. s \in RunAll(s0)
  BY Zenon DEF s0
<1> QED BY <1>1, <1>2, <1>4, <1>5, <1>6, <1>7, RunFollows, Zenon

\* Firing timers preserves it: the timer that interrupts a task cancels the
\* other timers on it.
LEMMA RefreshFollows ==
    ASSUME IInv, RunToTheEnd, BoundaryTimersFollow, ~Failed(state),
           NEW F \in Firings, NEW s \in RunAll(RefreshWaiting(F)), SaveBlob(s)
    PROVE  BoundaryTimersFollow'
<1> DEFINE s0 == RefreshWaiting(F)
<1>1. TypeOK /\ s0 \in [Task -> EngineState]
  BY EngineType, Zenon DEF IInv
<1>2. Advances(s)
  BY <1>1, RunsAdvance, Zenon
<1>3. F \subseteq Timer
  BY Zenon DEF Firings, Elapsed
<1>4. \A t \in Timer : s0[t] \in Settled \cup {"FUTURE", "WAITING"}
  BY Zenon DEF RefreshWaiting, BoundaryTimersFollow, Settled, Task
<1>5. \A x \in Manual : s0[x] # "FUTURE" => state[x] # "FUTURE"
  <2> SUFFICES ASSUME NEW x \in Manual, state[x] = "FUTURE" PROVE s0[x] = "FUTURE"
    BY Zenon
  <2>1. x \in Task /\ x \notin F /\ x \notin Timer
    BY <1>3, TaskAssumption, Zenon DEF Task
  <2>2. ~Interrupted(x, F)
    BY <2>1, Zenon DEF Interrupted
  <2> QED BY <2>1, <2>2, Zenon DEF RefreshWaiting
<1>6. ASSUME NEW t \in Timer, NEW x \in Host[t], s0[x] \in Settled
      PROVE  s0[t] \in Settled
  <2>1. x \in Manual /\ x \notin Timer /\ t \in Task /\ x \in Task /\ x \notin F
    BY <1>3, GraphAssumption, TaskAssumption, Zenon DEF Task
  <2>2. CASE state[x] \in Settled
    <3>1. state[t] \in Settled
      BY <2>2, Zenon DEF BoundaryTimersFollow
    <3>2. s0[t] = state[t]
      BY <1>1, <2>1, <3>1, RefreshKeepsSettled, Zenon
    <3> QED BY <3>1, <3>2, Zenon
  <2>3. CASE state[x] \notin Settled
    <3>1. Interrupted(x, F)
      BY <1>6, <2>1, <2>3, Zenon DEF RefreshWaiting
    <3>2. PICK e \in F : state[x] = "READY" /\ x \in Host[e]
      BY <2>1, <3>1, Zenon DEF Interrupted
    <3>3. state[t] \in Settled \cup {"WAITING"}
      BY <3>2, TimersEntered, Zenon
    <3>4. state[t] = "WAITING" => Interrupted(t, F)
      BY <3>2, Zenon DEF Interrupted
    <3>5. state[t] = "WAITING" => s0[t] \in Settled
      BY <2>1, <3>4, Zenon DEF RefreshWaiting, Settled
    <3>6. state[t] \in Settled => s0[t] = state[t]
      BY <1>1, <2>1, RefreshKeepsSettled, Zenon
    <3> QED BY <3>3, <3>5, <3>6, Zenon
  <2> QED BY <2>2, <2>3, Zenon
<1> HIDE DEF s0
<1>7. s \in RunAll(s0)
  BY Zenon DEF s0
<1> QED BY <1>1, <1>2, <1>4, <1>5, <1>6, <1>7, RunFollows, Zenon

\* Every step preserves it.
LEMMA BoundaryTimersKept ==
    ASSUME IInv, RunToTheEnd, BoundaryTimersFollow, [Next]_vars
    PROVE  BoundaryTimersFollow'
<1>1. TypeOK /\ state \in [Task -> EngineState]
  BY Zenon DEF IInv, TypeOK
<1>2. ASSUME UNCHANGED state PROVE BoundaryTimersFollow'
  BY <1>2, Zenon DEF BoundaryTimersFollow, Reached
<1>3. CASE Initialize
  <2>1. PICK s \in RunAll(state) : SaveBlob(s)
    BY <1>3, Zenon DEF Initialize, SaveProgress, CommitFailure
  <2>2. Advances(s)
    BY <1>1, <2>1, RunsAdvance, Zenon
  <2>3. /\ \A t \in Timer : state[t] \in Settled \cup {"FUTURE", "WAITING"}
        /\ \A t \in Timer : \A m \in Host[t] :
              state[m] \in Settled => state[t] \in Settled
    BY Zenon DEF BoundaryTimersFollow
  <2> QED BY <1>1, <2>1, <2>2, <2>3, RunFollows, Zenon
<1>4. ASSUME NEW u \in Users, NEW m \in Manual, CompleteTask(u, m)
      PROVE  BoundaryTimersFollow'
  <2>1. status \notin Terminal
    BY <1>4, Zenon DEF CompleteTask, IInv, EndedMeansClosed
  <2>2. PICK woken \in SUBSET Overdue(m), s \in [Task -> EngineState] :
           s \in RunAll(Complete(m, woken)) /\ SaveBlob(s)
    BY <1>1, <1>4, <2>1, EngineType, Zenon DEF CompleteTask, SaveProgress
  <2>3. ~Failed(state)
    BY <2>1, Zenon DEF IInv, FailureIsVisible, Terminal
  <2>4. state[m] \in Settled \cup {"READY"}
    BY <1>4, Zenon DEF CompleteTask, Open, IInv, ItemIsEntered
  <2> QED BY <2>2, <2>3, <2>4, CompleteFollows, Zenon
<1>5. CASE RetryPlain
  BY <1>2, <1>5, Zenon DEF RetryPlain
<1>6. CASE RetryService
  <2>1. PICK s \in RunAll(ResetErrored) : SaveBlob(s)
    BY <1>6, Zenon DEF RetryService, SaveProgress, CommitFailure
  <2>2. ResetErrored \in [Task -> EngineState] /\ Advances(s)
    BY <1>1, <2>1, EngineType, RunsAdvance, Zenon
  <2>3. \A t \in Timer : ResetErrored[t] = state[t]
    BY Zenon DEF ResetErrored, BoundaryTimersFollow, Settled, Task
  <2>4. \A m \in Manual : ResetErrored[m] = state[m] \/ ResetErrored[m] = "FUTURE"
    BY Zenon DEF ResetErrored, Task
  <2>5. Host \in [Timer -> SUBSET Manual] /\ "FUTURE" \notin Settled
    BY GraphAssumption, Zenon DEF Settled
  <2>6. /\ \A t \in Timer : ResetErrored[t] \in Settled \cup {"FUTURE", "WAITING"}
        /\ \A m \in Manual : ResetErrored[m] # "FUTURE" => state[m] # "FUTURE"
        /\ \A t \in Timer : \A m \in Host[t] :
              ResetErrored[m] \in Settled => ResetErrored[t] \in Settled
    BY <2>3, <2>4, <2>5, Zenon DEF BoundaryTimersFollow
  <2> QED BY <2>1, <2>2, <2>6, RunFollows, Zenon
<1>7. CASE RunTimerJob
  <2>1. CASE UNCHANGED state
    BY <1>2, <2>1, Zenon
  <2>2. CASE state' # state
    <3>1. PICK F \in Firings, s \in [Task -> EngineState] :
             s \in RunAll(RefreshWaiting(F)) /\ SaveBlob(s)
      BY <1>1, <1>7, <2>2, EngineType, Zenon DEF RunTimerJob, SaveProgress, CommitFailure
    <3>2. ~Failed(state)
      BY <1>7, <2>2, Zenon DEF RunTimerJob, Refreshable, IInv, FailureIsVisible
    <3> QED BY <3>1, <3>2, RefreshFollows, Zenon
  <2> QED BY <2>1, <2>2, Zenon
<1>8. CASE RunRetryJob
  BY <1>2, <1>5, <1>6, <1>8, Zenon DEF RunRetryJob, Retry
<1>9. CASE \/ \E u \in Users, m \in Manual : ClaimTask(u, m)
           \/ Suspend \/ Resume \/ ScheduleRetry \/ Tick
           \/ \E u \in Users \cup {NoUser} : ErrorInstance(u)
           \/ \E u \in Users : Terminate(u)
           \/ UNCHANGED vars
  BY <1>2, <1>9, Zenon DEF ClaimTask, Suspend, Resume, ScheduleRetry, Tick,
                           ErrorInstance, Terminate, vars
<1> QED
  BY <1>3, <1>4, <1>5, <1>6, <1>7, <1>8, <1>9, Zenon DEF Next, Retry

\* Completing a settled task once more is a run with nothing to do, unless a
\* timer behind it has elapsed.
LEMMA ReworkRuns ==
    ASSUME IInv, RunToTheEnd, BoundaryTimersFollow, ~Failed(state),
           NEW m \in Manual, state[m] \in Settled,
           NEW s \in RunAll(Complete(m, {}))
    PROVE  \A t \in Task \ {m} : s[t] = state[t]
<1> DEFINE s0 == Complete(m, {})
<1>1. s0 \in [Task -> EngineState] /\ m \in Task
  BY EngineType, Zenon DEF IInv, Task
<1>2. \A t \in Task \ {m} : s0[t] = state[t]
  <2>1. \A t \in Timer : m \in Host[t] => state[t] # "WAITING"
    BY Zenon DEF BoundaryTimersFollow, Settled
  <2> QED BY <2>1, Zenon DEF Complete
<1>3. s0[m] \in Settled /\ (s0[m] = "COMPLETED" <=> state[m] = "COMPLETED")
  BY <1>1 DEF Complete, Settled
<1>4. \A t \in Task : /\ s0[t] \in Settled <=> state[t] \in Settled
                      /\ s0[t] = "COMPLETED" <=> state[t] = "COMPLETED"
                      /\ s0[t] = "FUTURE" => state[t] = "FUTURE"
  BY <1>2, <1>3, Zenon DEF Settled
<1>5. initialized
  BY <1>1, Zenon DEF RunToTheEnd, Settled
<1>6. ASSUME NEW t \in Task, s0[t] = "FUTURE" PROVE ~Reached(s0, t)
  <2>1. ~Reached(state, t)
    BY <1>4, <1>5, <1>6, Zenon DEF RunToTheEnd
  <2>2. Pred[t] \subseteq Task
    BY GraphAssumption, Zenon
  <2> QED BY <1>4, <2>1, <2>2, Zenon DEF Reached
<1> HIDE DEF s0
<1>7. s \in RunAll(s0)
  BY Zenon DEF s0
<1>8. s = s0
  BY <1>1, <1>6, <1>7, RunAllAgain, Zenon
<1> QED BY <1>2, <1>8, Zenon

\* Completing once more what retry_process_instance has reopened moves no other
\* task, for any process diagram: the workflow had run as far as it can, the
\* boundary timers of the task are over, and a task that was cancelled leads
\* nowhere.
THEOREM ReworkIsBookkeeping == Spec => ReworkMovesNothing
<1> DEFINE A(m) == (/\ state[m] \in Settled
                    /\ Open(item[m])
                    /\ item'[m].status = "COMPLETED"
                    /\ item'[m].by # NoUser)
                   => \/ Overdue(m) # {}
                      \/ /\ \A t \in Task \ {m} : state'[t] = state[t]
                         /\ UNCHANGED due
<1>1. Init => RunToTheEnd /\ BoundaryTimersFollow
  <2> SUFFICES ASSUME Init PROVE RunToTheEnd /\ BoundaryTimersFollow
    BY Zenon
  <2>1. \A t \in Task : state[t] = "FUTURE"
    BY Zenon DEF Init
  <2>2. Host \in [Timer -> SUBSET Manual]
    BY GraphAssumption, Zenon
  <2> QED BY <2>1, <2>2, Zenon DEF Init, RunToTheEnd, BoundaryTimersFollow, Settled, Task
<1>2. IInv /\ RunToTheEnd /\ BoundaryTimersFollow /\ [Next]_vars
         => RunToTheEnd' /\ BoundaryTimersFollow'
  BY RunToTheEndKept, BoundaryTimersKept, Zenon
<1>3. ASSUME IInv, RunToTheEnd, BoundaryTimersFollow, [Next]_vars
      PROVE  [\A m \in Manual : A(m)]_vars
  <2> SUFFICES ASSUME Next, NEW m \in Manual, state[m] \in Settled,
                      Open(item[m]), item'[m].status = "COMPLETED",
                      item'[m].by # NoUser, Overdue(m) = {}
               PROVE  /\ \A t \in Task \ {m} : state'[t] = state[t]
                      /\ UNCHANGED due
    BY <1>3, Zenon
  <2>1. PICK u \in Users : CompleteTask(u, m)
    BY <1>3, OnlyUsersComplete, Zenon
  <2>2. status \notin Terminal
    BY <1>3, <2>1, Zenon DEF CompleteTask, IInv, EndedMeansClosed
  <2>3. ~Failed(state) /\ TypeOK /\ m \notin Timer
    BY <1>3, <2>2, TaskAssumption, Zenon DEF IInv, FailureIsVisible, Terminal
  <2>4. PICK s \in RunAll(Complete(m, {})) : SaveBlob(s)
    <3>1. PICK woken \in SUBSET Overdue(m) :
             \E s \in RunAll(Complete(m, woken)) : SaveBlob(s)
      BY <2>1, <2>2, Zenon DEF CompleteTask, SaveProgress
    <3>2. woken = {}
      BY Zenon
    <3> QED BY <3>1, <3>2, Zenon
  <2>5. \A t \in Task \ {m} : s[t] = state[t]
    BY <1>3, <2>3, <2>4, ReworkRuns, Zenon
  <2>6. DueOf(s) = due
    <3>1. due \in [Timer -> Nat] /\ \A t \in Timer : state[t] # "WAITING" => due[t] = 0
      BY <1>3, <2>3, Zenon DEF TypeOK, RunToTheEnd
    <3>2. \A t \in Timer : s[t] = state[t]
      BY <2>3, <2>5, Zenon DEF Task
    <3> QED BY <3>1, <3>2 DEF DueOf
  <2> QED BY <2>4, <2>5, <2>6, Zenon DEF SaveBlob
<1> QED
  BY <1>1, <1>2, <1>3, Invariance, PTL DEF Spec, ReworkMovesNothing
=============================================================================

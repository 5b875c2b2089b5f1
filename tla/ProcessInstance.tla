-------------------------- MODULE ProcessInstance --------------------------
(***************************************************************************)
(* One process instance of m8flow_core as the database shows it between    *)
(* committed commands: its status, the serialized SpiffWorkflow state,     *)
(* the task rows and work items derived from it, its two scheduler jobs    *)
(* and the most recent lifecycle event.  Every action is one API command   *)
(* or one scheduler job, run in a transaction that the caller commits; a   *)
(* command that raises is rolled back and leaves no step, except for what  *)
(* the library itself commits in an independent session.                   *)
(*                                                                         *)
(* Timestamps are distances from the present: Tick brings every pending    *)
(* due date one unit closer, and 0 means due.                              *)
(***************************************************************************)
EXTENDS Integers

CONSTANTS
    Users,     \* users who are potential owners of the work items
    NoUser,    \* NULL in actual_owner_id and completed_by_user_id
    Manual,    \* user and manual tasks of the BPMN process
    Service,   \* service tasks
    Timer,     \* intermediate catch timers and interrupting boundary timers
    Pred,      \* Pred[t]: the tasks whose completion leads to t
    Host,      \* Host[t]: the set of manual tasks boundary timer t sits on
    Delay,     \* Delay[t]: the duration of timer t
    MaxRetryDelay \* how far ahead a retry is scheduled

Task == Manual \cup Service \cup Timer

ASSUME UserAssumption == NoUser \notin Users

ASSUME TaskAssumption ==
    /\ Manual \cap Service = {}
    /\ Manual \cap Timer = {}
    /\ Service \cap Timer = {}

\* The tasks are those of one run, a tree in the blob: a loop in the diagram
\* makes new tasks, so none comes before itself.
ASSUME GraphAssumption ==
    /\ Pred \in [Task -> SUBSET Task]
    /\ \A S \in SUBSET Task : S # {} => \E t \in S : Pred[t] \cap S = {}
    /\ Host \in [Timer -> SUBSET Manual]

\* A boundary timer is entered with the task it sits on.
ASSUME BoundaryAssumption ==
    \A t \in Timer : \A m \in Host[t] : Pred[t] = Pred[m]

ASSUME TimeAssumption ==
    /\ Delay \in [Timer -> Nat]
    /\ MaxRetryDelay \in Nat

VARIABLES
    status,      \* process_instance.status
    initialized, \* workflow_state_json is not NULL
    state,       \* the task states inside the serialized workflow
    due,         \* time left to each waiting timer, inside the same blob
    row,         \* task.state, "NONE" before the row exists
    item,        \* the work item of each manual task
    timerJob,    \* run_at of the intermediate_timer job
    retryJob,    \* run_at of the process_retry job
    lastEvent    \* the last process_instance_* event recorded

vars == <<status, initialized, state, due, row, item, timerJob, retryJob,
          lastEvent>>

Terminal == {"complete", "error", "terminated"}

Status == Terminal \cup {"not_started", "running", "waiting", "suspended",
                         "user_input_required"}

\* A REDONE task is COMPLETED, but was CANCELLED before: cancel() has dropped
\* its children, so that nothing follows from it.
Settled == {"COMPLETED", "CANCELLED", "REDONE"}

EngineState == Settled \cup {"FUTURE", "READY", "WAITING", "ERROR"}

RowState == (EngineState \ {"REDONE"}) \cup {"NONE", "TERMINATED"}

ItemState == {"NONE", "READY", "CLAIMED", "COMPLETED", "TERMINATED",
              "CANCELLED", "ERROR"}

Item == [status : ItemState, owner : Users \cup {NoUser},
         by : Users \cup {NoUser}]

NoJob == -1

Event == {"none", "created", "suspended", "resumed", "error", "retried",
          "completed", "terminated"}

\* Status, blob, rows, work items, jobs and history have the values the columns
\* and enums of the models allow, and due dates of waiting timers exist.
TypeOK ==
    /\ status \in Status
    /\ initialized \in BOOLEAN
    /\ state \in [Task -> EngineState]
    /\ due \in [Timer -> Nat]
    /\ row \in [Task -> RowState]
    /\ item \in [Manual -> Item]
    /\ timerJob \in Nat \cup {NoJob}
    /\ retryJob \in Nat \cup {NoJob}
    /\ lastEvent \in Event

Init ==
    /\ status = "not_started"
    /\ initialized = FALSE
    /\ state = [t \in Task |-> "FUTURE"]
    /\ due = [t \in Timer |-> 0]
    /\ row = [t \in Task |-> "NONE"]
    /\ item = [m \in Manual |->
                  [status |-> "NONE", owner |-> NoUser, by |-> NoUser]]
    /\ timerJob = NoJob
    /\ retryJob = NoJob
    /\ lastEvent = "none"

-----------------------------------------------------------------------------
(***************************************************************************)
(* SpiffWorkflow, as far as the runtime relies on it.                      *)
(***************************************************************************)

\* A token reaches t in s: every branch leading to it is over, one by completion.
Reached(s, t) ==
    \/ Pred[t] = {}
    \/ /\ \A p \in Pred[t] : s[p] \in Settled
       /\ \E p \in Pred[t] : s[p] = "COMPLETED"

Failed(s) == \E t \in Service : s[t] = "ERROR"

\* The state in which run_all leaves a task that a token has reached.
Entered(t, failing) ==
    IF t \in Manual THEN "READY"
    ELSE IF t \in Timer THEN "WAITING"
    ELSE IF t \in failing THEN "ERROR" ELSE "COMPLETED"

Move(s0, entered, failing) ==
    [t \in Task |-> IF t \in entered THEN Entered(t, failing) ELSE s0[t]]

\* workflow.run_all(halt_on_manual=True): the states it can leave behind.  A
\* service task that raises stops the run, so reached tasks may stay FUTURE.
RunAll(s0) ==
    LET ahead == {t \in Task : s0[t] = "FUTURE"} IN
    {s \in {Move(s0, entered, failing) :
               entered \in SUBSET ahead, failing \in SUBSET Service} :
        /\ \A t \in ahead :
              IF Reached(s, t) THEN s[t] # "FUTURE" \/ Failed(s)
              ELSE s[t] = "FUTURE"
        /\ \A t, u \in Service : s[t] = "ERROR" /\ s[u] = "ERROR" => t = u}

Elapsed == {t \in Timer : state[t] = "WAITING" /\ due[t] = 0}

\* Timers that complete() of m may find elapsed: it updates the children of m,
\* and a timer behind m is one of them unless a gateway stands between.
Overdue(m) == {t \in Elapsed : Host[t] = {} /\ Pred[t] = {m}}

\* Mutant: all waiting tasks are refreshed before the run.
CompleteRefreshing(m, woken) ==
    [t \in Task |->
        IF t = m THEN "COMPLETED"
        ELSE IF t \in Timer /\ state[t] = "WAITING" /\ m \in Host[t]
             THEN "CANCELLED"
        ELSE IF t \in Elapsed THEN "COMPLETED" ELSE state[t]]

\* task.complete(), whatever the state of m: its interrupting boundary timers
\* are cancelled, and the children in woken fire.
Complete(m, woken) ==
    [t \in Task |->
        IF t = m
        THEN IF state[m] \in {"CANCELLED", "REDONE"} THEN "REDONE"
             ELSE "COMPLETED"
        ELSE IF t \in Timer /\ state[t] = "WAITING" /\ m \in Host[t]
             THEN "CANCELLED"
        ELSE IF t \in woken THEN "COMPLETED" ELSE state[t]]

\* The elapsed timers that fire in one refresh: of those on one task, the first
\* to run cancels the others.
Firings ==
    {F \in SUBSET Elapsed :
        /\ \A t, u \in F : t # u => Host[t] \cap Host[u] = {}
        /\ \A t \in Elapsed \ F : \E u \in F : Host[t] \cap Host[u] # {}}

\* A firing boundary timer interrupts its host and the other timers on it.
Interrupted(t, F) ==
    \E e \in F :
        \/ t \in Manual /\ state[t] = "READY" /\ t \in Host[e]
        \/ t \in Timer /\ state[t] = "WAITING" /\ Host[t] \cap Host[e] # {}

\* workflow.refresh_waiting_tasks(): elapsed timers fire.
RefreshWaiting(F) ==
    [t \in Task |->
        IF t \in F THEN "COMPLETED"
        ELSE IF Interrupted(t, F) THEN "CANCELLED" ELSE state[t]]

\* Mutant: the retry restarts the whole workflow.
ResetEverything == [t \in Task |-> "FUTURE"]

\* workflow.reset_from_task_id for every errored service task.
ResetErrored ==
    [t \in Task |-> IF state[t] = "ERROR" THEN "FUTURE" ELSE state[t]]

\* workflow.completed of a workflow that has run as far as it can.
Completed(s) == \A t \in Task : s[t] \in Settled \cup {"FUTURE"}

-----------------------------------------------------------------------------
(***************************************************************************)
(* Persistence helpers of workflow_runtime, process_instances, work_items. *)
(***************************************************************************)

Open(i) == i.status \in {"READY", "CLAIMED"}

\* _update_process_instance_status_from_workflow
StatusFromWorkflow(s) ==
    IF Completed(s) THEN "complete"
    ELSE IF \E m \in Manual : s[m] = "READY" THEN "user_input_required"
    ELSE IF \E t \in Timer : s[t] = "WAITING" THEN "waiting"
    ELSE "running"

DueOf(s) ==
    [t \in Timer |-> IF s[t] # "WAITING" THEN 0
                     ELSE IF state[t] = "WAITING" THEN due[t] ELSE Delay[t]]

\* The blob itself; all that _persist_workflow_recovery_state writes.
SaveBlob(s) ==
    /\ initialized' = TRUE
    /\ state' = s
    /\ due' = DueOf(s)

\* Mutant: the job is scheduled for the latest waiting timer.
SyncTimerJobLatest(s) ==
    LET dates == {DueOf(s)[t] : t \in {x \in Timer : s[x] = "WAITING"}}
    IN  IF dates = {} THEN timerJob' = NoJob
        ELSE timerJob' \in dates /\ \A d \in dates : timerJob' >= d

\* _sync_intermediate_timer_scheduler_job: one job, at the earliest due date.
SyncTimerJob(s) ==
    LET dates == {DueOf(s)[t] : t \in {x \in Timer : s[x] = "WAITING"}}
    IN  IF dates = {} THEN timerJob' = NoJob
        ELSE timerJob' \in dates /\ \A d \in dates : timerJob' <= d

\* close_work_item
CloseWorkItem(i, closedAs, u) ==
    [status |-> closedAs, owner |-> IF u = NoUser THEN i.owner ELSE u,
     by |-> u]

\* reopen_work_item, prepare_work_item_for_ready_state, a new work item
ReadyItem == [status |-> "READY", owner |-> NoUser, by |-> NoUser]

\* _close_inactive_work_item with _inactive_work_item_status
CloseInactive(i, taskState) ==
    IF ~Open(i) THEN i
    ELSE CloseWorkItem(i, IF taskState = "REDONE" THEN "COMPLETED"
                          ELSE IF taskState \in Settled \cup {"ERROR"}
                          THEN taskState ELSE "TERMINATED", NoUser)

\* _sync_inactive_work_items
SyncInactive(its, s) ==
    [m \in Manual |-> IF s[m] = "READY" THEN its[m]
                      ELSE CloseInactive(its[m], s[m])]

\* _materialize_ready_manual_tasks with _upsert_work_item
MaterializeReady(its, s) ==
    [m \in Manual |-> IF s[m] = "READY" THEN ReadyItem ELSE its[m]]

\* _sync_task_models_from_workflow: each task row gets the engine's state.
TaskRows(s) ==
    [t \in Task |-> IF s[t] = "REDONE" THEN "COMPLETED" ELSE s[t]]

\* The tail that initialize, advance, refresh and service retry share.
SaveProgress(s, its) ==
    /\ SaveBlob(s)
    /\ row' = TaskRows(s)
    /\ SyncTimerJob(s)
    /\ item' = MaterializeReady(SyncInactive(its, s), s)
    /\ status' = StatusFromWorkflow(s)

\* _close_process_instance_runtime_state
CloseRows(rows) ==
    [t \in Task |-> IF rows[t] \in {"NONE", "COMPLETED"} THEN rows[t]
                    ELSE "TERMINATED"]

\* Mutant: a claimed work item is taken for closed.
CloseItemsUnclaimed(its, u) ==
    [m \in Manual |-> IF its[m].status = "READY"
                      THEN CloseWorkItem(its[m], "TERMINATED", u) ELSE its[m]]

\* Mutant: open work items are closed as if somebody had done them.
CloseItemsCompleted(its, u) ==
    [m \in Manual |-> IF Open(its[m])
                      THEN CloseWorkItem(its[m], "COMPLETED", u) ELSE its[m]]

CloseItems(its, u) ==
    [m \in Manual |-> IF Open(its[m])
                      THEN CloseWorkItem(its[m], "TERMINATED", u) ELSE its[m]]

\* _reopen_process_instance_runtime_state
ReopenRows ==
    [t \in Task |-> IF row[t] = "TERMINATED" THEN "READY" ELSE row[t]]

\* Mutant: only cancelled work items are reopened.
ReopenItemsCancelled ==
    [m \in Manual |-> IF item[m].status = "CANCELLED" THEN ReadyItem
                      ELSE item[m]]

ReopenItems ==
    [m \in Manual |->
        IF item[m].status = "NONE" \/ Open(item[m]) THEN item[m]
        ELSE ReadyItem]

\* Mutant: the independent session saves the blob but not the error status.
CommitFailureSilently(s) ==
    /\ SaveBlob(s)
    /\ row' = CloseRows(row)
    /\ item' = CloseItems(item, NoUser)
    /\ lastEvent' = "error"
    /\ UNCHANGED <<status, timerJob, retryJob>>

\* Mutant: a failed attempt uses up the retry job.
CommitFailureDroppingRetry(s) ==
    /\ SaveBlob(s)
    /\ status' = "error"
    /\ row' = CloseRows(row)
    /\ item' = CloseItems(item, NoUser)
    /\ lastEvent' = "error"
    /\ retryJob' = NoJob
    /\ UNCHANGED timerJob

\* The failure state committed by the independent session (recovery_only):
\* the blob and the error transition, no task rows and no timer job.
CommitFailure(s) ==
    /\ SaveBlob(s)
    /\ status' = "error"
    /\ row' = CloseRows(row)
    /\ item' = CloseItems(item, NoUser)
    /\ lastEvent' = "error"
    /\ UNCHANGED <<timerJob, retryJob>>

-----------------------------------------------------------------------------
(***************************************************************************)
(* Commands.                                                               *)
(***************************************************************************)

\* initialize_process_instance_workflow (and _from_definition after the
\* baseline row is committed).
Initialize ==
    /\ status \notin Terminal
    /\ ~initialized
    /\ \E s \in RunAll(state) :
          \/ /\ ~Failed(s)
             /\ SaveProgress(s, item)
             /\ lastEvent' = "created"
             /\ UNCHANGED retryJob
          \/ /\ Failed(s)
             /\ CommitFailure(s)

\* claim_task
ClaimTask(u, m) ==
    /\ Open(item[m])
    /\ item[m].owner \in {NoUser, u}
    /\ item' = [item EXCEPT ![m].owner = u, ![m].status = "CLAIMED"]
    /\ UNCHANGED <<status, initialized, state, due, row, timerJob, retryJob,
                   lastEvent>>

\* complete_task up to the call of advance_process_instance_workflow
CompletedItem(u, m) ==
    [item EXCEPT ![m] = [status |-> "COMPLETED", owner |-> u, by |-> u]]

\* complete_task.  A service task that fails behind it raises; a caller that
\* commits all the same keeps the in-session error transition.
CompleteTask(u, m) ==
    /\ Open(item[m])
    /\ item[m].owner = u
    /\ IF status \in Terminal
       THEN /\ item' = CompletedItem(u, m)
            /\ row' = [row EXCEPT ![m] = "COMPLETED"]
            /\ UNCHANGED <<status, initialized, state, due, timerJob,
                           retryJob, lastEvent>>
       ELSE \E woken \in SUBSET Overdue(m) :
            \E s \in RunAll(Complete(m, woken)) :
               \/ /\ ~Failed(s)
                  /\ SaveProgress(s, CompletedItem(u, m))
                  /\ lastEvent' = IF status' = "complete" THEN "completed"
                                  ELSE lastEvent
                  /\ UNCHANGED retryJob
               \/ /\ Failed(s)
                  /\ SaveBlob(s)
                  /\ SyncTimerJob(s)
                  /\ row' = CloseRows(TaskRows(s))
                  /\ item' = CloseItems(SyncInactive(CompletedItem(u, m), s),
                                        NoUser)
                  /\ status' = "error"
                  /\ lastEvent' = "error"
                  /\ UNCHANGED retryJob

\* suspend_process_instance
Suspend ==
    /\ status \notin Terminal \cup {"suspended"}
    /\ status' = "suspended"
    /\ lastEvent' = "suspended"
    /\ UNCHANGED <<initialized, state, due, row, item, timerJob, retryJob>>

\* resume_process_instance
Resume ==
    /\ status = "suspended"
    /\ status' = "running"
    /\ lastEvent' = "resumed"
    /\ UNCHANGED <<initialized, state, due, row, item, timerJob, retryJob>>

\* error_process_instance, by a user or by the application (NoUser)
ErrorInstance(u) ==
    /\ status \notin Terminal
    /\ status' = "error"
    /\ row' = CloseRows(row)
    /\ item' = CloseItems(item, u)
    /\ lastEvent' = "error"
    /\ UNCHANGED <<initialized, state, due, timerJob, retryJob>>

\* terminate_process_instance
Terminate(u) ==
    /\ status \notin Terminal
    /\ status' = "terminated"
    /\ row' = CloseRows(row)
    /\ item' = CloseItems(item, u)
    /\ lastEvent' = "terminated"
    /\ UNCHANGED <<initialized, state, due, timerJob, retryJob>>

\* schedule_process_instance_retry: an upsert, so a later call moves the job
ScheduleRetry ==
    /\ status = "error"
    /\ retryJob' \in 0 .. MaxRetryDelay
    /\ UNCHANGED <<status, initialized, state, due, row, item, timerJob,
                   lastEvent>>

\* Mutant: _delete_scheduled_process_retry_job is not called.
RetryPlainKeepingJob ==
    /\ status = "error"
    /\ ~Failed(state)
    /\ status' = "running"
    /\ row' = ReopenRows
    /\ item' = ReopenItems
    /\ lastEvent' = "retried"
    /\ UNCHANGED <<initialized, state, due, timerJob, retryJob>>

\* retry_process_instance without an errored service task in the blob
RetryPlain ==
    /\ status = "error"
    /\ ~Failed(state)
    /\ status' = "running"
    /\ row' = ReopenRows
    /\ item' = ReopenItems
    /\ retryJob' = NoJob
    /\ lastEvent' = "retried"
    /\ UNCHANGED <<initialized, state, due, timerJob>>

\* retry_process_instance through retry_errored_service_task_workflow_if_needed
RetryService ==
    /\ status = "error"
    /\ Failed(state)
    /\ \E s \in RunAll(ResetErrored) :
          \/ /\ ~Failed(s)
             /\ SaveProgress(s, ReopenItems)
             /\ retryJob' = NoJob
             /\ lastEvent' = "retried"
          \/ /\ Failed(s)
             /\ CommitFailure(s)

Retry == RetryPlain \/ RetryService

-----------------------------------------------------------------------------
(***************************************************************************)
(* Scheduler jobs and time.                                                *)
(***************************************************************************)

\* Mutant: an instance that also waits for users is not refreshed.
RefreshableWaitingOnly == {"waiting"}

\* The statuses in which _execute_intermediate_timer_job refreshes.
Refreshable == {"waiting", "user_input_required"}

\* _execute_intermediate_timer_job with the refresh it calls
RunTimerJob ==
    /\ timerJob = 0
    /\ \/ /\ \/ status \notin Refreshable
             \/ ~initialized
          /\ timerJob' = NoJob
          /\ UNCHANGED <<status, initialized, state, due, row, item,
                         retryJob, lastEvent>>
       \/ /\ status \in Refreshable
          /\ initialized
          /\ \E F \in Firings : \E s \in RunAll(RefreshWaiting(F)) :
                \/ /\ ~Failed(s)
                   /\ SaveProgress(s, item)
                   /\ UNCHANGED <<retryJob, lastEvent>>
                \/ /\ Failed(s)
                   /\ CommitFailure(s)

\* _execute_process_retry_job
RunRetryJob ==
    /\ retryJob = 0
    /\ IF status # "error"
       THEN /\ retryJob' = NoJob
            /\ UNCHANGED <<status, initialized, state, due, row, item,
                           timerJob, lastEvent>>
       ELSE Retry

Closer(d) == IF d > 0 THEN d - 1 ELSE d

\* The clock that the caller of run_due_scheduler_jobs reads moves on.
Tick ==
    /\ \/ timerJob > 0
       \/ retryJob > 0
       \/ \E t \in Timer : due[t] > 0
    /\ timerJob' = Closer(timerJob)
    /\ retryJob' = Closer(retryJob)
    /\ due' = [t \in Timer |-> Closer(due[t])]
    /\ UNCHANGED <<status, initialized, state, row, item, lastEvent>>

Next ==
    \/ Initialize
    \/ \E u \in Users, m \in Manual : ClaimTask(u, m)
    \/ \E u \in Users, m \in Manual : CompleteTask(u, m)
    \/ Suspend
    \/ Resume
    \/ \E u \in Users \cup {NoUser} : ErrorInstance(u)
    \/ \E u \in Users : Terminate(u)
    \/ ScheduleRetry
    \/ Retry
    \/ RunTimerJob
    \/ RunRetryJob
    \/ Tick

Spec == Init /\ [][Next]_vars

-----------------------------------------------------------------------------
(***************************************************************************)
(* Safety.                                                                 *)
(***************************************************************************)

\* A process instance that has ended offers no work: claim_task and
\* complete_task look only at the work item, never at the instance, so every
\* way into a terminal status must have closed every open item.
EndedMeansClosed ==
    status \in Terminal => \A m \in Manual : ~Open(item[m])

\* A failed service task is never hidden behind a live status: as long as the
\* blob holds an ERROR task the instance is in error, the only status from
\* which retry_process_instance will run that task again.
FailureIsVisible ==
    Failed(state) => status = "error"

\* While the instance is alive, a manual task the engine holds READY can be
\* worked on: it has an open work item.
NoLostWork ==
    status \notin Terminal =>
        \A m \in Manual : state[m] = "READY" => Open(item[m])

\* A task whose row or work item says COMPLETED is over for the engine too.
NoPhantomCompletion ==
    \A m \in Manual :
        (row[m] = "COMPLETED" \/ item[m].status = "COMPLETED")
            => state[m] \in Settled

Waiting == {t \in Timer : state[t] = "WAITING"}

\* In the two statuses in which _execute_intermediate_timer_job refreshes the
\* workflow, the job exists whenever a timer waits and is due exactly when
\* the earliest of them is.
TimerJobCurrent ==
    status \in {"waiting", "user_input_required"} =>
        IF Waiting = {} THEN timerJob = NoJob
        ELSE /\ \E t \in Waiting : timerJob = due[t]
             /\ \A t \in Waiting : timerJob <= due[t]

\* A process_retry job belongs to an errored instance: whatever takes the
\* instance out of error deletes it, so the status test of
\* _execute_process_retry_job never drops a retry somebody asked for.
RetryJobNeedsError ==
    retryJob # NoJob => status = "error"

\* The newest lifecycle event explains a status that an operator set.
AuditMatchesStatus ==
    status \in {"suspended", "error", "terminated"} => lastEvent = status

\* A completed or terminated instance never changes again: no command and no
\* leftover scheduler job touches its status, workflow or work items.
EndedIsFrozen ==
    [][(status \in {"complete", "terminated"}) =>
          UNCHANGED <<status, state, row, item, retryJob, lastEvent>>]_vars

\* The engine never takes back a settled task: what advance, refresh and retry
\* store keeps a completed task completed.  complete() does not look at the
\* state of its task, so a task that a timer has cancelled becomes completed
\* after all, but only when a user completes the work item that a retry of the
\* instance has reopened.
SettledStaysSettled ==
    [][\A t \in Task :
          state[t] \in Settled =>
             \/ state'[t] = state[t]
             \/ /\ state[t] = "CANCELLED" /\ state'[t] = "REDONE"
                /\ t \in Manual /\ Open(item[t]) /\ item'[t].by # NoUser]_vars

\* A work item is created when its task becomes READY, and from then on the
\* task is READY or settled.  So reopening work items, as retry does, never
\* offers a task the engine has not reached.
ItemIsEntered ==
    \A m \in Manual :
        item[m].status # "NONE" => state[m] \in Settled \cup {"READY"}

\* Retry reopens the work items of tasks that are over, of those a user has
\* completed and of those a timer has cancelled.  complete() runs again for such
\* an item, but no other task moves: none is entered or run twice, no service
\* is called.  The exception is a timer right behind the task that has elapsed
\* and is still to fire: it may fire now, before its job runs.
ReworkMovesNothing ==
    [][\A m \in Manual :
          (/\ state[m] \in Settled
           /\ Open(item[m])
           /\ item'[m].status = "COMPLETED"
           /\ item'[m].by # NoUser)
          => \/ Overdue(m) # {}
             \/ /\ \A t \in Task \ {m} : state'[t] = state[t]
                /\ UNCHANGED due]_vars

-----------------------------------------------------------------------------
(***************************************************************************)
(* Liveness.  The application polls run_due_scheduler_jobs and its clock   *)
(* advances; a retry that may succeed again and again does succeed.  What  *)
(* users and operators do is not fair.                                     *)
(***************************************************************************)
FairSpec ==
    /\ Spec
    /\ WF_vars(Tick)
    /\ WF_vars(RunTimerJob)
    /\ SF_vars(RunRetryJob /\ status' # "error")

\* A timer of an instance that stays in waiting or user_input_required fires,
\* or its firing fails and puts the instance in error; it is never forgotten.
TimerProgress ==
    \A t \in Timer :
        (state[t] = "WAITING" /\ status \in {"waiting", "user_input_required"})
            ~> (\/ state[t] # "WAITING"
                \/ status \notin {"waiting", "user_input_required"})

\* A scheduled retry survives the failures of the service task it reruns: the
\* job stays until an attempt succeeds, unless operators keep moving its date.
ScheduledRetryRecovers ==
    \/ []<><<ScheduleRetry>>_vars
    \/ (retryJob # NoJob) ~> (status # "error")

-----------------------------------------------------------------------------
(***************************************************************************)
(* A statement of the documentation that the code does not meet.           *)
(***************************************************************************)

\* A timer of an instance that is neither ended nor suspended fires, as the
\* documentation of intermediate timers promises.
TimerFires ==
    \A t \in Timer :
        (state[t] = "WAITING" /\ status \notin Terminal \cup {"suspended"})
            ~> (\/ state[t] # "WAITING"
                \/ status \in Terminal \cup {"suspended"})
=============================================================================

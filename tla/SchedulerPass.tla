--------------------------- MODULE SchedulerPass ---------------------------
(***************************************************************************)
(* run_due_scheduler_jobs as a transaction.  One poller claims the first   *)
(* jobs that are due and runs them one after the other in one outer        *)
(* session, which the application commits or rolls back at the end.  A     *)
(* service task that fails is recorded by an independent session that      *)
(* commits at once, and a timer start commits a process instance shell the *)
(* same way before it runs anything.  The outer session keeps its row      *)
(* locks to the end and flushes only where the code does.                  *)
(***************************************************************************)
EXTENDS Integers, Sequences, SequencesExt

CONSTANTS
    Inst,        \* process instances
    Retry,       \* process_retry jobs
    Timer,       \* intermediate_timer jobs
    Start,       \* timer_start jobs
    On,          \* On[j]: the process instance of a retry or timer job
    Sound,       \* jobs that never fail; the others may fail each time
    Unrecorded,  \* jobs that may raise something no independent session records
    Limit,       \* the limit argument
    CommitOnError, \* whether the application commits a pass that has raised:
                   \* the policies considered
    MaxCrashes   \* bound: crashes of the poller

Job == Retry \cup Timer \cup Start

ASSUME JobAssumption ==
    /\ On \in [Retry \cup Timer -> Inst]
    /\ \A jobs \in {Retry, Timer} : \A j, k \in jobs : On[j] = On[k] => j = k
    /\ Start \cap (Retry \cup Timer) = {}
    /\ Sound \subseteq Job /\ Unrecorded \subseteq Job
    /\ Limit \in Nat \ {0}
    /\ CommitOnError \subseteq BOOLEAN
    /\ MaxCrashes \in Nat

VARIABLES
    inst,     \* committed: status, and whether the blob has a failed task
    table,    \* committed: the due jobs in the order of run_at and id
    newest,   \* committed: what has become of the newest start of each start job
    stage,    \* "idle", "pass", "failing"
    view,     \* the instances in the outer session; between passes as committed
    written,  \* the instances whose rows it has flushed, and so locked
    pending,  \* the due jobs it sees
    batch,    \* the claimed jobs that have not run
    started,  \* the same in the outer session
    raised,   \* a job has failed
    crashes,
    commits   \* the policy of this application

outer == <<view, written, pending, batch, started, raised>>
vars == <<inst, table, newest, stage, outer, crashes, commits>>

Failure == [status |-> "error", failed |-> TRUE]

InstState == [status : {"running", "waiting", "error", "complete"},
              failed : BOOLEAN]

\* The last start of a timer start job: there is none, it is a row that has
\* not run, it has run, or it has failed in a service task.
StartState == {"none", "shell", "run", "error"}

\* The committed rows and the copies in the outer session have the values the
\* models allow; only the outer session has a draft, a row that has not run and
\* that no other session sees.
TypeOK ==
    /\ inst \in [Inst -> InstState]
    /\ table \in Seq(Job)
    /\ newest \in [Start -> StartState]
    /\ stage \in {"idle", "pass", "failing"}
    /\ view \in [Inst -> InstState]
    /\ written \in SUBSET Inst
    /\ pending \in Seq(Job)
    /\ batch \in Seq(Job)
    /\ started \in [Start -> StartState \cup {"draft"}]
    /\ raised \in BOOLEAN
    /\ crashes \in Nat
    /\ commits \in CommitOnError

\* Every instance waits for a timer, or has failed when it was started.
Init ==
    /\ inst \in [Inst -> {[status |-> "waiting", failed |-> FALSE], Failure}]
    /\ table = << >>
    /\ newest = [j \in Start |-> "none"]
    /\ stage = "idle"
    /\ view = inst
    /\ written = {}
    /\ pending = << >>
    /\ batch = << >>
    /\ started = newest
    /\ raised = FALSE
    /\ crashes = 0
    /\ commits \in CommitOnError

-----------------------------------------------------------------------------
(***************************************************************************)
(* Between passes.                                                         *)
(***************************************************************************)

\* delete_scheduler_job; a job key is unique.
Without(jobs, j) == RemoveFirst(jobs, j)

\* A timer or a scheduled retry comes due.  The timer job of an instance that
\* has failed since is still there.
ComesDue(j) ==
    /\ stage = "idle"
    /\ ~Contains(table, j)
    /\ j \in Timer => inst[On[j]].status \in {"waiting", "error"}
    /\ j \in Retry => inst[On[j]].status = "error"
    /\ table' = Append(table, j)
    /\ UNCHANGED <<inst, newest, stage, outer, crashes, commits>>

\* error_process_instance, as any command in a transaction of its own.
ErrorInstance(i) ==
    /\ stage = "idle"
    /\ inst[i].status \in {"running", "waiting"}
    /\ inst' = [inst EXCEPT ![i].status = "error"]
    /\ view' = inst'
    /\ UNCHANGED <<table, newest, stage, written, pending, batch, started, raised,
                   crashes, commits>>

-----------------------------------------------------------------------------
(***************************************************************************)
(* The pass.                                                               *)
(***************************************************************************)

\* Mutant: one job too many is left out of the batch.
ClaimDueOffByOne ==
    SubSeq(table, 1, IF Len(table) < Limit THEN Len(table) ELSE Limit - 1)

\* list_due_scheduler_jobs: ordered by run_at and id, at most Limit jobs.
ClaimDue == SubSeq(table, 1, IF Len(table) < Limit THEN Len(table) ELSE Limit)

\* A new session claims the batch.
Begin ==
    /\ stage = "idle"
    /\ table # << >>
    /\ stage' = "pass"
    /\ view' = inst
    /\ written' = {}
    /\ pending' = table
    /\ batch' = ClaimDue
    /\ started' = newest
    /\ raised' = FALSE
    /\ UNCHANGED <<inst, table, newest, crashes, commits>>

\* The status tests of _execute_intermediate_timer_job and
\* _execute_process_retry_job, on the session's copy of the instance.
Stale(j) ==
    \/ j \in Timer /\ view[On[j]].status # "waiting"
    \/ j \in Retry /\ view[On[j]].status # "error"

\* A retry runs the workflow only if a service task of it has failed.
RunsService(j) == j \in Retry => view[On[j]].failed

\* A timer start commits the shell of its process instance before it runs.
Baseline(j) ==
    /\ newest' = [newest EXCEPT ![j] = "shell"]
    /\ started' = [started EXCEPT ![j] = "shell"]

\* The independent session does not find the definition or the system user
\* yet: the instance is created in the outer session.
Draft(j) ==
    /\ started' = [started EXCEPT ![j] = "draft"]
    /\ UNCHANGED newest

DropStale(j) ==
    /\ Stale(j)
    /\ pending' = Without(pending, j)
    /\ batch' = Tail(batch)
    /\ UNCHANGED <<inst, table, newest, stage, view, written, started, raised,
                   crashes, commits>>

\* The job succeeds: its effects are flushed, and it is deleted or moved to a
\* later date.  Saving the workflow of a retry or a timer also renews or deletes
\* the other job of the instance; a timer job stays due if its timer has
\* elapsed.
Succeed(j) ==
    /\ ~Stale(j)
    /\ batch' = Tail(batch)
    /\ IF j \in Start
       THEN /\ newest' \in {newest, [newest EXCEPT ![j] = "shell"]}
            /\ started' = [started EXCEPT ![j] = "run"]
            /\ pending' = Without(pending, j)
            /\ UNCHANGED <<view, written>>
       ELSE /\ \E s \in IF RunsService(j) THEN {"waiting", "complete"}
                        ELSE {"running"} :
                  view' = [view EXCEPT ![On[j]] =
                              [status |-> s, failed |-> FALSE]]
            /\ written' = written \cup {On[j]}
            /\ \E k \in {k \in Retry \cup Timer : On[k] = On[j]} :
                  pending' = Without(Without(pending, j), k)
            /\ UNCHANGED <<newest, started>>
    /\ UNCHANGED <<inst, table, stage, raised, crashes, commits>>

\* Mutant: a job that fails stays at the head of the batch.
ReleaseLockRetrying ==
    /\ stage' = "pass"
    /\ raised' = TRUE
    /\ UNCHANGED <<table, pending, batch, crashes, commits>>

\* Mutant: a job that fails is deleted, as one that is stale.
ReleaseLockDeleting ==
    /\ stage' = "pass"
    /\ pending' = Without(pending, Head(batch))
    /\ batch' = Tail(batch)
    /\ raised' = TRUE
    /\ UNCHANGED <<table, crashes, commits>>

\* _release_scheduler_job_lock flushes the outer session, with whatever the
\* failed job has changed in it.
ReleaseLock ==
    /\ stage' = "pass"
    /\ batch' = Tail(batch)
    /\ raised' = TRUE
    /\ UNCHANGED <<table, pending, crashes, commits>>

\* retry_process_instance has set the status of the session's copy to running
\* before the workflow runs, without a flush.
Running(j) == IF j \in Retry THEN [view EXCEPT ![On[j]].status = "running"]
              ELSE view

\* A service task raises.
Fail(j) ==
    /\ ~Stale(j)
    /\ RunsService(j)
    /\ j \notin Sound
    /\ stage' = "failing"
    /\ view' = Running(j)
    /\ IF j \in Start THEN Baseline(j) \/ Draft(j)
       ELSE UNCHANGED <<newest, started>>
    /\ UNCHANGED <<inst, table, written, pending, batch, raised, crashes, commits>>

\* Something else raises (a script, a call activity, a payload that is not
\* valid), before or after a timer start has created its instance: nothing
\* records it.
FailUnrecorded(j) ==
    /\ ~Stale(j)
    /\ RunsService(j)
    /\ j \in Unrecorded \ Sound
    /\ ReleaseLock
    /\ view' = Running(j)
    /\ written' = IF j \in Retry THEN written \cup {On[j]} ELSE written
    /\ \/ j \in Start /\ (Baseline(j) \/ Draft(j))
       \/ UNCHANGED <<newest, started>>
    /\ UNCHANGED inst

RunJob ==
    /\ stage = "pass"
    /\ batch # << >>
    /\ LET j == Head(batch) IN
       DropStale(j) \/ Succeed(j) \/ Fail(j) \/ FailUnrecorded(j)

\* Mutant: the independent session leaves the status to the caller.
RecordFailureWithoutStatus(j) ==
    IF j \in Start THEN UNCHANGED inst
    ELSE inst' = [inst EXCEPT ![On[j]].failed = TRUE]

\* What the independent session commits.
RecordFailure(j) ==
    IF j \in Start THEN UNCHANGED inst
    ELSE inst' = [inst EXCEPT ![On[j]] = Failure]

\* The instance of the failed job is in the outer session only.
Missing ==
    /\ stage = "failing"
    /\ Head(batch) \in Start
    /\ started[Head(batch)] = "draft"

\* _persist_service_task_failure_state_in_independent_session.  Its update
\* waits for the rows the outer session has locked.  The shell of a failed
\* start gets its workflow and its error.
CommitFailure ==
    LET j == Head(batch) IN
    /\ stage = "failing"
    /\ ~Missing
    /\ j \notin Start => On[j] \notin written
    /\ RecordFailure(j)
    /\ ReleaseLock
    /\ written' = IF j \in Retry THEN written \cup {On[j]} ELSE written
    /\ IF j \in Start
       THEN /\ newest' = [newest EXCEPT ![j] = "error"]
            /\ started' = [started EXCEPT ![j] = "error"]
       ELSE UNCHANGED <<newest, started>>
    /\ UNCHANGED view

\* The independent session could not be used (no connection, an exception) or
\* does not find the instance: the error transition is left to the outer session.
FallBack ==
    LET j == Head(batch) IN
    /\ stage = "failing"
    /\ ReleaseLock
    /\ IF j \in Start
       THEN /\ started' = [started EXCEPT ![j] = "error"]
            /\ UNCHANGED <<view, written>>
       ELSE /\ view' = [view EXCEPT ![On[j]] = Failure]
            /\ written' = written \cup {On[j]}
            /\ UNCHANGED started
    /\ UNCHANGED <<inst, newest>>

\* The outer session is closed.
Close ==
    /\ stage' = "idle"
    /\ view' = inst'
    /\ written' = {}
    /\ pending' = << >>
    /\ batch' = << >>
    /\ started' = newest'
    /\ raised' = FALSE

\* The pass returns, or raises what its jobs raised, and is committed.
Commit ==
    /\ stage = "pass"
    /\ batch = << >>
    /\ raised => commits
    /\ inst' = [i \in Inst |-> IF i \in written THEN view[i] ELSE inst[i]]
    /\ table' = pending
    /\ newest' = [j \in Start |->
                    IF started[j] = "draft" THEN "shell" ELSE started[j]]
    /\ Close
    /\ UNCHANGED <<crashes, commits>>

\* The pass has raised and is rolled back.
Rollback ==
    /\ stage = "pass"
    /\ batch = << >>
    /\ raised
    /\ ~commits
    /\ UNCHANGED <<inst, table, newest, crashes, commits>>
    /\ Close

\* The poller dies; the database rolls its transaction back.
Crash ==
    /\ stage # "idle"
    /\ crashes < MaxCrashes
    /\ crashes' = crashes + 1
    /\ UNCHANGED <<inst, table, newest, commits>>
    /\ Close

Pass == Begin \/ RunJob \/ CommitFailure \/ FallBack \/ Commit \/ Rollback

Next ==
    \/ \E j \in Job : ComesDue(j)
    \/ \E i \in Inst : ErrorInstance(i)
    \/ Pass
    \/ Crash

Spec == Init /\ [][Next]_vars

\* The application polls, and a pass that can go on goes on: when the failed
\* instance is missing the independent session gives up at once.
PollSpec ==
    /\ Spec
    /\ WF_vars(Begin) /\ WF_vars(RunJob) /\ WF_vars(CommitFailure)
    /\ WF_vars(Missing /\ FallBack) /\ WF_vars(Commit) /\ WF_vars(Rollback)

-----------------------------------------------------------------------------
(***************************************************************************)
(* Properties.                                                             *)
(***************************************************************************)

\* A failure on a timer wake-up or a retry is saved durably and can be
\* retried: whenever the stored workflow holds a failed task, the instance is
\* in error, the one status retry_process_instance accepts.
FailureCanBeRetried ==
    \A i \in Inst : inst[i].failed => inst[i].status = "error"

\* An application that rolls back what has raised (as engine.begin() does)
\* keeps every recorded failure retryable, whatever mix of retry, timer and
\* start jobs fails, falls back or crashes in its passes.
RollbackKeepsFailures == ~commits => FailureCanBeRetried

\* An application that commits its passes runs a due job whose service task
\* works sooner or later, although other jobs of run_due_scheduler_jobs keep
\* failing, if those are fewer than the limit.
SoundJobRuns ==
    \A j \in Sound : (commits /\ Contains(table, j)) ~> ~Contains(table, j)

\* Whatever its jobs do, run_due_scheduler_jobs comes to its end: it releases
\* the lock of a job that fails and finishes the others.
PassEnds == (stage # "idle") ~> (stage = "idle")

\* No timer start is lost half-way.  A start commits the shell of its instance
\* on its own, before it runs; the run may then raise, be rolled back or crash,
\* and the shell stays.  As long as the newest start of a job is a shell or has
\* failed, the job is still due and starts again, whatever the application
\* does with the pass.
StartIsNotLost ==
    \A j \in Start : newest[j] \in {"shell", "error"} => Contains(table, j)
=============================================================================

-------------------------- MODULE SchedulerProofs ---------------------------
(***************************************************************************)
(* The scheduler: what survives a pass over the due jobs, for any          *)
(* instances, jobs, limit and failures, and the schedule of timer starts,  *)
(* for any definitions, counts, periods and delays.                        *)
(***************************************************************************)
EXTENDS SchedulerPass, TimerStart, TLAPS

-----------------------------------------------------------------------------
(***************************************************************************)
(* A pass.                                                                 *)
(***************************************************************************)

\* Instance states of which retry_process_instance can make something.
Retryable(f) == \A i \in Inst : f[i].failed => f[i].status = "error"

\* The application of which retryability is claimed: it rolls back what has
\* raised, or it has no retry jobs.
Careful == ~commits \/ Retry = {}

\* The committed rows, and the session's copies as long as a commit may write
\* them: a failed retry has left its copy running.
RInv ==
    /\ inst \in [Inst -> InstState]
    /\ view \in [Inst -> InstState]
    /\ Careful => Retryable(inst)
    /\ Careful /\ (Retry = {} \/ (stage = "pass" /\ ~raised)) => Retryable(view)

\* No job is twice in a list: job keys are unique.
Unique(jobs) == \A a, b \in 1 .. Len(jobs) : jobs[a] = jobs[b] => a = b

\* The starts that are not over: the instance has not run, or it has failed.
Unfinished == {"shell", "error", "draft"}

\* A start that is not over is due, in the table and, during a pass, in what
\* the outer session would commit; so is every start that is still to be run.
DInv ==
    /\ newest \in [Start -> StartState]
    /\ started \in [Start -> StartState \cup {"draft"}]
    /\ table \in Seq(Job) /\ pending \in Seq(Job) /\ batch \in Seq(Job)
    /\ Unique(table) /\ Unique(pending) /\ Unique(batch)
    /\ stage = "failing" => batch # << >>
    /\ \A j \in Start :
          /\ newest[j] \in Unfinished => Contains(table, j)
          /\ stage # "idle" /\ started[j] \in Unfinished => Contains(pending, j)
          /\ stage # "idle" /\ Contains(batch, j) =>
                Contains(table, j) /\ Contains(pending, j)

-----------------------------------------------------------------------------

\* Recording a failure in one row keeps the rows typed and retryable, whether
\* the independent session does it (CommitFailure) or the outer (FallBack).
LEMMA FailureKeeps ==
    ASSUME NEW f \in [Inst -> InstState], NEW x,
           NEW g, g = [f EXCEPT ![x] = Failure]
    PROVE  g \in [Inst -> InstState] /\ (Retryable(f) => Retryable(g))
<1>1. Failure \in InstState /\ Failure.status = "error"
    BY Zenon DEF Failure, InstState
<1>2. g \in [Inst -> InstState]
    BY <1>1, Zenon
<1>3. \A i \in Inst : g[i] = Failure \/ g[i] = f[i]
    BY Zenon
<1>4. ASSUME Retryable(f), NEW i \in Inst, g[i].failed
      PROVE  g[i].status = "error"
    <2>1. CASE g[i] = Failure
        BY <2>1, <1>1, Zenon
    <2>2. CASE g[i] = f[i]
        BY <2>2, <1>4, Zenon DEF Retryable
    <2> QED BY <2>1, <2>2, <1>3, Zenon
<1> QED BY <1>2, <1>4, Zenon DEF Retryable

\* Initially every instance waits or has failed and is in error.
LEMMA InitRetryable == Init => RInv
<1> SUFFICES ASSUME Init PROVE RInv
    BY Zenon
<1> DEFINE Waiting == [status |-> "waiting", failed |-> FALSE]
<1>1. inst \in [Inst -> {Waiting, Failure}] /\ view = inst
    BY Zenon DEF Init
<1>2. Waiting \in InstState /\ Failure \in InstState
    BY Zenon DEF Failure, InstState
<1>3. ~Waiting.failed
    BY Zenon
<1>4. Failure.status = "error"
    BY Zenon DEF Failure
<1> HIDE DEF Waiting
<1>5. inst \in [Inst -> InstState]
    BY <1>1, <1>2, Zenon
<1>6. \A i \in Inst : inst[i] = Waiting \/ inst[i] = Failure
    BY <1>1, Zenon
<1>7. Retryable(inst)
    BY <1>3, <1>4, <1>6, Zenon DEF Retryable
<1> QED BY <1>1, <1>5, <1>7, Zenon DEF RInv

\* A job keeps the session's copies retryable if it is dropped or succeeds; if
\* it fails, only a retry spoils its copy, and then the pass has raised.
LEMMA RunJobRetryable == RInv /\ RunJob => RInv'
<1> SUFFICES ASSUME RInv, RunJob PROVE RInv'
    BY Zenon
<1> USE DEF Careful
<1> DEFINE j == Head(batch)
<1>0. /\ stage = "pass"
      /\ DropStale(j) \/ Succeed(j) \/ Fail(j) \/ FailUnrecorded(j)
    BY Zenon DEF RunJob
<1> HIDE DEF j
<1>1. CASE DropStale(j)
    BY <1>1, Zenon DEF RInv, DropStale, Retryable
<1>2. CASE Succeed(j)
    <2>1. /\ inst' = inst /\ stage' = stage /\ stage = "pass"
          /\ raised' = raised /\ commits' = commits
        BY <1>0, <1>2, Zenon DEF Succeed
    <2>2. CASE j \in Start
        <3>1. view' = view
            BY <1>2, <2>2, Zenon DEF Succeed
        <3> QED BY <2>1, <3>1, Zenon DEF RInv, Retryable
    <2>3. CASE j \notin Start
        <3>1. PICK s \in {"running", "waiting", "complete"} :
                view' = [view EXCEPT ![On[j]] = [status |-> s, failed |-> FALSE]]
            BY <1>2, <2>3, Zenon DEF Succeed
        <3>2. view' \in [Inst -> InstState]
            BY <3>1, Zenon DEF RInv, InstState
        <3>3. Retryable(view) => Retryable(view')
            BY <3>1, Zenon DEF RInv, InstState, Retryable
        <3> QED BY <2>1, <3>2, <3>3, Zenon DEF RInv, Retryable
    <2> QED BY <2>2, <2>3, Zenon
<1>3. Running(j) \in [Inst -> InstState]
    BY Zenon DEF Running, RInv, InstState
<1>4. Retry = {} => Running(j) = view
    BY Zenon DEF Running
<1>5. CASE Fail(j)
    BY <1>3, <1>4, <1>5, Zenon DEF Fail, RInv, Retryable
<1>6. CASE FailUnrecorded(j)
    BY <1>3, <1>4, <1>6, Zenon DEF FailUnrecorded, ReleaseLock, RInv, Retryable
<1> QED BY <1>0, <1>1, <1>2, <1>5, <1>6, Zenon

\* Every step keeps the rows of a careful application retryable.
LEMMA NextRetryable == RInv /\ [Next]_vars => RInv'
<1> SUFFICES ASSUME RInv, [Next]_vars PROVE RInv'
    BY Zenon
<1> USE JobAssumption DEF Careful
<1>1. ASSUME NEW j \in Job, ComesDue(j) PROVE RInv'
    BY <1>1, Zenon DEF ComesDue, RInv, outer, Retryable
<1>2. ASSUME NEW i \in Inst, ErrorInstance(i) PROVE RInv'
    <2>1. inst' = [inst EXCEPT ![i].status = "error"] /\ view' = inst' /\ commits' = commits
        BY <1>2, Zenon DEF ErrorInstance
    <2>2. inst' \in [Inst -> InstState]
        BY <2>1, Zenon DEF RInv, InstState
    <2>3. Careful => Retryable(inst')
        BY <2>1, Zenon DEF RInv, InstState, Retryable
    <2> QED BY <2>1, <2>2, <2>3, Zenon DEF RInv, Retryable
<1>3. CASE Begin
    BY <1>3, Zenon DEF Begin, RInv, Retryable
<1>4. CASE RunJob
    BY <1>4, RunJobRetryable, Zenon
<1>5. CASE CommitFailure
    <2>1. inst' = inst \/ inst' = [inst EXCEPT ![On[Head(batch)]] = Failure]
        BY <1>5, Zenon DEF CommitFailure, RecordFailure
    <2>2. inst' \in [Inst -> InstState] /\ (Careful => Retryable(inst'))
        BY <2>1, FailureKeeps, Zenon DEF RInv
    <2> QED BY <1>5, <2>2, Zenon DEF CommitFailure, ReleaseLock, RInv, Retryable
<1>6. CASE FallBack
    <2>1. view' = view \/ view' = [view EXCEPT ![On[Head(batch)]] = Failure]
        BY <1>6, Zenon DEF FallBack
    <2>2. view' \in [Inst -> InstState] /\ (Retryable(view) => Retryable(view'))
        BY <2>1, FailureKeeps, Zenon DEF RInv
    <2> QED BY <1>6, <2>2, Zenon DEF FallBack, ReleaseLock, RInv, Retryable
<1>7. CASE Commit
    <2>1. Careful => Retryable(view)
        BY <1>7, Zenon DEF Commit, RInv
    <2>2. /\ inst' = [i \in Inst |-> IF i \in written THEN view[i] ELSE inst[i]]
          /\ view' = inst' /\ commits' = commits
        BY <1>7, Zenon DEF Commit, Close
    <2>3. inst' \in [Inst -> InstState]
        BY <2>2, Zenon DEF RInv
    <2>4. Careful => Retryable(inst')
        BY <2>1, <2>2, Zenon DEF RInv, Retryable
    <2> QED BY <2>2, <2>3, <2>4, Zenon DEF RInv, Retryable
<1>8. CASE Rollback
    BY <1>8, Zenon DEF Rollback, Close, RInv, Retryable
<1>9. CASE Crash
    BY <1>9, Zenon DEF Crash, Close, RInv, Retryable
<1>10. CASE UNCHANGED vars
    BY <1>10, Zenon DEF vars, outer, RInv, Retryable
<1> QED BY Zenon, <1>1, <1>2, <1>3, <1>4, <1>5, <1>6, <1>7, <1>8, <1>9, <1>10
        DEF Next, Pass

\* The failure of a service task can always be retried when the application
\* rolls back a pass that has raised (as engine.begin() does), whatever the
\* jobs of run_due_scheduler_jobs did.
THEOREM FailuresAreRetryable == Spec => []RollbackKeepsFailures
<1>1. RInv => RollbackKeepsFailures
    BY Zenon DEF RInv, Retryable, Careful, RollbackKeepsFailures, FailureCanBeRetried
<1> QED BY InitRetryable, NextRetryable, <1>1, PTL DEF Spec

\* It can also be retried when the application commits such a pass, as long
\* as no retry job can be in it: retry_process_instance is the one writer of
\* the status that the outer session flushes over the recorded error.
THEOREM RetryJobsAreTheHazard ==
    ASSUME Retry = {}
    PROVE  Spec => []FailureCanBeRetried
<1>1. RInv => FailureCanBeRetried
    BY Zenon DEF RInv, Retryable, Careful, FailureCanBeRetried
<1> QED BY InitRetryable, NextRetryable, <1>1, PTL DEF Spec

-----------------------------------------------------------------------------

\* Removing one job (delete_scheduler_job) leaves the others where they are.
LEMMA WithoutKeeps ==
    ASSUME NEW S, NEW s \in Seq(S), Unique(s), NEW e
    PROVE  /\ Without(s, e) \in Seq(S)
           /\ Unique(Without(s, e))
           /\ \A k : k # e /\ Contains(s, k) => Contains(Without(s, e), k)
<1>1. CASE ~\E i \in 1 .. Len(s) : s[i] = e
    BY <1>1, Zenon DEF Without, RemoveFirst
<1>2. CASE \E i \in 1 .. Len(s) : s[i] = e
    <2>1. PICK i \in 1 .. Len(s) : s[i] = e
        BY <1>2, Zenon
    <2> DEFINE I == {n \in 1 .. Len(s) : s[n] = e}
    <2>2. I = {i}
        BY <2>1, Zenon DEF Unique
    <2>3. SelectInSeq(s, LAMBDA v : v = e) = Min(I)
        BY <2>2, Zenon DEF SelectInSeq
    <2>4. Min(I) = i
        <3>1. i \in Int /\ i <= i
            BY <2>1
        <3> HIDE DEF I
        <3> QED BY <2>2, <3>1, Zenon DEF Min
    <2>5. Without(s, e) = RemoveAt(s, i)
        BY <1>2, <2>3, <2>4, Zenon DEF Without, RemoveFirst
    <2> HIDE DEF I
    <2> DEFINE r == RemoveAt(s, i)
    <2>6. /\ r \in Seq(S) /\ Len(r) = Len(s) - 1
          /\ \A n \in 1 .. Len(s) - 1 : r[n] = IF n < i THEN s[n] ELSE s[n + 1]
        <3> DEFINE a == SubSeq(s, 1, i - 1)
                   b == SubSeq(s, i + 1, Len(s))
        <3>1. /\ a \in Seq(S) /\ Len(a) = i - 1
              /\ \A n \in 1 .. i - 1 : a[n] = s[n]
            BY <2>1
        <3>2. /\ b \in Seq(S) /\ Len(b) = Len(s) - i
              /\ \A n \in 1 .. Len(s) - i : b[n] = s[i + n]
            BY <2>1
        <3>3. r = a \o b
            BY Zenon DEF RemoveAt
        <3> HIDE DEF a, b, r
        <3>4. r \in Seq(S) /\ Len(r) = Len(s) - 1
            BY <2>1, <3>1, <3>2, <3>3
        <3>5. ASSUME NEW n \in 1 .. Len(s) - 1
              PROVE  r[n] = IF n < i THEN s[n] ELSE s[n + 1]
            <4>1. CASE n < i
                BY <2>1, <3>1, <3>2, <3>3, <4>1
            <4>2. CASE n >= i
                <5>1. n - (i - 1) \in 1 .. Len(s) - i /\ i + (n - (i - 1)) = n + 1
                    BY <2>1, <4>2
                <5>2. r[n] = b[n - (i - 1)]
                    BY <2>1, <3>1, <3>2, <3>3, <4>2
                <5> QED BY <2>1, <3>2, <4>2, <5>1, <5>2
            <4> QED BY <2>1, <4>1, <4>2
        <3> QED BY <3>4, <3>5, Zenon
    <2> HIDE DEF r
    <2>7. Unique(r)
        BY <2>1, <2>6 DEF Unique
    <2>8. ASSUME NEW k, k # e, Contains(s, k)
          PROVE  Contains(r, k)
        <3>1. PICK n \in 1 .. Len(s) : s[n] = k
            BY <2>8, Zenon DEF Contains
        <3>2. CASE n < i
            BY <2>1, <2>6, <3>1, <3>2 DEF Contains
        <3>3. CASE n > i
            <4>1. n - 1 \in 1 .. Len(r) /\ r[n - 1] = s[n]
                BY <2>1, <2>6, <3>3
            <4> QED BY <4>1, <3>1 DEF Contains
        <3>4. n # i
            BY <2>1, <2>8, <3>1
        <3> QED BY <2>1, <3>2, <3>3, <3>4
    <2> QED BY <2>5, <2>6, <2>7, <2>8, Zenon DEF r
<1> QED BY <1>1, <1>2, Zenon

\* The rest of a batch is a batch, and the first job is not in it again.
LEMMA TailKeeps ==
    ASSUME NEW S, NEW s \in Seq(S), Unique(s), s # << >>
    PROVE  /\ Tail(s) \in Seq(S) /\ Unique(Tail(s))
           /\ Head(s) \in S /\ Contains(s, Head(s))
           /\ ~Contains(Tail(s), Head(s))
           /\ \A k : Contains(Tail(s), k) => Contains(s, k)
<1>1. /\ Len(s) \in Nat /\ Len(s) >= 1 /\ Len(Tail(s)) = Len(s) - 1
      /\ Tail(s) \in Seq(S) /\ Head(s) = s[1] /\ Head(s) \in S
      /\ \A n \in 1 .. Len(s) - 1 : Tail(s)[n] = s[n + 1]
    OBVIOUS
<1>2. Unique(Tail(s))
    BY <1>1 DEF Unique
<1>3. ~Contains(Tail(s), Head(s))
    BY <1>1 DEF Unique, Contains
<1>4. Contains(s, Head(s))
    BY <1>1 DEF Contains
<1>5. ASSUME NEW k, Contains(Tail(s), k) PROVE Contains(s, k)
    <2>1. PICK n \in 1 .. Len(s) - 1 : Tail(s)[n] = k
        BY <1>1, <1>5 DEF Contains
    <2>2. n + 1 \in 1 .. Len(s) /\ s[n + 1] = k
        BY <1>1, <2>1
    <2> QED BY <2>2, Zenon DEF Contains
<1> QED BY <1>1, <1>2, <1>3, <1>4, <1>5, Zenon

\* What list_due_scheduler_jobs returns is due, each job once.
LEMMA ClaimDueIsDue ==
    ASSUME table \in Seq(Job), Unique(table)
    PROVE  /\ ClaimDue \in Seq(Job) /\ Unique(ClaimDue)
           /\ \A k : Contains(ClaimDue, k) => Contains(table, k)
<1> DEFINE n == IF Len(table) < Limit THEN Len(table) ELSE Limit
<1>1. n \in 0 .. Len(table)
    BY JobAssumption
<1> HIDE DEF n
<1>2. /\ SubSeq(table, 1, n) \in Seq(Job) /\ Len(SubSeq(table, 1, n)) = n
      /\ \A i \in 1 .. n : SubSeq(table, 1, n)[i] = table[i]
    BY <1>1
<1>3. ClaimDue = SubSeq(table, 1, n)
    BY Zenon DEF ClaimDue, n
<1>4. Unique(SubSeq(table, 1, n))
    BY <1>1, <1>2 DEF Unique
<1>5. \A k : Contains(SubSeq(table, 1, n), k) => Contains(table, k)
    BY <1>1, <1>2 DEF Contains
<1> QED BY <1>2, <1>3, <1>4, <1>5, Zenon

\* A job that fails, however it fails, stays in what the outer session would
\* commit; its start may be left unfinished.
LEMMA FailingKeepsDue ==
    ASSUME DInv, stage # "idle", batch # << >>, stage' # "idle",
           UNCHANGED <<table, pending>>,
           \/ batch' = Tail(batch) /\ stage' # "failing"
           \/ batch' = batch,
           newest' \in [Start -> StartState],
           started' \in [Start -> StartState \cup {"draft"}],
           \A j \in Start : j # Head(batch) =>
                newest'[j] = newest[j] /\ started'[j] = started[j]
    PROVE  DInv'
<1>1. /\ batch' \in Seq(Job) /\ Unique(batch')
      /\ \A k : Contains(batch', k) => Contains(batch, k)
    <2>1. batch \in Seq(Job) /\ Unique(batch)
        BY Zenon DEF DInv
    <2>2. CASE batch' = Tail(batch)
        BY <2>1, <2>2, TailKeeps, Zenon
    <2>3. CASE batch' = batch
        BY <2>1, <2>3, Zenon
    <2> QED BY <2>2, <2>3, Zenon
<1>2. stage' = "failing" => batch' # << >>
    BY Zenon
<1>3. Contains(batch, Head(batch))
    BY TailKeeps, Zenon DEF DInv
<1>4. ASSUME NEW j \in Start
      PROVE  /\ newest'[j] \in Unfinished => Contains(table', j)
             /\ stage' # "idle" /\ started'[j] \in Unfinished => Contains(pending', j)
             /\ stage' # "idle" /\ Contains(batch', j) =>
                   Contains(table', j) /\ Contains(pending', j)
    <2>1. CASE j = Head(batch)
        BY <1>3, <2>1, Zenon DEF DInv
    <2>2. CASE j # Head(batch)
        BY <1>1, <2>2, Zenon DEF DInv
    <2> QED BY <2>1, <2>2, Zenon
<1>5. Unique(table') /\ Unique(pending') /\ table' \in Seq(Job) /\ pending' \in Seq(Job)
    BY Zenon DEF DInv
<1> QED BY <1>1, <1>2, <1>4, <1>5, Zenon DEF DInv

\* A job is deleted when it is stale, which no start is, or has succeeded, and
\* then its start is over.
LEMMA DeletingKeepsDue ==
    ASSUME DInv, stage = "pass", batch # << >>, stage' = "pass",
           table' = table, batch' = Tail(batch),
           pending' \in Seq(Job), Unique(pending'),
           newest' \in [Start -> StartState],
           started' \in [Start -> StartState \cup {"draft"}],
           \A j \in Start : j # Head(batch) =>
                /\ newest'[j] = newest[j] /\ started'[j] = started[j]
                /\ Contains(pending, j) => Contains(pending', j),
           \A j \in Start : j = Head(batch) => started'[j] \notin Unfinished
    PROVE  DInv'
<1>1. /\ batch' \in Seq(Job) /\ Unique(batch')
      /\ Contains(batch, Head(batch)) /\ ~Contains(batch', Head(batch))
      /\ \A k : Contains(batch', k) => Contains(batch, k)
    BY TailKeeps, Zenon DEF DInv
<1>2. stage' # "failing" /\ stage # "idle"
    OBVIOUS
<1>3. ASSUME NEW j \in Start
      PROVE  /\ newest'[j] \in Unfinished => Contains(table', j)
             /\ stage' # "idle" /\ started'[j] \in Unfinished => Contains(pending', j)
             /\ stage' # "idle" /\ Contains(batch', j) =>
                   Contains(table', j) /\ Contains(pending', j)
    <2>1. CASE j = Head(batch)
        BY <1>1, <1>2, <2>1, Zenon DEF DInv
    <2>2. CASE j # Head(batch)
        BY <1>1, <1>2, <2>2, Zenon DEF DInv
    <2> QED BY <2>1, <2>2, Zenon
<1>4. Unique(table') /\ table' \in Seq(Job)
    BY Zenon DEF DInv
<1> QED BY <1>1, <1>2, <1>3, <1>4, Zenon DEF DInv

\* Running a job keeps the unfinished starts due.
LEMMA RunJobKeepsDue == DInv /\ RunJob => DInv'
<1> SUFFICES ASSUME DInv, RunJob PROVE DInv'
    BY Zenon
<1> DEFINE j == Head(batch)
<1>0. /\ stage = "pass" /\ batch # << >>
      /\ DropStale(j) \/ Succeed(j) \/ Fail(j) \/ FailUnrecorded(j)
    BY Zenon DEF RunJob
<1>1. j \in Job /\ stage # "idle"
    BY <1>0, TailKeeps DEF DInv
<1> HIDE DEF j
<1>2. "shell" \in StartState /\ "run" \in StartState /\ "run" \notin Unfinished
    BY DEF StartState, Unfinished
<1>3. /\ Without(pending, j) \in Seq(Job) /\ Unique(Without(pending, j))
      /\ \A k : k # j /\ Contains(pending, k) => Contains(Without(pending, j), k)
    BY WithoutKeeps, Zenon DEF DInv
<1>4. CASE DropStale(j)
    <2>1. j \notin Start
        BY <1>4, JobAssumption DEF DropStale, Stale
    <2> QED BY <1>0, <1>3, <1>4, <2>1, DeletingKeepsDue, Zenon DEF DropStale, DInv, j
<1>5. CASE Succeed(j) /\ j \in Start
    <2>1. /\ newest' \in {newest, [newest EXCEPT ![j] = "shell"]}
          /\ started' = [started EXCEPT ![j] = "run"]
          /\ pending' = Without(pending, j)
          /\ stage' = "pass" /\ table' = table /\ batch' = Tail(batch)
        BY <1>0, <1>5, Zenon DEF Succeed
    <2>2. /\ newest' \in [Start -> StartState]
          /\ started' \in [Start -> StartState \cup {"draft"}]
          /\ started'[j] = "run"
          /\ \A i \in Start : i # j => newest'[i] = newest[i] /\ started'[i] = started[i]
        BY <1>2, <1>5, <2>1, Zenon DEF DInv
    <2> QED BY <1>0, <1>2, <1>3, <2>1, <2>2, DeletingKeepsDue, Zenon DEF j
<1>6. CASE Succeed(j) /\ j \notin Start
    <2>1. PICK k \in Retry \cup Timer : pending' = Without(Without(pending, j), k)
        BY <1>6, Zenon DEF Succeed
    <2>2. /\ UNCHANGED <<newest, started>>
          /\ stage' = "pass" /\ table' = table /\ batch' = Tail(batch)
        BY <1>0, <1>6, Zenon DEF Succeed
    <2>3. /\ pending' \in Seq(Job) /\ Unique(pending')
          /\ \A i : i # k /\ Contains(Without(pending, j), i) => Contains(pending', i)
        BY <1>3, <2>1, WithoutKeeps, Zenon
    <2>4. k \notin Start
        BY JobAssumption
    <2>5. \A i \in Start : i # k /\ i # j
        BY <1>6, <2>4, Zenon
    <2> QED BY <1>0, <1>3, <1>6, <2>2, <2>3, <2>5, DeletingKeepsDue, Zenon DEF DInv, j
<1>7. ASSUME j \in Start, Baseline(j) \/ Draft(j)
      PROVE  /\ newest' \in [Start -> StartState]
             /\ started' \in [Start -> StartState \cup {"draft"}]
             /\ \A i \in Start : i # j =>
                   newest'[i] = newest[i] /\ started'[i] = started[i]
    BY <1>2, <1>7, Zenon DEF Baseline, Draft, DInv
<1>8. CASE Fail(j)
    <2>1. /\ stage' = "failing" /\ UNCHANGED <<table, pending, batch>>
          /\ \/ j \in Start /\ (Baseline(j) \/ Draft(j))
             \/ UNCHANGED <<newest, started>>
        BY <1>8, Zenon DEF Fail
    <2>2. stage' # "idle"
        BY <2>1
    <2> QED BY <1>0, <1>1, <1>7, <2>1, <2>2, FailingKeepsDue, Zenon DEF DInv, j
<1>9. CASE FailUnrecorded(j)
    <2>1. /\ stage' = "pass" /\ UNCHANGED <<table, pending>> /\ batch' = Tail(batch)
          /\ \/ j \in Start /\ (Baseline(j) \/ Draft(j))
             \/ UNCHANGED <<newest, started>>
        BY <1>9, Zenon DEF FailUnrecorded, ReleaseLock
    <2>2. stage' # "idle" /\ stage' # "failing"
        BY <2>1
    <2> QED BY <1>0, <1>1, <1>7, <2>1, <2>2, FailingKeepsDue, Zenon DEF DInv, j
<1> QED BY <1>0, <1>4, <1>5, <1>6, <1>8, <1>9, Zenon

\* Every step keeps the unfinished starts due.
LEMMA NextKeepsDue == DInv /\ [Next]_vars => DInv'
<1> SUFFICES ASSUME DInv, [Next]_vars PROVE DInv'
    BY Zenon
<1>0. "error" \in StartState /\ "shell" \in StartState
    BY DEF StartState
<1>1. ASSUME NEW j \in Job, ComesDue(j) PROVE DInv'
    <2>1. /\ table' = Append(table, j) /\ ~Contains(table, j)
          /\ UNCHANGED <<newest, stage, started, pending, batch>> /\ stage = "idle"
        BY <1>1, Zenon DEF ComesDue, outer
    <2>2. table' \in Seq(Job) /\ Unique(table')
        BY <2>1 DEF DInv, Unique, Contains
    <2>3. \A k : Contains(table, k) => Contains(table', k)
        <3> SUFFICES ASSUME NEW k, Contains(table, k)
                     PROVE  Contains(table', k)
            BY Zenon
        <3>1. PICK n \in 1 .. Len(table) : table[n] = k
            BY Zenon DEF Contains
        <3>2. n \in 1 .. Len(table') /\ table'[n] = k
            BY <2>1, <3>1 DEF DInv
        <3> QED BY <3>2, Zenon DEF Contains
    <2>4. stage' = "idle" /\ stage' # "failing"
        BY <2>1
    <2> QED BY <2>1, <2>2, <2>3, <2>4, Zenon DEF DInv
<1>2. ASSUME NEW i \in Inst, ErrorInstance(i) PROVE DInv'
    BY <1>2, Zenon DEF ErrorInstance, DInv, Unique, Contains
<1>3. CASE Begin
    <2>1. /\ stage' = "pass" /\ pending' = table /\ batch' = ClaimDue
          /\ started' = newest /\ UNCHANGED <<table, newest>>
        BY <1>3, Zenon DEF Begin
    <2>2. /\ ClaimDue \in Seq(Job) /\ Unique(ClaimDue)
          /\ \A k : Contains(ClaimDue, k) => Contains(table, k)
        BY ClaimDueIsDue, Zenon DEF DInv
    <2>3. stage' # "failing"
        BY <2>1
    <2>4. started' \in [Start -> StartState \cup {"draft"}]
        BY <2>1, Zenon DEF DInv
    <2> QED BY <2>1, <2>2, <2>3, <2>4, Zenon DEF DInv
<1>4. CASE RunJob
    BY <1>4, RunJobKeepsDue, Zenon
<1>5. CASE CommitFailure
    <2> DEFINE j == Head(batch)
    <2>1. /\ stage = "failing" /\ stage' = "pass" /\ batch' = Tail(batch)
          /\ UNCHANGED <<table, pending>> /\ batch # << >>
        BY <1>5, Zenon DEF CommitFailure, ReleaseLock, DInv
    <2>2. \/ /\ newest' = [newest EXCEPT ![j] = "error"]
             /\ started' = [started EXCEPT ![j] = "error"]
          \/ UNCHANGED <<newest, started>>
        BY <1>5, Zenon DEF CommitFailure
    <2> HIDE DEF j
    <2>3. /\ newest' \in [Start -> StartState]
          /\ started' \in [Start -> StartState \cup {"draft"}]
          /\ \A i \in Start : i # j => newest'[i] = newest[i] /\ started'[i] = started[i]
        BY <1>0, <2>2, Zenon DEF DInv
    <2>4. stage' # "idle" /\ stage' # "failing" /\ stage # "idle"
        BY <2>1
    <2> QED BY <2>1, <2>3, <2>4, FailingKeepsDue, Zenon DEF j
<1>6. CASE FallBack
    <2> DEFINE j == Head(batch)
    <2>1. /\ stage = "failing" /\ stage' = "pass" /\ batch' = Tail(batch)
          /\ UNCHANGED <<table, pending, newest>> /\ batch # << >>
        BY <1>6, Zenon DEF FallBack, ReleaseLock, DInv
    <2>2. started' = [started EXCEPT ![j] = "error"] \/ started' = started
        BY <1>6, Zenon DEF FallBack
    <2> HIDE DEF j
    <2>3. /\ newest' \in [Start -> StartState]
          /\ started' \in [Start -> StartState \cup {"draft"}]
          /\ \A i \in Start : i # j => newest'[i] = newest[i] /\ started'[i] = started[i]
        BY <1>0, <2>1, <2>2, Zenon DEF DInv
    <2>4. stage' # "idle" /\ stage' # "failing" /\ stage # "idle"
        BY <2>1
    <2> QED BY <2>1, <2>3, <2>4, FailingKeepsDue, Zenon DEF j
<1>7. ASSUME Close, table' \in Seq(Job), Unique(table'),
             newest' \in [Start -> StartState],
             \A j \in Start : newest'[j] \in Unfinished => Contains(table', j)
      PROVE  DInv'
    <2>1. /\ stage' = "idle" /\ stage' # "failing"
          /\ pending' = << >> /\ batch' = << >> /\ started' = newest'
        BY <1>7 DEF Close
    <2>2. << >> \in Seq(Job) /\ Unique(<< >>)
        BY DEF Unique
    <2>3. started' \in [Start -> StartState \cup {"draft"}]
        BY <1>7, <2>1, Zenon
    <2> QED BY <1>7, <2>1, <2>2, <2>3, Zenon DEF DInv
<1>8. CASE Commit
    <2>1. /\ Close /\ table' = pending /\ stage = "pass"
          /\ newest' = [j \in Start |->
                          IF started[j] = "draft" THEN "shell" ELSE started[j]]
        BY <1>8, Zenon DEF Commit
    <2>2. newest' \in [Start -> StartState]
        BY <1>0, <2>1, Zenon DEF DInv
    <2>3. \A j \in Start : newest'[j] \in Unfinished => started[j] \in Unfinished
        BY <2>1 DEF Unfinished
    <2>4. stage # "idle"
        BY <2>1
    <2> QED BY <1>7, <2>1, <2>2, <2>3, <2>4, Zenon DEF DInv
<1>9. CASE Rollback
    BY <1>7, <1>9, Zenon DEF Rollback, DInv
<1>10. CASE Crash
    BY <1>7, <1>10, Zenon DEF Crash, DInv
<1>11. CASE UNCHANGED vars
    BY <1>11, Zenon DEF vars, outer, DInv, Unique, Contains
<1> QED BY Zenon, <1>1, <1>2, <1>3, <1>4, <1>5, <1>6, <1>8, <1>9, <1>10, <1>11
        DEF Next, Pass

\* Whatever becomes of a timer start (a shell that never runs, a failure that
\* is recorded or not) and of its pass (committed, rolled back, crashed), the
\* job of a start that is not over stays due: _release_scheduler_job_lock
\* keeps it, and only a start that has run takes it away.
THEOREM NoStartIsLost == Spec => []StartIsNotLost
<1>1. Init => DInv
    <2> SUFFICES ASSUME Init PROVE DInv
        BY Zenon
    <2>1. "none" \in StartState /\ "none" \notin Unfinished
        BY DEF StartState, Unfinished
    <2>2. << >> \in Seq(Job) /\ Unique(<< >>)
        BY DEF Unique
    <2>3. stage = "idle" /\ stage # "failing"
        BY DEF Init
    <2> QED BY <2>1, <2>2, <2>3, Zenon DEF Init, DInv
<1>2. DInv => StartIsNotLost
    BY DEF DInv, Unfinished, StartIsNotLost
<1> QED BY <1>1, <1>2, NextKeepsDue, PTL DEF Spec

-----------------------------------------------------------------------------
(***************************************************************************)
(* Timer starts.                                                           *)
(***************************************************************************)

\* What a row looks like in terms of the firings since the import: a count
\* above one is what is left, and only a row that has not fired since has
\* another one.
Counted(d) ==
    LET c == job[d].cycles IN
    job[d].present =>
        /\ Cycles[d] = Forever => c = Forever
        /\ Cycles[d] = Once => c = Once /\ fired[d] = 0
        /\ Cycles[d] \in Int =>
              /\ c \in Int
              /\ Cycles[d] > 1 => c >= 1 /\ fired[d] + c = Cycles[d]
              /\ Cycles[d] <= 1 => fired[d] = 0 /\ c <= 1

\* A row that is gone has fired as often as it was declared.
Spent(d) ==
    ~job[d].present /\ fired[d] > 0 =>
        /\ Cycles[d] # Forever
        /\ fired[d] = Declared(d)

IInv ==
    /\ TimerTypeOK
    /\ \A d \in Def : Counted(d) /\ Spent(d)
    /\ NoDrift

-----------------------------------------------------------------------------

\* A date is due no earlier than it says.
LEMMA RunAtIsLater == \A date \in Nat : RunAt(date) \in Int /\ date <= RunAt(date)
BY TimerAssumption DEF RunAt

\* Before any import there is no row and no firing.
LEMMA InitEstablishes == TimerInit => IInv
BY TimerAssumption
   DEF TimerInit, IInv, TimerTypeOK, Row, Absent, Counted, Spent, NoDrift

\* An import starts the count and the schedule of its definition afresh.
LEMMA ImportPreserves ==
    ASSUME IInv, NEW d \in Def, Import(d)
    PROVE  IInv'
<1> USE TimerAssumption
<1>1. PICK date \in now .. now + Period[d] :
        /\ first' = [first EXCEPT ![d] = date]
        /\ job' = [job EXCEPT ![d] = [present |-> TRUE, next |-> date,
                                      cycles |-> Cycles[d]]]
    BY Zenon DEF Import
<1>2. date \in Nat
    BY <1>1 DEF IInv, TimerTypeOK
<1>3. TimerTypeOK'
    BY <1>1, <1>2, Zenon DEF Import, IInv, TimerTypeOK, Row
<1>4. ASSUME NEW e \in Def PROVE Counted(e)' /\ Spent(e)'
    <2>1. CASE e = d
        <3>1. job'[e].present /\ job'[e].cycles = Cycles[e] /\ fired'[e] = 0
            BY <1>1, <2>1, Zenon DEF Import, IInv, TimerTypeOK
        <3> QED BY <3>1 DEF Counted, Spent
    <2>2. CASE e # d
        <3>1. job'[e] = job[e] /\ fired'[e] = fired[e]
            BY <1>1, <2>2, Zenon DEF Import, IInv, TimerTypeOK
        <3> QED BY <3>1 DEF IInv, Counted, Spent, Declared
    <2> QED BY <2>1, <2>2, Zenon
<1>5. NoDrift'
    <2> SUFFICES ASSUME NEW e \in Def, job'[e].present
                 PROVE  job'[e].next = first'[e] + fired'[e] * Period[e]
        BY Zenon DEF NoDrift
    <2>1. CASE e = d
        <3>1. job'[e].next = date /\ first'[e] = date /\ fired'[e] = 0
            BY <1>1, <2>1, Zenon DEF Import, IInv, TimerTypeOK
        <3> QED BY <3>1, <1>2
    <2>2. CASE e # d
        <3>1. job'[e] = job[e] /\ first'[e] = first[e] /\ fired'[e] = fired[e]
            BY <1>1, <2>2, Zenon DEF Import, IInv, TimerTypeOK
        <3> QED BY <3>1, Zenon DEF IInv, NoDrift
    <2> QED BY <2>1, <2>2, Zenon
<1> QED BY <1>3, <1>4, <1>5, Zenon DEF IInv

\* The count that follows a count, in the terms of the payload.
LEMMA NextCyclesIs ==
    ASSUME NEW c \in Int \cup {Once, Forever}
    PROVE  /\ c = Once => NextCycles(c) = {}
           /\ c = Forever => NextCycles(c) = {Forever}
           /\ c \in Int /\ c > 1 => NextCycles(c) = {c - 1}
           /\ c \in Int /\ c <= 1 => NextCycles(c) = {}
BY TimerAssumption DEF NextCycles

\* A firing counts down and moves the date by one period.
LEMMA FirePreserves ==
    ASSUME IInv, NEW d \in Def, Fire(d)
    PROVE  IInv'
<1> USE TimerAssumption
<1> DEFINE c == job[d].cycles
           n == CHOOSE x \in NextCycles(c) : TRUE
           more == [present |-> TRUE, next |-> Following(d), cycles |-> n]
<1>1. /\ job[d].present /\ job[d] \in Row /\ fired[d] \in Nat
      /\ c \in Int \cup {Once, Forever}
      /\ first[d] \in Nat
      /\ Counted(d)
    BY Zenon DEF Fire, Due, IInv, TimerTypeOK, Row
<1>2. \A e \in Def : e # d => job'[e] = job[e] /\ fired'[e] = fired[e]
    BY Zenon DEF Fire, IInv, TimerTypeOK
<1>3. /\ fired'[d] = fired[d] + 1
      /\ job'[d] = IF NextCycles(c) = {} THEN Absent ELSE more
      /\ first' = first
    BY Zenon DEF Fire, IInv, TimerTypeOK
<1>4. Following(d) \in Nat /\ Following(d) = job[d].next + Period[d]
    BY <1>1 DEF Following, Row
<1>5. /\ c = Once => NextCycles(c) = {}
      /\ c = Forever => NextCycles(c) = {Forever}
      /\ c \in Int /\ c > 1 => NextCycles(c) = {c - 1}
      /\ c \in Int /\ c <= 1 => NextCycles(c) = {}
    <2> HIDE DEF c
    <2> QED BY <1>1, NextCyclesIs, Zenon
<1> HIDE DEF c
<1>6. NextCycles(c) = {} => c = Once \/ (c \in Int /\ c <= 1)
    BY <1>1, <1>5
<1>7. NextCycles(c) # {} =>
        /\ c = Forever \/ (c \in Int /\ c > 1)
        /\ c = Forever => n = Forever
        /\ c \in Int => n = c - 1
    BY <1>1, <1>5
<1> USE DEF c
<1> HIDE DEF n
<1>8. job'[d] \in Row
    BY <1>1, <1>3, <1>4, <1>7 DEF Row, Absent
<1>9. TimerTypeOK'
    <2>1. job' = [job EXCEPT ![d] = job'[d]]
        BY Zenon DEF Fire, IInv, TimerTypeOK
    <2>2. job' \in [Def -> Row]
        BY <1>8, <2>1, Zenon DEF IInv, TimerTypeOK
    <2> QED BY <2>2 DEF Fire, IInv, TimerTypeOK
<1>10. Counted(d)' /\ Spent(d)'
    <2>1. CASE NextCycles(c) = {}
        <3>1. ~job'[d].present
            BY <1>3, <2>1 DEF Absent
        <3>2. Cycles[d] # Forever /\ fired[d] + 1 = Declared(d)
            BY <1>1, <1>6, <2>1 DEF Counted, Declared
        <3> QED BY <1>3, <3>1, <3>2, Zenon DEF Counted, Spent, Declared
    <2>2. CASE NextCycles(c) # {}
        <3>1. job'[d].present /\ job'[d].cycles = n
            BY <1>3, <2>2
        <3>2. Cycles[d] = Forever => n = Forever
            BY <1>1, <1>7, <2>2, Zenon DEF Counted
        <3>3. Cycles[d] # Once
            BY <1>1, <1>7, <2>2, Zenon DEF Counted
        <3>4. Cycles[d] \in Int => /\ n \in Int /\ Cycles[d] > 1
                                   /\ n >= 1 /\ fired[d] + 1 + n = Cycles[d]
            BY <1>1, <1>7, <2>2 DEF Counted
        <3> QED BY <1>3, <3>1, <3>2, <3>3, <3>4 DEF Counted, Spent
    <2> QED BY <2>1, <2>2, Zenon
<1>11. ASSUME NEW e \in Def PROVE Counted(e)' /\ Spent(e)'
    <2>1. CASE e = d
        BY <1>10, <2>1, Zenon
    <2>2. CASE e # d
        BY <1>2, <2>2 DEF IInv, Counted, Spent, Declared
    <2> QED BY <2>1, <2>2, Zenon
<1>12. NoDrift'
    <2> SUFFICES ASSUME NEW e \in Def, job'[e].present
                 PROVE  job'[e].next = first'[e] + fired'[e] * Period[e]
        BY Zenon DEF NoDrift
    <2>1. CASE e = d
        <3>1. job'[d].next = job[d].next + Period[d]
            BY <1>3, <1>4, <2>1 DEF Absent
        <3>2. job[d].next = first[d] + fired[d] * Period[d]
            BY <1>1, Zenon DEF IInv, NoDrift
        <3>3. (fired[d] + 1) * Period[d] = fired[d] * Period[d] + Period[d]
            BY <1>1
        <3>4. fired[d] * Period[d] \in Int
            BY <1>1
        <3> QED BY <1>1, <1>3, <2>1, <3>1, <3>2, <3>3, <3>4
    <2>2. CASE e # d
        BY <1>2, <1>3, <2>2, Zenon DEF IInv, NoDrift
    <2> QED BY <2>1, <2>2, Zenon
<1> QED BY <1>9, <1>11, <1>12, Zenon DEF IInv

\* Every step preserves the inductive invariant.
LEMMA NextPreserves == IInv /\ [TimerNext]_timerVars => IInv'
<1> SUFFICES ASSUME IInv, [TimerNext]_timerVars PROVE IInv'
    BY Zenon
<1>1. CASE Tick
    BY <1>1 DEF Tick, IInv, TimerTypeOK, Counted, Spent, Declared, NoDrift
<1>2. ASSUME NEW d \in Def, Import(d) PROVE IInv'
    BY <1>2, ImportPreserves, Zenon
<1>3. ASSUME NEW d \in Def, Fire(d) PROVE IInv'
    BY <1>3, FirePreserves, Zenon
<1>4. ASSUME NEW d \in Def, FailToFire(d) PROVE IInv'
    BY <1>4 DEF FailToFire, IInv, TimerTypeOK, Counted, Spent, Declared, NoDrift
<1>5. CASE UNCHANGED timerVars
    BY <1>5, Zenon
       DEF timerVars, IInv, TimerTypeOK, Counted, Spent, Declared, NoDrift
<1> QED BY <1>1, <1>2, <1>3, <1>4, <1>5, Zenon DEF TimerNext

\* The inductive invariant holds of every reachable state.
THEOREM Invariance == TimerSpec => []IInv
BY InitEstablishes, NextPreserves, PTL DEF TimerSpec

\* The rows, dates and counters keep their types.
THEOREM TypeCorrect == TimerSpec => []TimerTypeOK
BY Invariance, PTL DEF IInv

\* Delays, failures and other definitions never shift the dates of a cycle.
THEOREM ScheduleDoesNotDrift == TimerSpec => []NoDrift
BY Invariance, PTL DEF IInv

\* A finite timer start fires as often as it is declared, for any count: a
\* count of one, zero or less stands for one firing.
THEOREM CountsAreKept == TimerSpec => []FiresAsDeclared
<1>1. IInv => FiresAsDeclared
    <2> SUFFICES ASSUME IInv, NEW d \in Def, Cycles[d] # Forever,
                        job[d].present \/ fired[d] > 0
                 PROVE  fired[d] + Left(d) = Declared(d)
        BY Zenon DEF FiresAsDeclared
    <2>1. Counted(d) /\ Spent(d) /\ fired[d] \in Nat
          /\ (Cycles[d] = Once \/ Cycles[d] \in Int)
        BY TimerAssumption, Zenon DEF IInv, TimerTypeOK
    <2>2. CASE ~job[d].present
        BY <2>1, <2>2, TimerAssumption DEF Spent, Left, Declared
    <2>3. CASE job[d].present /\ Cycles[d] = Once
        BY <2>1, <2>3, TimerAssumption DEF Counted, Left, Declared
    <2>4. CASE job[d].present /\ Cycles[d] # Once
        BY <2>1, <2>4, TimerAssumption DEF Counted, Left, Declared
    <2> QED BY <2>2, <2>3, <2>4, Zenon
<1> QED BY <1>1, Invariance, PTL

\* No timer start fires before its date.
THEOREM NothingFiresEarly == TimerSpec => NeverEarly
<1>1. IInv /\ [TimerNext]_timerVars =>
        [\A d \in Def : fired'[d] > fired[d] => job[d].next <= now]_timerVars
    <2> SUFFICES ASSUME IInv, TimerNext, NEW d \in Def, fired'[d] > fired[d]
                 PROVE  job[d].next <= now
        BY Zenon DEF timerVars
    <2>1. fired[d] \in Nat
        BY Zenon DEF IInv, TimerTypeOK
    <2>2. CASE Fire(d)
        <3>1. job[d].next \in Nat /\ RunAt(job[d].next) <= now /\ now \in Nat
            BY <2>2, Zenon DEF Fire, Due, IInv, TimerTypeOK, Row
        <3> QED BY <3>1, RunAtIsLater
    <2>3. ASSUME ~Fire(d) PROVE FALSE
        <3>1. CASE Tick
            BY <3>1, <2>1 DEF Tick
        <3>2. ASSUME NEW e \in Def, Import(e) PROVE FALSE
            BY <3>2, <2>1 DEF Import, IInv, TimerTypeOK
        <3>3. ASSUME NEW e \in Def, Fire(e) PROVE FALSE
            <4>1. e # d
                BY <3>3, <2>3, Zenon
            <4> QED BY <3>3, <4>1, <2>1 DEF Fire, IInv, TimerTypeOK
        <3>4. ASSUME NEW e \in Def, FailToFire(e) PROVE FALSE
            BY <3>4, <2>1 DEF FailToFire
        <3> QED BY <3>1, <3>2, <3>3, <3>4, Zenon DEF TimerNext
    <2> QED BY <2>2, <2>3, Zenon
<1> QED BY <1>1, Invariance, PTL DEF TimerSpec, NeverEarly

=============================================================================

----------------------------- MODULE TimerStart -----------------------------
(***************************************************************************)
(* The timer_start jobs of imported process definitions over time: import  *)
(* writes the job, a scheduler pass fires it when it is due and writes the *)
(* next date or deletes it.  Time is in ticks, Second of them to a second; *)
(* the run_at of a job is its date rounded up to a second.                 *)
(***************************************************************************)
EXTENDS Integers

CONSTANTS
    Def,          \* process definitions with a timer start event
    Once,         \* a timeDate
    Forever,      \* a timeCycle without a count
    Cycles,       \* Cycles[d]: Once, Forever or the count of the timeCycle
    Period,       \* Period[d]: the duration of the timeCycle in ticks
    Second,       \* ticks to a second
    MaxTime,      \* bound: the clock stops here
    LastImport,   \* bound: the last date of an import
    MaxFailures   \* bound: failed starts

ASSUME TimerAssumption ==
    /\ Once \notin Int /\ Forever \notin Int /\ Once # Forever
    /\ Cycles \in [Def -> Int \cup {Once, Forever}]
    /\ Period \in [Def -> Nat \ {0}]
    /\ Second \in Nat \ {0}
    /\ MaxTime \in Nat /\ LastImport \in Nat /\ MaxFailures \in Nat

VARIABLES
    now,      \* the clock
    job,      \* scheduler_job rows: the event_value of the timer task
    first,    \* first[d]: the date that the last import of d has computed
    fired,    \* fired[d]: firings that succeeded since that import
    errors    \* errors[d]: process instances in error, from firings that failed
              \* since that import

timerVars == <<now, job, first, fired, errors>>

\* No row.
Absent == [present |-> FALSE, next |-> 0, cycles |-> Once]

Row == [present : BOOLEAN, next : Nat, cycles : Int \cup {Once, Forever}]

\* Every job row and counter has its type, in particular its dates.
TimerTypeOK ==
    /\ now \in Nat
    /\ job \in [Def -> Row]
    /\ first \in [Def -> Nat]
    /\ fired \in [Def -> Nat]
    /\ errors \in [Def -> Nat]

TimerInit ==
    /\ now = 0
    /\ job = [d \in Def |-> Absent]
    /\ first = [d \in Def |-> 0]
    /\ fired = [d \in Def |-> 0]
    /\ errors = [d \in Def |-> 0]

Tick ==
    /\ now < MaxTime
    /\ now' = now + 1
    /\ UNCHANGED <<job, first, fired, errors>>

\* import_bpmn_process_definition: the workflow engine computes the first date
\* of the timer; an existing row of this definition is overwritten.
Import(d) ==
    /\ now <= LastImport
    /\ \E date \in now .. now + Period[d] :
          /\ first' = [first EXCEPT ![d] = date]
          /\ job' = [job EXCEPT ![d] = [present |-> TRUE, next |-> date,
                                        cycles |-> Cycles[d]]]
    /\ fired' = [fired EXCEPT ![d] = 0]
    /\ errors' = [errors EXCEPT ![d] = 0]
    /\ UNCHANGED now

\* _timer_event_run_at_in_seconds
RunAt(date) == Second * ((date + Second - 1) \div Second)

\* Mutant: the count is compared with zero.
NextCyclesFromZero(c) == IF c = Once THEN {}
                         ELSE IF c = Forever THEN {Forever}
                         ELSE IF c > 0 THEN {c - 1} ELSE {}

\* Mutant: the count is not decreased.
NextCyclesEndless(c) == IF c = Once THEN {} ELSE {c}

\* The count after a firing, if there is another one.
NextCycles(c) == IF c = Once THEN {}
                 ELSE IF c = Forever THEN {Forever}
                 ELSE IF c > 1 THEN {c - 1} ELSE {}

\* Mutant: the next date counts from the firing.
FollowingDrifting(d) == now + Period[d]

\* The date after job[d].next.
Following(d) == job[d].next + Period[d]

Due(d) == job[d].present /\ RunAt(job[d].next) <= now

\* _execute_timer_start_job and _reschedule_or_delete_timer_start_job.
Fire(d) ==
    /\ Due(d)
    /\ fired' = [fired EXCEPT ![d] = @ + 1]
    /\ job' = [job EXCEPT ![d] =
                  IF NextCycles(@.cycles) = {} THEN Absent
                  ELSE [present |-> TRUE, next |-> Following(d),
                        cycles |-> CHOOSE c \in NextCycles(@.cycles) : TRUE]]
    /\ UNCHANGED <<now, first, errors>>

\* A service task of the new instance fails: the instance is kept in error by
\* the independent session, and the job is not rescheduled.
FailToFire(d) ==
    /\ Due(d)
    /\ errors[d] < MaxFailures
    /\ errors' = [errors EXCEPT ![d] = @ + 1]
    /\ UNCHANGED <<now, job, first, fired>>

TimerNext == Tick \/ \E d \in Def : Import(d) \/ Fire(d) \/ FailToFire(d)

TimerSpec == TimerInit /\ [][TimerNext]_timerVars

\* The clock goes on, and the application polls.
FairSpec ==
    TimerSpec /\ WF_timerVars(Tick) /\ \A d \in Def : WF_timerVars(Fire(d))

-----------------------------------------------------------------------------
(***************************************************************************)
(* Properties.                                                             *)
(***************************************************************************)

\* The firings that the definition asks for.
Declared(d) == IF Cycles[d] = Once \/ Cycles[d] <= 1 THEN 1 ELSE Cycles[d]

\* The firings that the row of d still stands for.
Left(d) == IF ~job[d].present THEN 0
           ELSE IF job[d].cycles # Once /\ job[d].cycles > 1 THEN job[d].cycles
           ELSE 1

\* A finite timer start fires exactly as often as it is declared, neither
\* lost nor doubled by failures and late passes: the firings that
\* _reschedule_or_delete_timer_start_job has counted and those that the row
\* stands for add up, and the row goes with the last one.
FiresAsDeclared ==
    \A d \in Def : Cycles[d] # Forever /\ (job[d].present \/ fired[d] > 0) =>
        fired[d] + Left(d) = Declared(d)

\* Late passes do not shift the schedule: the date in the payload is always
\* the first date and as many periods as there were firings.
NoDrift ==
    \A d \in Def :
        job[d].present => job[d].next = first[d] + fired[d] * Period[d]

\* No firing comes before its date, although run_at has whole seconds only.
NeverEarly ==
    [][\A d \in Def : fired'[d] > fired[d] => job[d].next <= now]_timerVars

\* A polled scheduler fires a finite timer start to the end.
AllFire ==
    \A d \in Def : job[d].present /\ Cycles[d] # Forever ~> ~job[d].present
=============================================================================

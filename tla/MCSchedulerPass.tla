-------------------------- MODULE MCSchedulerPass --------------------------
(***************************************************************************)
(* Instances of SchedulerPass for TLC.                                     *)
(***************************************************************************)
EXTENDS SchedulerPass, TLC

CONSTANTS order, claim, refund, retryOrder, timerOrder, timerClaim, timerRefund,
          nightly

\* One instance with both of its jobs, one with a timer job.
SharedOn == retryOrder :> order @@ timerOrder :> order @@ timerClaim :> claim

\* Every job has an instance of its own.
OwnOn ==
    retryOrder :> order @@ timerClaim :> claim @@ timerRefund :> refund
=============================================================================

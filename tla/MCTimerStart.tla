--------------------------- MODULE MCTimerStart ----------------------------
(***************************************************************************)
(* An instance of TimerStart for TLC: a timeCycle of two, a one-shot timer *)
(* and a timeCycle without a count.                                        *)
(***************************************************************************)
EXTENDS TimerStart, TLC

CONSTANTS report, backup, audit

AllCycles == report :> 2 @@ backup :> Once @@ audit :> Forever
AllPeriods == report :> 3 @@ backup :> 1 @@ audit :> 2
=============================================================================

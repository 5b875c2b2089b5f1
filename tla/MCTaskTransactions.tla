------------------------- MODULE MCTaskTransactions -------------------------
(***************************************************************************)
(* Instances of TaskTransactions for TLC.  Users and sessions have no      *)
(* roles of their own, and neither have the parallel tasks; writers differ *)
(* from other sessions unless all sessions are writers.                    *)
(***************************************************************************)
EXTENDS TaskTransactions, TLC

Roles == Permutations(Users) \cup Permutations(Manual)
         \cup Permutations(Sessions \ Writers) \cup Permutations(Writers)
=============================================================================

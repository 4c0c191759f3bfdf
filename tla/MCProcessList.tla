---------------------------- MODULE MCProcessList ----------------------------
(***************************************************************************)
(* The instances of ProcessList that TLC checks.                           *)
(***************************************************************************)
EXTENDS ProcessList, TLC

Symmetry == Permutations(Waiters) \cup Permutations(Pids)
=============================================================================

---------------------------- MODULE MCSystemClock ----------------------------
(* Instances of SystemClock for TLC. *)
EXTENDS SystemClock, TLC

CONSTANTS t1, t2

Symmetry == Permutations(Tasks)

\* The system's time is set forward and back by more than a run lasts.
FarOffsets == {0, 10}

\* The system's time is set back by no more than a run lasts.
NearOffsets == {0, -4}
=============================================================================

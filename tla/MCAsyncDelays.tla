---------------------------- MODULE MCAsyncDelays ----------------------------
(* Instances of AsyncDelays for TLC. *)
EXTENDS AsyncDelays, TLC

CONSTANTS c1, c2, c3

Symmetry == Permutations(Clients)
=============================================================================

------------------------- MODULE MCSuspensionObject -------------------------
(* Instances of SuspensionObject for TLC. *)
EXTENDS SuspensionObject, TLC

CONSTANTS w1, w2, s1, s2

Symmetry == Permutations({w1, w2}) \cup Permutations({s1, s2})
=============================================================================

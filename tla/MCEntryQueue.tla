---------------------------- MODULE MCEntryQueue ----------------------------
(* An instance of EntryQueue for TLC, and mutants of its definitions. *)
EXTENDS EntryQueue, TLC

CONSTANTS c1, c2, c3, c4

Symmetry == Permutations(Calls)

\* A selective wait with either alternative, both in either order, none.
AcceptLists == {<<>>, <<1>>, <<2, 1>>, <<1, 2>>}
=============================================================================

--------------------------- MODULE MCProtectedEntries ---------------------------
(* Instances of ProtectedEntries for TLC. *)
EXTENDS ProtectedEntries, TLC

CONSTANTS c1, c2, s1, o1, o2

Symmetry == Permutations(Callers)

NoRequeues == {}

Requeue(from, to, with_abort) == [from |-> from, to |-> to, with_abort |-> with_abort]

\* To the same object.
Within          == {Requeue(o1, o1, FALSE)}
WithinWithAbort == {Requeue(o1, o1, TRUE)}

\* To the other object.
Onward          == {Requeue(o1, o2, FALSE)}
OnwardWithAbort == {Requeue(o1, o2, TRUE)}

Forward          == Within \cup Onward
ForwardWithAbort == WithinWithAbort \cup OnwardWithAbort

\* With abort to the other object only.
WithinAndOnward == Within \cup OnwardWithAbort

\* In both directions.
Crosswise == {Requeue(o1, o2, FALSE), Requeue(o2, o1, FALSE)}
=============================================================================

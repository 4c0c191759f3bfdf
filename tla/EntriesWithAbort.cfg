\* Every kind of call, with abort deferred or not, requeued with abort to another object.
SPECIFICATION Spec
CONSTANTS
  c1 = c1
  c2 = c2
  s1 = s1
  o1 = o1
  o2 = o2
  NoTask = NoTask
  Callers = {c1, c2}
  Setters = {s1}
  Objects = {o1, o2}
  Entries = {1}
  Modes = {"Simple_Call", "Timed_Call", "Conditional_Call"}
  Deferred = {TRUE, FALSE}
  Requeues <- WithinAndOnward
  Abortable = {c1}
  MaxRequeues = 1
  MaxCalls = 1
INVARIANTS CallerStays
PROPERTIES OverIsFinal
\* Calls are bounded, and a call may wait for a barrier for ever.
CHECK_DEADLOCK FALSE

\* Timed calls, requeued without abort to the same and to another object.
SPECIFICATION FairSpec
CONSTANTS
  c1 = c1
  c2 = c2
  s1 = s1
  o1 = o1
  o2 = o2
  NoTask = NoTask
  Callers = {c1, c2}
  Setters = {s1}
  Objects = {o1, o2}
  Entries = {1}
  Modes = {"Timed_Call"}
  Deferred = {FALSE}
  Requeues <- Forward
  Abortable = {c1}
  MaxRequeues = 1
  MaxCalls = 1
INVARIANTS NoOpenEntryLeft NoLostCompletion
PROPERTIES GivenUpEnds StaysQueued
\* Calls are bounded, and a call may wait for a barrier for ever.
CHECK_DEADLOCK FALSE

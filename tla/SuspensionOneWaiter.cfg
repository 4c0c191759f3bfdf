\* One task that waits (and may set), two that only set; the scheduler is fair.
SPECIFICATION FairSpec
CONSTANTS
  w1 = w1
  w2 = w2
  s1 = s1
  s2 = s2
  NoTask = NoTask
  Waiters = {w1}
  Setters = {w1, s1, s2}
  Abortable = {}
INVARIANTS ReleasedNotStranded
PROPERTIES ImplementsFairContract

\* Two tasks that wait in turn, two that set, one of which may be aborted.
SPECIFICATION Spec
CONSTANTS
  w1 = w1
  w2 = w2
  s1 = s1
  s2 = s2
  NoTask = NoTask
  Waiters = {w1, w2}
  Setters = {s1, s2}
  Abortable = {s1}
SYMMETRY Symmetry
INVARIANTS OneWaiterAndClosed
PROPERTIES ImplementsContract

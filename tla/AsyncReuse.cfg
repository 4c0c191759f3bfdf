\* Two clients, two selects each at the same stack address.
SPECIFICATION Spec
CONSTANTS
  c1 = c1
  c2 = c2
  c3 = c3
  Header = Header
  Clients = {c1, c2}
  MaxTime = 2
  MaxDelay = 2
  MaxSensibleDelay = 1
  MaxSelects = 2
SYMMETRY Symmetry
INVARIANTS NoMissedDeadline NoLostAbortWakeup AbortEndsWithSelect
\* The clock and the selects are bounded: behaviours end.
CHECK_DEADLOCK FALSE

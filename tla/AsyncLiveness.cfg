\* Time passes, the server runs, and so do the clients.
SPECIFICATION FairSpec
CONSTANTS
  c1 = c1
  c2 = c2
  c3 = c3
  Header = Header
  Clients = {c1, c2}
  MaxTime = 2
  MaxDelay = 2
  MaxSensibleDelay = 3
  MaxSelects = 1
INVARIANTS NoPrematureTimeout
PROPERTIES TimeoutInterruptsSleep
\* The clock and the selects are bounded: behaviours end.
CHECK_DEADLOCK FALSE

SPECIFICATION FairSpec
CONSTANTS
  Spawners = {a}
  Waiters = {a, b}
  PidWaiters = {b}
  Handles = {h1, h2, h3}
  Pids = {p1, p2}
  MaxSpawn = 2
  MAXIMUM_WAIT_OBJECTS = 3
  ReuseHandles = FALSE
  NULL = NULL
  NoTask = NoTask
  NoPid = NoPid
INVARIANTS ListedHandlesOpen ReportedOnce
PROPERTIES WaitEnds
CHECK_DEADLOCK FALSE

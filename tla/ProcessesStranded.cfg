SPECIFICATION FairSpec
CONSTANTS
  Spawners = {c}
  Waiters = {a, b}
  PidWaiters = {c}
  Handles = {h1, h2, h3}
  Pids = {p1, p2}
  MaxSpawn = 1
  MAXIMUM_WAIT_OBJECTS = 3
  ReuseHandles = FALSE
  NULL = NULL
  NoTask = NoTask
  NoPid = NoPid

PROPERTIES WaitEnds
CHECK_DEADLOCK FALSE

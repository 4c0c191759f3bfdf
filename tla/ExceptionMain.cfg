SPECIFICATION Spec
CONSTANTS
  Funs <- MCFuns
  Start <- MCStart
  Images <- MCImages
  Chain <- MCChain
  Ops <- MCOps
  Roots <- MCRoots
  Occurrences = {1, 2}
  MaxDepth = 5
  ByOthers = {10, 11, 12}
  program_error = 14
  storage_error = 11
  constraint_error = 10
  Regions <- MCRegions
  TypeTable <- MCTypeTable
INVARIANTS HandlerIsInnermost CleanupsOnceInOrder PadSeesItsOccurrence
PROPERTIES HandlerReached
CHECK_DEADLOCK FALSE

\* Two tasks, two calls each: a base may be replaced twice during a copy.
SPECIFICATION Spec
CONSTANTS
  t1 = t1
  t2 = t2
  NoTask = NoTask
  Tasks = {t1, t2}
  Offsets <- FarOffsets
  MaxShift = 1
  MaxTries = 2
  MaxSamples = 1
  MaxSignature = 5
  MaxTicks = 1
  MaxAdjusts = 2
  MaxCalls = 2
SYMMETRY Symmetry
INVARIANTS CoherentCopy AccurateUnlessOvertaken
\* The clock and the calls are bounded: behaviours end.
CHECK_DEADLOCK FALSE

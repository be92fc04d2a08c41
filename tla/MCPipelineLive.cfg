SPECIFICATION FairSpec
CONSTANTS
  Last = 4
  Capacity <- MCCapacity
  Droppers = {3, 4}
  Crashers = {3}
  Gauge = TRUE
  Finite = TRUE
  Frames = 3
  MaxErrors = 2
  PreRoll = 1
INVARIANT FileDrained
PROPERTIES StopReturns SourceEndDrains

SPECIFICATION Spec
CONSTANTS
  Last = 5
  Capacity <- MCCapacity
  Droppers = {3, 4, 5}
  Crashers = {2, 3, 5}
  Gauge = TRUE
  Finite = FALSE
  Frames = 4
  MaxErrors = 2
  PreRoll = 1
INVARIANTS TypeOK InOrder NoLossWhileRunning TruncationOnly ResultIsFinal
PROPERTY Delivers

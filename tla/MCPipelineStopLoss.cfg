SPECIFICATION Spec
CONSTANTS
  Last = 4
  Capacity <- MCCapacity
  Droppers = {}
  Crashers = {}
  Gauge = TRUE
  Finite = FALSE
  Frames = 3
  MaxErrors = 2
  PreRoll = 1
INVARIANT GracefulStop

SPECIFICATION Spec
CONSTANTS
  Levels = {0, 1, 3}
  Threshold = 2
  Low = 1
  High = 5
  Window = 5
  Warm = 3
  Patience = 2
  Length = 8
  Burst = 2
INVARIANTS TypeOK SamplesOnce Adapts WarnsOnce
CHECK_DEADLOCK FALSE

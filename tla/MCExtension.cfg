SPECIFICATION MCSpec
CONSTANTS
  Conns = {1, 2}
  Settings = {de, en}
  First = en
  Unknown = unknown
  Capacity = 1
  Wire = 2
  Faults = {"crash", "refuse", "lock"}
  MaxFaults = 1
  MaxChanges = 2
INVARIANTS TypeOK OneChain IndicatorRight
PROPERTY Reconnects

SPECIFICATION Spec
CONSTANTS
  rankSize = 3
  REMOVE_INTERVAL = 2
  MaxGathers = 3
CHECK_DEADLOCK FALSE
INVARIANTS EveryonesData DataStay

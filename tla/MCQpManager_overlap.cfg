SPECIFICATION Spec
CONSTANTS
  rankCount = 3
  MaxFailures = 0
CHECK_DEADLOCK FALSE
INVARIANT TableIsWhole

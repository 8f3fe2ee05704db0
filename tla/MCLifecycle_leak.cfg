SPECIFICATION Spec
CONSTANTS
  N = 2
  Roce = TRUE
  MaxSessions = 2
  MaxAllocs = 0
  MaxFaults = 0
INVARIANT FinalizeReleasesAll
CHECK_DEADLOCK FALSE

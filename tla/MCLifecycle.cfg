SPECIFICATION FairSpec
CONSTANTS
  N = 2
  Roce = TRUE
  MaxSessions = 2
  MaxAllocs = 2
  MaxFaults = 1
INVARIANT PeersAreReady ImportsAreCurrent CallsAreCollective FinalizeReleases
PROPERTY CallsReturn
CHECK_DEADLOCK FALSE

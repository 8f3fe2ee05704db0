SPECIFICATION FairSpec
CONSTANTS
  rankCount = 3
  MaxFailures = 1
CHECK_DEADLOCK FALSE
INVARIANTS SuccessIsConnected TableIsWholeIfNoOverlap
PROPERTIES EveryoneConnects ConnectReturns

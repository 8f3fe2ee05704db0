SPECIFICATION FairSpec
CONSTANTS
  nranks = 3
  Program <- MCProgram
  MaxTimeOuts = 2
INVARIANTS EveryonesData EveryoneCame CloseIsSafe
PROPERTIES EveryonePasses
CHECK_DEADLOCK FALSE

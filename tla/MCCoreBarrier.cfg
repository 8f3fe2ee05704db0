SPECIFICATION FairSpec
CONSTANTS
  BlockDim = 5
  LOG_MAX_AIV = 3
  MaxBarriers = 3
CHECK_DEADLOCK FALSE
PROPERTIES EveryonePasses ImplementsBarrier

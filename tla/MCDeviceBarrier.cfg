SPECIFICATION FairSpec
CONSTANTS
  Size = 3
  VecSize = 2
  KVAL = 8
  MaxBarriers = 3
CHECK_DEADLOCK FALSE
PROPERTIES EveryonePasses ImplementsBarrier

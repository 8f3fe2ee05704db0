SPECIFICATION FairSpec
CONSTANTS
  Ranks = {r1, r2, r3}
  REMOVE_INTERVAL = 2
  MaxBarriers = 3
CHECK_DEADLOCK FALSE
INVARIANT OldKeysGone
PROPERTIES NeededKeysStay EveryonePasses ImplementsBarrier

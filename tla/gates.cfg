CONSTANTS
  numPCP = 2
  cycle_ticks = 8
  Lists <- MCLists
  FrameTicks = 2
  MaxQueued = 2
  MaxConfigs = 5
SPECIFICATION FairSpec
INVARIANTS ShaperTypeOK GatesFollowList GuardedWindowIsFree NoEligibleFrameWaits
PROPERTY EveryClassIsServed

SPECIFICATION FairSpec
CONSTANTS
  Drivers = {d1}
  Documents = {license}
  Workers = {w1, w2}
  None = None
  StrikeLimit = 3
  MaxMonths = 2
  MaxNow = 1
  MaxStrikes = 4
  MaxRides = 1
  MaxFaults = 1
CONSTRAINT StrikesApart
INVARIANTS
  TypeOK
  SuspendedOutOfPool
PROPERTIES
  ThirdStrikeSuspends
  ExpiredLeavesPool
CHECK_DEADLOCK FALSE

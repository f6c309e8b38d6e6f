SPECIFICATION FairSpec
CONSTANTS
  Rides = {r1}
  Drivers = {d1}
  Workers = {w1}
  None = None
  MaxReassign = 0
  AcceptTTL = 1
  TimeoutDelay = 2
  MaxAuto = 0
  MaxFaults = 0
  CeleryRuns = TRUE
PROPERTIES
  UnansweredOfferEnds
CHECK_DEADLOCK FALSE

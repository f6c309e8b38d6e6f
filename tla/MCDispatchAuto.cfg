SPECIFICATION FairSpec
CONSTANTS
  Rides = {r1}
  Drivers = {d1}
  Workers = {w1, w2}
  None = None
  MaxReassign = 0
  AcceptTTL = 1
  TimeoutDelay = 2
  MaxAuto = 1
  MaxFaults = 0
  CeleryRuns = TRUE
PROPERTIES
  ArrivedRideCompletes
CHECK_DEADLOCK FALSE

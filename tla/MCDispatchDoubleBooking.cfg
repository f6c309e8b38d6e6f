SPECIFICATION Spec
CONSTANTS
  Rides = {r1, r2}
  Drivers = {d1}
  Workers = {w1, w2}
  None = None
  MaxReassign = 0
  AcceptTTL = 1
  TimeoutDelay = 2
  MaxAuto = 0
  MaxFaults = 0
  CeleryRuns = FALSE
INVARIANTS
  OneLiveRidePerDriver
CHECK_DEADLOCK FALSE

SPECIFICATION Spec
CONSTANTS
  Rides = {r1}
  Drivers = {d1, d2}
  Workers = {w1, w2}
  None = None
  MaxReassign = 1
  AcceptTTL = 1
  TimeoutDelay = 1
  MaxAuto = 1
  MaxFaults = 1
  CeleryRuns = TRUE
SYMMETRY Symmetry
CONSTRAINT Apart
INVARIANTS
  ServedByDriver
PROPERTIES
  ReassignmentsCounted
  MatchedFromPool
  RefinesLifecycle
CHECK_DEADLOCK FALSE

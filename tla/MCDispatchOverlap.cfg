SPECIFICATION Spec
CONSTANTS
  Rides = {r1}
  Drivers = {d1}
  Workers = {w1, w2}
  None = None
  MaxReassign = 1
  AcceptTTL = 1
  TimeoutDelay = 2
  MaxAuto = 1
  MaxFaults = 1
  CeleryRuns = TRUE
SYMMETRY Symmetry
INVARIANTS
  TypeOK
  OfferNamesDriver
  SettledIsPriced
CHECK_DEADLOCK FALSE

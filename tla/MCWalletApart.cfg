SPECIFICATION Spec
CONSTANTS
  Passengers = {p1}
  Drivers = {d1, d2}
  Topups = {t1, t2}
  Rides = {r1}
  Withdrawals = {x1}
  Workers = {w1, w2}
  None = None
  TopupAmount = 2
  Fare = 2
  Commission = 1
  WithdrawAmount = 1
  Notified <- Notifications
  MaxOpenings = 2
  MaxFaults = 1
SYMMETRY Symmetry
CONSTRAINT Apart
INVARIANTS
  LedgerReconciles
PROPERTIES
  RefinesPurse
CHECK_DEADLOCK FALSE

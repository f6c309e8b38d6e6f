SPECIFICATION Spec
CONSTANTS
  Passengers = {p1}
  Drivers = {d1}
  Topups = {t1}
  Rides = {}
  Withdrawals = {x1}
  Workers = {w1}
  None = None
  TopupAmount = 2
  Fare = 2
  Commission = 1
  WithdrawAmount = 1
  Notified <- Notifications
  MaxOpenings = 1
  MaxFaults = 0
PROPERTIES
  FailedWithdrawalReversed
CHECK_DEADLOCK FALSE

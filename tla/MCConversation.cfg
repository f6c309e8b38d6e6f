SPECIFICATION FairSpec
CONSTANTS
  Workers = {w1, w2}
  Rides = {r1}
  Party = {passenger}
  Tickets = {t1}
  None = None
  BaseFee = 1000
  RatePerKm = 1200
  RatePerMinute = 50
  MinimumFare = 2000
  Routes <- MCRoutes
  Straight = 300
  Trails <- MCTrails
  Lasted <- MCLasted
  Chosen = {"NEGOTIATING", "CANCELLED"}
  MaxTurns = 2
  MaxReplies = 2
INVARIANTS
  TypeOK
  NoHalfTurns
  ResolvedIsStamped
  FaresAreClean
  QuoteFitsRoute
  RatedByReaders
PROPERTIES
  RefinesHelpdesk
  ReplyReachesPassenger
CHECK_DEADLOCK FALSE

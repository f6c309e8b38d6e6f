SPECIFICATION Spec
CONSTANTS
  Workers = {w1, w2}
  Phones = {p1}
  MaxAttempts = 1
  MaxOtps = 1
  MaxTokens = 3
  MaxCodes = 1
  MaxFaults = 1
INVARIANTS
  TypeOK
  OneSessionPerOtp
  RotationReplaces
  RequestsLimited
  ResetCodeUsedUp
  CountersExpire
SYMMETRY Symmetry
CHECK_DEADLOCK FALSE

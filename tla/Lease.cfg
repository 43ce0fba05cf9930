SPECIFICATION Spec
CONSTANTS
  Worker = {w1, w2, w3}
  Id = {a, b}
  ClaimTime = 7
  UrlTime = 2
  Interval = 6
  RequestTime = 1
  MaxMissed = 1
  Timeout = 24
  SweepPeriod = 6
  Null = Null
SYMMETRY Alike
INVARIANTS
  TypeOK
  OneHolder
  RecoveredInTime
  HoldersHaveTheLease
  EndingIsCovered

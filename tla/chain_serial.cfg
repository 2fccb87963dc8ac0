CONSTANTS
  Builders = {b1}
  Attesters = {a1}
  MaxClock = 4
  MaxReports = 4
  MaxKeys = 0
  OneAtATime = TRUE
  FreshSecond = TRUE
  Faults = TRUE
  AllowForce = FALSE
  Absent = Absent
  Torn = Torn
SPECIFICATION VerifySpec
INVARIANTS Linked LatestIsInTrail FailsOnlyAtTear
PROPERTY AppendOnlyTrail
CHECK_DEADLOCK FALSE

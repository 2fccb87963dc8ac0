CONSTANTS
  Builders = {b1}
  Attesters = {a1}
  MaxClock = 3
  MaxReports = 3
  MaxKeys = 0
  OneAtATime = TRUE
  FreshSecond = TRUE
  Faults = TRUE
  AllowForce = FALSE
  Absent = Absent
  Torn = Torn
SPECIFICATION VerifySpec
INVARIANT GapNamesItsReport
CHECK_DEADLOCK FALSE

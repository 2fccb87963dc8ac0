CONSTANTS
  Builders = {b1, b2}
  Attesters = {a1}
  MaxClock = 2
  MaxReports = 3
  MaxKeys = 0
  OneAtATime = FALSE
  FreshSecond = FALSE
  Faults = TRUE
  AllowForce = FALSE
  Absent = Absent
  Torn = Torn
SPECIFICATION VerifySpec
SYMMETRY BuilderSymmetry
INVARIANTS DepthIsLength IntactIsWholeHistory
CHECK_DEADLOCK FALSE

CONSTANTS
  Builders = {b1}
  Attesters = {a1, a2}
  MaxClock = 2
  MaxReports = 2
  MaxKeys = 3
  OneAtATime = TRUE
  FreshSecond = TRUE
  Faults = TRUE
  AllowForce = TRUE
  Absent = Absent
  Torn = Torn
SPECIFICATION VerifySpec
SYMMETRY AttesterSymmetry
INVARIANTS TypeOK SignaturesVerify
CHECK_DEADLOCK FALSE

CONSTANTS
  Caps = {0, 3}
  MaxSaves = 3
  MaxNoise = 1
  Accepts <- BothCodings
  Packed <- PackedBefore
  MaxClock = 2
  MaxBuilds = 1
  MaxPacks = 1
  Absent = Absent
  Torn = Torn
SPECIFICATION DevSpec
CHECK_DEADLOCK FALSE
INVARIANTS TypeOK NoLostWakeup
INVARIANTS FreshAnswer LoadMatches PresentIsServed
PROPERTIES SaveIsBuilt Answered

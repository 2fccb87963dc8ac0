CONSTANTS
  Caps = {0}
  MaxSaves = 1
  MaxNoise = 0
SPECIFICATION FairSpec
CHECK_DEADLOCK FALSE
PROPERTIES Settles

CONSTANTS
  Sites = {s1}
  Fingerprints = {f1, f2}
  MaxEntries = 2
  Faults = FALSE
  Unset = Unset
  WholeSeconds = FALSE
  Newline = Newline
  Torn = Torn
SYMMETRY SiteSymmetry
SPECIFICATION RegistrySpec
INVARIANT OwnTimestampAccepted
CHECK_DEADLOCK FALSE

CONSTANTS
  Sites = {s1, s2}
  Fingerprints <- Pages
  MaxEntries = 2
  Faults = TRUE
  Unset = Unset
  WholeSeconds = TRUE
  Newline = Newline
  Torn = Torn
  Tenant <- OneTenant
  NoTenant = NoTenant
  AssetKinds <- Assets
  Threshold = 2
  TenantScope = FALSE
SYMMETRY SiteSymmetry
SPECIFICATION Spec
INVARIANTS TypeOK NeverForked AckedIsListed SitesAreApart
CHECK_DEADLOCK FALSE

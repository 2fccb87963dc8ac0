CONSTANTS
  about = about
  privacy = privacy
  SlugOrder <- MCSlugOrder
  ParentOf <- MCParentOf
  Index = Index
  BaseSkin = base
  Skins = {base, bold}
  Styles = {red, blue}
  Policies <- MCPolicies
  Modes = {"poc", "production", "hybrid"}
  MaxEdits = 2
  MaxBuilds = 3
  Absent = Absent
  Torn = Torn
SPECIFICATION Spec
CHECK_DEADLOCK FALSE
INVARIANTS TypeOK OkMeansFresh OkMeansIntegrity QuietBuildSucceeds

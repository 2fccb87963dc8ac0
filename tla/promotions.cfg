CONSTANTS
  about = about
  privacy = privacy
  SlugOrder <- MCSlugOrder
  ParentOf <- MCParentOf
  Index = Index
  BaseSkin = base
  Skins = {base}
  Styles = {red}
  Policies <- OneWithExempt
  Modes = {"poc"}
  MaxEdits = 2
  MaxBuilds = 2
  Absent = Absent
  Torn = Torn
SPECIFICATION Spec
CHECK_DEADLOCK FALSE
INVARIANTS PromotedOrphanBlocks

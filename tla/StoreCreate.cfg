SPECIFICATION Spec
CONSTANTS
  Device = {d1, d2}
  ProjectId = {p1, p2}
  SalvageId = {s1, s2}
  CloseoutId = {k1, k2}
  Value = {a, b}
  Blank = Blank
  Unset = Unset
  NULL = NULL
  Existing = {}
  WithoutSalvage = {}
  Unpriced = {}
  Creators = {d1, d2}
  Editors = {}
  CellGroups <- HalfForms
INVARIANTS TypeOK LinksSound OwnRows ScreenIsStored
PROPERTIES AbandonedForever RegistrySpec
SYMMETRY Symmetry

SPECIFICATION Spec
CONSTANTS
  Device = {d1, d2}
  ProjectId = {p1, p2}
  SalvageId = {s1, s2}
  CloseoutId = {k1, k2}
  Value = {a}
  Blank = Blank
  Unset = Unset
  NULL = NULL
  Existing = {p1, p2}
  WithoutSalvage = {p1}
  Unpriced = {p2}
  Creators = {}
  Editors = {d1, d2}
  CellGroups <- WholeForm
INVARIANTS SalvageCreatedAlready

SPECIFICATION FairSpec
CONSTANTS
  Device = {d1, d2}
  ProjectId = {1, 2}
  SalvageId = {s1, s2}
  CloseoutId = {k1, k2}
  a = a
  Value = {a}
  Blank = Blank
  Unset = Unset
  NULL = NULL
  Existing = {1}
  WithoutSalvage = {}
  Unpriced = {}
  Creators = {d1}
  Editors = {d2}
  CellGroups <- WholeForm
  MaxProjects = 2
  Stages = {"Active", "Proposal"}
  StageOf <- StageOfCells
  MeetsOf <- MeetsOfCells
  TriggerRows <- TriggersSee
  RowOf <- RowOfCells
  Quiet <- QuietRow
INVARIANTS SavesFindTheirRows
PROPERTIES FeedsReports StatementsEnd

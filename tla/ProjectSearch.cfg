SPECIFICATION Spec
CONSTANTS
    RowID = {1, 2}
    Name = {m, n}
    Project = {p}
    None = None
INVARIANTS
    TypeOK
    FoundUnderTheirName
    OnlyNamesakesConfused
    FilledFieldsCount
SYMMETRY NameSymmetry

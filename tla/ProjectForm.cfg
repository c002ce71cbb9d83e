SPECIFICATION Spec
SYMMETRY NameSymmetry
CONSTANTS
    zero = zero
    Cells = {2, 9, 12, 27}
    Id = {1, 2}
    Name = {m, n}
    Text <- Texts
    Blank = Blank
    IntegerValue <- ZeroOf
    Null = Null
INVARIANTS
    TypeOK
    SavedIsShown
    MeantIsSaved
    RaisesOnlyOnDrift

SPECIFICATION Spec
CONSTANTS
    zero = zero
    Cells = {4, 30}
    Id = {1, 2}
    Name = {m, n}
    Text <- Texts
    Blank = Blank
    IntegerValue <- ZeroOf
    Null = Null
INVARIANT SavesWhatIsEntered

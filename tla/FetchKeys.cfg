SPECIFICATION Spec
CONSTANTS
    Bare <- NoTable
    Statement <- AllStatements
    Table <- Tables
    Field <- Fields
    Columns <- Selected
    Reads <- Read
INVARIANTS
    TypeOK
    KeysDistinct
    KeysFound

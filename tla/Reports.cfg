SPECIFICATION Spec
CONSTANTS
    MaxProjects = 2
    Stages <- Types
    Meets = {TRUE}
    Chosen <- AllReports
INVARIANTS
    TypeOK
    OwnPeople
    CrashesOnlyOnRaggedData
    HeadersMatch
    TitleTrue

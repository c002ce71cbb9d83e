SPECIFICATION Spec
CONSTANTS
    p1 = p1
    Null = Null
    NoDate = Null
    Projects <- OneProject
    Rows <- BoundaryRows
    LastDay = 1
INVARIANTS
    TypeOK
    AlarmsNeverMissed
    NoFalseAlarm
    FiledOnce

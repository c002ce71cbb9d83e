SPECIFICATION Spec
CONSTANTS
    MaxProjects = 2
    Stages <- OneStage
    Meets = {TRUE, FALSE}
    Chosen <- WeeklyActive
INVARIANTS
    RowIsOneProject

SPECIFICATION Spec
CONSTANTS
    d1 = d1
    d2 = d2
    Device <- TwoDevices
    Conn = {1, 2, 3}
    Password = {x, y}
    Typed = {x}
    NULL = NULL
    NoUser = NoUser
    MaxDrops = 1
INVARIANTS
    TypeOK
    TwoAnswersAtMost
    ConnectionPerHandler
    EveryHandlerCostsOne
    HudHasTimer
PROPERTIES
    VerdictTrue
    FirstAnswered

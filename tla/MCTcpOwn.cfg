SPECIFICATION Spec
CONSTANTS
    SocCnt = 2
    ReqLen = 3
    UnitFunc = {2}
    BufLen = 7
    TxMax = 2
    MaxRx = 6
    Radix = 6
    Events = {"abort", "timeout", "pipeline", "earlySyn"}
INVARIANTS
    AnswerIsOwn
PROPERTIES
    HaltsOnlyForAPeer
    ImplementsRequestServer
CHECK_DEADLOCK FALSE

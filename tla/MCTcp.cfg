SPECIFICATION Spec
CONSTANTS
    SocCnt = 1
    ReqLen = 3
    UnitFunc = {2}
    BufLen = 5
    TxMax = 2
    MaxRx = 6
    Radix = 4
    Events <- AllEvents
INVARIANTS
    ServerTypeOK
    AtMostOneUnacked
    StuckOnlyAfterFailure
    ReceivedIsOwn
PROPERTIES
    OnlyNewDataDisturbs
CHECK_DEADLOCK FALSE

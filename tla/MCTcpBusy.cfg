SPECIFICATION Spec
CONSTANTS
    SocCnt = 1
    ReqLen = 3
    UnitFunc = {2}
    BufLen = 7
    TxMax = 2
    MaxRx = 6
    Radix = 6
    Events = {"pipeline"}
INVARIANTS
    BusyOnlyNonBlock

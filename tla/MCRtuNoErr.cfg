SPECIFICATION Spec
CONSTANTS
    RxSize <- MCRxSize
    Byte <- MCByte
    NoByte = NoByte
    Value <- MCValue
    Frame <- MCFrame
    NoData = NoData
    Garbage = Garbage
    Garbled <- MCGarbled
    Faults = {"garbled"}
    MaxFaults = 1
    SCAN_RATE = 1
    RESPONS_TIMEOUT = 1
    CntMod = 3
INVARIANTS
    NoErrMeansNoError

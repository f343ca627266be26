SPECIFICATION SystemSpec
CONSTANTS
    RxSize = 1
    Byte <- MCByte
    NoByte = NoByte
    Value <- MCValue
    Frame <- MCFrame
    NoData = NoData
    Garbage = Garbage
    Garbled <- MCGarbled
    Faults <- MCFaults
    MaxFaults = 1
    SCAN_RATE = 0
    RESPONS_TIMEOUT = 0
    CntMod = 3
    NReg = 2
    Queries <- MCQueries
    ClientWords <- MCClientWords
    MaxFrames = 2
    MaxErr = 1
INVARIANTS
    TornForward
PROPERTIES
    ReplyIsRegular
    NeverBackwards
    ImplementsGateway

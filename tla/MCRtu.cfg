SPECIFICATION FairSpec
CONSTANTS
    RxSize <- MCRxSize
    Byte <- MCByte
    NoByte = NoByte
    Value <- MCValue
    Frame <- MCFrame
    NoData = NoData
    Garbage = Garbage
    Garbled <- MCGarbled
    Faults <- MCFaults
    MaxFaults = 2
    SCAN_RATE = 1
    RESPONS_TIMEOUT = 1
    CntMod = 3
INVARIANTS
    RtuTypeOK
    ReceiverOwned
    FreshAfterTwoGood
    OneAnswer
    NoInterruptStorm
    RoomForNextByte
    OverrunKeepsByte
PROPERTIES
    PollsForever
    RecoversUnlessStale
    ImplementsPollCycle

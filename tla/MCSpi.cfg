SPECIFICATION FairSpec
CONSTANTS
    Size = 3
    Value = {v1, v2}
    MaxLen = 2
    Dummy = Dummy
    Junk = Junk
    None = None
INVARIANTS
    SpiTypeOK
    NeverRefused
    FrameWhole
PROPERTIES
    ImplementsChipAccess
    AccessReturns

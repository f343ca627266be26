SPECIFICATION WizFair
CONSTANTS
    Top = 2
    Mod = 8
    Size = 4
    MaxLen = 2
    Value = {v1, v2}
INVARIANTS
    WizTypeOK
    ResultWasThere
    ZeroOnlyAcrossBoundary
PROPERTIES
    ImplementsByteStream
    Returns

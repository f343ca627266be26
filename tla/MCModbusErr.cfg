SPECIFICATION Spec
CONSTANTS
    RegNo <- MCRegNo
    Quantity = 2
    BufCnt = 14
    Word <- MCWord
    Asked <- MCAsked
INVARIANTS
    ExceptionFlagged

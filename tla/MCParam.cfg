SPECIFICATION Spec
CONSTANTS
    Elements <- MCElements
    Requests <- MCRequests
    Chars <- MCChars
    MaxText = 3
    MaxEvents = 2
INVARIANTS
    ComparesAsSent
    EachEventHandledOnce

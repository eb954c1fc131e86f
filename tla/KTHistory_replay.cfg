SPECIFICATION Spec
CONSTANTS
    d1 = d1
    d2 = d2
    None = None
    Data <- MCData
    MaxEpoch = 2
    PageSize = 2
    W64 = 5
    W32 = 3
    Starts <- MCStarts
    Ends <- MCEnds
    Networks = {FALSE}
    Tamper = FALSE
INVARIANT HistorySound
CHECK_DEADLOCK FALSE

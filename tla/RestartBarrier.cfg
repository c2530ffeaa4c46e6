\* Two windows, two requests, settings changes and a window that closes.
CONSTANTS
    Windows = {w1, w2}
    MaxCalls = 2
    MaxRequests = 2
    MaxOperations = 4
    HistoryLimit = 1
SPECIFICATION FairSpec
CHECK_DEADLOCK FALSE
INVARIANTS TypeOK  RestartedOnce
PROPERTIES RestartIsServed

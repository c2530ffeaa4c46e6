\* The end of a turn that a reset cancels.
CONSTANTS
    MaxRequests = 1
    MaxSessions = 3
    MaxChunks = 0
    QueueCap = 1
    MaxOf <- MCMaxOf
    UserOps = {"reset"}
    MaxOps = 2
SPECIFICATION Spec
CHECK_DEADLOCK FALSE
INVARIANTS CancelledTurnEnds

\* All kinds of requests with two interventions.
CONSTANTS
    MaxRequests = 3
    MaxSessions = 3
    MaxChunks = 1
    QueueCap = 2
    MaxOf <- MCMaxOf
    UserOps = {"stop", "clear", "reset", "queue", "shell", "failure", "card", "disconnect"}
    MaxOps = 2
SPECIFICATION Spec
CHECK_DEADLOCK FALSE
INVARIANTS TypeOK OutputIsItsOwn  ResumableWasAsked
PROPERTIES KeepsFlightPromise

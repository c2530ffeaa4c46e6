\* Every transaction and every cleanup ends.
SPECIFICATION FairSpec
CONSTANTS
    h1 = h1  h2 = h2
    a = a  n1 = n1
    Helpers = {h1, h2}
    Sessions = {a, n1}
    Stored = {a}
    Exclusive = FALSE
    MaxRequests = 1
    None = None
CHECK_DEADLOCK FALSE
PROPERTIES TransactionsEnd CleanupEnds

CONSTANTS
    Helpers = {h1}
    Tabs = {t1, t2}
    TabOps = {o1}
    AllOps = {a1}
    CloseOps = {}
    ResetOps = {}
    Renames = TRUE
    Lagging = TRUE
    Overlap = FALSE
    Cap = 2
    MaxRequests = 2
    MaxOps = 2
    None = None
SPECIFICATION FairSpec
CHECK_DEADLOCK FALSE
PROPERTIES OperationsEnd LostIsForgotten

\* Two model-scoped keys of one launch target: starts, retirement, lease timeouts, exits.
CONSTANTS
    w = w  m1 = m1  m2 = m2  targetW = targetW  targetM = targetM
    Helpers = {h1, h2}
    Keys = {m1, m2}
    ModelKeys = {m1, m2}
    Admissions = {targetM}
    AdmissionOf <- MCAdmissionOf
    Cells <- MCCells
    Insts <- MCInsts
    MaxAttempts = 2
    MaxRequests = 1
    None = None
SPECIFICATION FairSpec
CHECK_DEADLOCK FALSE
INVARIANTS RunningIsPooled  OneProcessPerGeneration
PROPERTIES InUseAgentKept InitializeCompletes StoppedAgentLeavesPool

CONSTANTS
    Helpers = {h1, h2}
    Tabs = {t1}
    TabOps = {}
    AllOps = {a1, a2}
    CloseOps = {}
    ResetOps = {}
    Renames = FALSE
    Lagging = FALSE
    Overlap = FALSE
    Cap = 2
    MaxRequests = 1
    MaxOps = 2
    None = None
SPECIFICATION Spec
CHECK_DEADLOCK FALSE
SYMMETRY HelperSymmetry
INVARIANTS TypeOK AllFenceReleased GoneLeavesNothing
PROPERTIES RetiredNeverCommits

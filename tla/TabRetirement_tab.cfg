\* Retirement, close and reset of tabs with drags.
CONSTANTS
    Helpers = {h1, h2}
    Tabs = {t1, t2}
    TabOps = {o1}
    AllOps = {}
    CloseOps = {c1}
    ResetOps = {r1}
    Renames = TRUE
    Lagging = FALSE
    Overlap = FALSE
    Cap = 2
    MaxRequests = 1
    MaxOps = 2
    None = None
SPECIFICATION Spec
CHECK_DEADLOCK FALSE
SYMMETRY HelperSymmetry
INVARIANTS ReportIsTrue FencesBalanced ReplacementNotBlocked
PROPERTIES RetiredNeverCommits

\* Helpers load any session, also one another helper owns or is loading.
SPECIFICATION Spec
CONSTANTS
    h1 = h1  h2 = h2
    a = a  n1 = n1
    Helpers = {h1, h2}
    Sessions = {a, n1}
    Stored = {a}
    Exclusive = FALSE
    MaxRequests = 2
    None = None
SYMMETRY HelperSymmetry
CHECK_DEADLOCK FALSE
INVARIANTS RouteHeldWhileClosing
PROPERTIES LateCleanupHarmless  FencedNeverCommits

\* Helpers load only sessions no other helper has.
SPECIFICATION Spec
CONSTANTS
    h1 = h1  h2 = h2
    a = a  n1 = n1
    Helpers = {h1, h2}
    Sessions = {a, n1}
    Stored = {a}
    Exclusive = TRUE
    MaxRequests = 3
    None = None
SYMMETRY HelperSymmetry
CHECK_DEADLOCK FALSE
INVARIANTS  NothingOutlivesHelper TablesAgree

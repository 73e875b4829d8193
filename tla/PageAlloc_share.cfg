SPECIFICATION Spec
CONSTANTS
    c1 = c1
    c2 = c2
    c3 = c3
    c4 = c4
    c5 = c5
    c6 = c6
    NULL = NULL
    Clients = {c1, c2, c3, c4, c5, c6}
    Counts = {1}
    MapBytes = 10
    InMap = FALSE
SYMMETRY Symmetry
CHECK_DEADLOCK FALSE
INVARIANTS NoSharing

SPECIFICATION Spec
CONSTANTS
    c1 = c1
    c2 = c2
    c3 = c3
    c4 = c4
    c5 = c5
    c6 = c6
    NULL = NULL
    Clients = {c1, c2, c3, c4}
    Counts = {1, 2, 3, 4, 5, 6, 7, 8, 9}
    MapBytes = 10
    InMap = TRUE
SYMMETRY Symmetry
CHECK_DEADLOCK FALSE
INVARIANTS TypeOK MapExact NoSharing HighestFit

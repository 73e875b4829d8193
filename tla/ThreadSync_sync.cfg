CONSTANTS
    init = init
    a = a
    b = b
    c = c
    l1 = l1
    l2 = l2
    s1 = s1
    NULL = NULL
    Threads = {init, a, b, c}
    init_struct = init
    Locks = {l1, l2}
    Semas = {s1}
    SemaInit <- OneSlotMore
    SLICE = 2
    HandOff = TRUE
SYMMETRY Symmetry
SPECIFICATION HSpec
INVARIANTS HTypeOK Coupled Admission NoLostWakeup
PROPERTY Refinement
CHECK_DEADLOCK FALSE

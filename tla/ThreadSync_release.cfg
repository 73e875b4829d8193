SPECIFICATION Spec
CONSTANTS
    init = init
    a = a
    b = b
    l1 = l1
    NULL = NULL
    Threads = {init, a, b}
    init_struct = init
    Locks = {l1}
    Semas = {}
    SemaInit <- NoSemas
    SLICE = 2
    HandOff = FALSE
INVARIANT PicksThreads

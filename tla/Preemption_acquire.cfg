SPECIFICATION Spec
CONSTANTS
    init = init
    a = a
    b = b
    c = c
    LOCK = LOCK
    BOOT = BOOT
    NULL = NULL
    Threads = {init, a, b}
    init_struct = init
    SLICE = 2
    HandOff = TRUE
    MaxDepth = 3
    CountIn = {"own", "acquire", "enqueued", "release"}
    SwitchIn = {"own", "acquire"}
SYMMETRY Symmetry
INVARIANT MutualExclusion

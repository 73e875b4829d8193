SPECIFICATION FairSpec
CONSTANTS
    init = init
    a = a
    b = b
    c = c
    LOCK = LOCK
    BOOT = BOOT
    NULL = NULL
    Threads = {init, a, b, c}
    init_struct = init
    SLICE = 2
    HandOff = TRUE
    MaxDepth = 3
    CountIn = {"own", "acquire", "enqueued", "release"}
    SwitchIn = {"own"}
INVARIANTS TypeOK CurrentRuns Resumable OneList MutualExclusion NoLostWakeup
PROPERTIES ReadyRuns WaitersWoken

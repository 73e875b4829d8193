CONSTANTS
    Machines <- MCMachines
    PAGE_SIZE = 4
    PAGE_ENTRYS = 1024
    PAGE_DIR_LOCAL = 1024
    PAGE_TABLE_LOCAL = 1028
    STACK_TOP = 2048
    STACK_ROOM = 4
    BIT_MAP = 5120
    MAP_MAX = 5
    Word = 4194304
    EarlyTicks = FALSE
SPECIFICATION Spec
INVARIANTS TypeOK AreasApart PagesAreRam PagesAreMapped GatesReady
PROPERTY TickServed
CHECK_DEADLOCK FALSE

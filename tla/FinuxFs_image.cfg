SPECIFICATION Spec
CONSTANTS
    SectorBytes = 8
    InodeBytes = 4
    MaxInodes = 7
    SectorCnt = 90
    KernelName <- Kernel
    Names <- OneName
    Sizes <- Lengths
    Before <- Partitions
    Reuse = FALSE
    Zero = Zero
    One = One
    Junk = Junk
    NUL = NUL
    NULL = NULL
INVARIANTS
    TypeOK
    WholeKernel
    InstalledBoots
    FreshIsEmpty
    FormatsOnce
    MapCovers
CHECK_DEADLOCK TRUE

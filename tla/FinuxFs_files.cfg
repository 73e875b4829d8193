SPECIFICATION Spec
CONSTANTS
    SectorBytes = 8
    InodeBytes = 4
    MaxInodes = 7
    SectorCnt = 64
    KernelName <- Kernel
    Names <- TwoNames
    Sizes <- ShortLengths
    Before <- Partitions
    Reuse = TRUE
    Zero = Zero
    One = One
    Junk = Junk
    NUL = NUL
    NULL = NULL
INVARIANTS
    WholeKernel
CHECK_DEADLOCK TRUE

SPECIFICATION FairSpec
CONSTANTS
    x = x
    y = y
    LBAs = {1, 2}
    Data = {x, y}
    IDENT = IDENT
    GARBAGE = GARBAGE
INVARIANTS TypeOK CallDone OneAnswer HandlersApart
PROPERTIES CallsReturn TimerServed

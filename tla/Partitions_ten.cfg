CONSTANTS
    MaxLogical = 6
    Size = 20
    Gap = 12
    Others <- MCOthers
SPECIFICATION Spec
INVARIANT DocumentedLimits
CHECK_DEADLOCK FALSE

CONSTANTS
    MaxLogical = 6
    Size = 20
    Gap = 12
    Others <- MCOthers
SPECIFICATION Spec
INVARIANTS TypeOK BaseRight InBounds ToolAgrees
CHECK_DEADLOCK FALSE

SPECIFICATION Spec
CONSTANTS
    BUF = 2
    REPORTS = 2
    Pairs <- SmallGrains
CHECK_DEADLOCK FALSE
INVARIANT VerdictRight

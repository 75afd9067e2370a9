SPECIFICATION Spec
CONSTANTS
    BUF = 2
    REPORTS = 2
    Pairs <- InStep
CHECK_DEADLOCK FALSE
INVARIANTS
    VerdictRight
    ReportsAreReal
PROPERTY DiffEnds

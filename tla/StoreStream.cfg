SPECIFICATION Spec
CONSTANTS
    MaxBytes = 6
    BufferSizes = {0, 1, 2, 3, 4, 5}
    INT_MAX = 4
INVARIANTS
    ExactProgress
PROPERTIES
    Terminates
    RefinesCopy
CHECK_DEADLOCK FALSE

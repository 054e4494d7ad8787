SPECIFICATION Spec
CONSTANTS
    DefaultSize = 2
    MaxBytes = 9
    MaxMessages = 1
    MaxBufs = 3
    MaxSize = 2
INVARIANTS
    AssertHolds
CHECK_DEADLOCK FALSE

SPECIFICATION Spec
CONSTANTS
    DefaultSize = 2
    MaxBytes = 9
    MaxMessages = 2
    MaxBufs = 3
    MaxSize = 2
INVARIANTS
    TypeOK
    WrittenRight
    MarksAtTheEnd
    ReadInOrder
    SpinsAfterTwo
CHECK_DEADLOCK FALSE

SPECIFICATION Spec
CONSTANTS
    Calls = {c1, c2}
    NChunks = 18
    Cap = 2
    Slab <- MCSlab
    Bodies <- MCBodies
    Outs <- MCOuts
    Messages = {0, 3}
INVARIANTS
    TypeOK
    OwnMemory
    LeftBehind
    LogAfterForward
    BodyIsConsumed
PROPERTIES
    WrongFreeInSetBufs
CONSTRAINT BeforeWrong
SYMMETRY Symmetry
CHECK_DEADLOCK FALSE

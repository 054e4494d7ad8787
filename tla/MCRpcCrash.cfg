SPECIFICATION SpecAll
CONSTANTS
    Workers = 1
    Consumers = 1
    Directives = {7, 9}
    Default = 9
    Unset = Unset
    MaxCycles = 2
    MaxFaults = 1
    MaxProcesses = 4
    None = None
    MaxTasks = 2
    MaxTurns = 3
    Free = Free
    Nobody = Nobody
INVARIANTS
    TypeOK
    NeverRefused
    OneOwner
    FirstCycleInRange
    DestroyedUnused
    InOnePlace
PROPERTIES
    EachServed
    QuitEnds
CHECK_DEADLOCK FALSE

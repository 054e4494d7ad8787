SPECIFICATION Spec
CONSTANTS
    Workers = 1
    Consumers = 1
    Directives = {7, 8}
    Default = 9
    Unset = Unset
    MaxCycles = 2
    MaxFaults = 1
    MaxProcesses = 6
    None = None
INVARIANTS
    SlotInTable
CHECK_DEADLOCK FALSE

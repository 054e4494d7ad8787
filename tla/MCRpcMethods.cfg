SPECIFICATION Spec
CONSTANTS
    Protos <- MCProtos
    LowerOf <- MCLowerOf
    Forwarding <- MCForwarding
    ForwardPath <- MCForwardPath
    NameLimit = 6
    MaxDirectives = 2
    MaxReads = 2
INVARIANTS
    CaseOnly
    ForwardReaches
CHECK_DEADLOCK FALSE

SPECIFICATION Spec
CONSTANTS
    Workers = {w1, w2}
    Consumers = {c1}
    Requests = {t1, t2}
    Idles = idles
    None = none
SYMMETRY Symmetry
INVARIANTS
    RequestIsLocal
PROPERTIES
    ServiceKept
CHECK_DEADLOCK FALSE

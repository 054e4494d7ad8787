SPECIFICATION Spec
CONSTANTS
    Workers = {w1}
    Consumers = {c1}
    Requests = {t1, t2}
    Idles = idles
    None = none
PROPERTIES
    Answered
    Quiesces
CHECK_DEADLOCK FALSE

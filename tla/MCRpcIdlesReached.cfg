SPECIFICATION Spec
CONSTANTS
    Workers = {w1, w2}
    Consumers = {c1, c2}
    Idles = idles
    None = none
INVARIANT IdlesAreListed

SPECIFICATION Spec
CONSTANTS
    Workers = {w1}
    Consumers = {c1, c2}
    Requests = {t1, t2}
    Idles = idles
    None = none
SYMMETRY Symmetry
INVARIANTS
    TypeOK
    OnePlace
    ChannelIsLocal
    ChannelsReleased
    ForwardedAnswer
    RestsWhenDone
CHECK_DEADLOCK FALSE

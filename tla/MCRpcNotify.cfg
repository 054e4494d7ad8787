SPECIFICATION Spec
CONSTANTS
    Pushers = {w1, w2}
    Owner = own
    Nodes = {t1, t2, t3}
    QueueHead = head
    None = none
INVARIANTS
    TypeOK
    QueueWellFormed
    NoLostWakeup
PROPERTIES
    MailboxFifo
    Delivered

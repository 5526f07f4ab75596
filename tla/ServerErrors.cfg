SPECIFICATION ErrorsSpec

CONSTANTS
    Sockets = {s1, s2}
    NoSocket = NoSocket
    MaxSends = 5
    MaxNotes = 2
    PageLimit = 1

INVARIANTS
    TypeOK
    OneUpstream
    InOrder
    NothingUnseen
    PushesAgree

PROPERTIES
    QueueIsKept
    AlwaysReconnects
    QueueDrains
    ImplementsOutbox

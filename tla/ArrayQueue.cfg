SPECIFICATION Spec
CONSTANTS
    a = a
    b = b
    NUL = NUL
    Byte <- MCByte
    DEFAULT_QUEUE_CAPACITY = 3
INVARIANTS
    QueueOK
    LoopShowsFront
PROPERTIES
    LoopEnds
    ImplementsByteQueue

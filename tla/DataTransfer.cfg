SPECIFICATION Spec
CONSTANTS
    a = a
    b = b
    NUL = NUL
    NoByte = NoByte
    CONN_CLOSED = CONN_CLOSED
    Byte = {a, b, NUL, CONN_CLOSED}
    MAX_WINDOW_SIZE = 3
    MAX_DATA_PER_PACKET = 2
    DEFAULT_QUEUE_CAPACITY = 3
    Message <- MCDuplex
    Isn <- MCIsn
    BufferLen = 2
    PIPE_CAPACITY = 2
    MaxInFlight = 2
INVARIANTS
    Inv
    TypeOK
    WindowsAgree
    DeliveredInOrder
    WindowHoldsStream
    WindowHoldsOneSegment
PROPERTIES
    NoByteDroppedEarly
    ImplementsByteStream

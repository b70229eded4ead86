SPECIFICATION TeardownFairSpec
CONSTANTS
    a = a
    b = b
    NUL = NUL
    NoByte = NoByte
    CONN_CLOSED = CONN_CLOSED
    Byte = {a, b, NUL, CONN_CLOSED}
    MAX_WINDOW_SIZE = 2
    MAX_DATA_PER_PACKET = 1
    DEFAULT_QUEUE_CAPACITY = 1
    Message <- MCTwoBytes
    Isn <- MCIsn
    BufferLen = 2
    PIPE_CAPACITY = 2
    MaxInFlight = 1
CHECK_DEADLOCK FALSE
INVARIANTS
    TeardownTypeOK
    FinAckIsTrue
PROPERTIES
    ImplementsClosableStream
    CloseEnds

SPECIFICATION FairSpec
CONSTANTS
    a = a
    b = b
    NUL = NUL
    NoByte = NoByte
    CONN_CLOSED = CONN_CLOSED
    Byte = {a, b, NUL, CONN_CLOSED}
    MAX_WINDOW_SIZE = 3
    MAX_DATA_PER_PACKET = 2
    DEFAULT_QUEUE_CAPACITY = 2
    Message <- MCOneWay
    Isn <- MCIsn
    BufferLen = 3
    PIPE_CAPACITY = 3
    MaxInFlight = 2
PROPERTIES
    WrittenIsDelivered

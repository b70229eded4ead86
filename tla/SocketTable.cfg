SPECIFICATION FairSpec
CONSTANTS
    SocketRef = {s1, s2, s3, s4}
    Port = {80, 81}
    Dst = {d1}
    NoDst = NoDst
    Null = Null
    HASH_MAP_DEFAULT_SIZE = 3
    MaxRequests = 5
CHECK_DEADLOCK FALSE
INVARIANTS
    Inv
    TableConsistent
    NoLeak
    LoopFindsItsSocket
PROPERTIES
    TurnLeavesNobodyOut
    ImplementsSocketMap
    EverySocketIsServed

SPECIFICATION Spec
CONSTANTS
    PortWidth = 1
    NumWidth = 3
    LengthWidth = 2
    IpWidth = 1
    IpChecksumWidth = 1
    IntLimit = 214
    Home <- MCHome
    Sender <- MCSender
    SegmentToSend <- MCSegments
    PIPE_CAPACITY = 40
    None = None
    Dropped = Dropped
INVARIANTS
    PacketsStayWhole
    NothingGarbled
    OrdinarySegmentsPass

SPECIFICATION FairSpec
CONSTANTS
    NUL = NUL
    NoByte = NoByte
    Byte = {NUL}
    MAX_WINDOW_SIZE = 1
    MAX_DATA_PER_PACKET = 1
    DEFAULT_QUEUE_CAPACITY = 1
    server = server
    client = client
    other = other
    home = home
    Ip = {home}
    Port = {80, 81}
    NoAddr = NoAddr
    App = {server, client}
    Home <- MCHome
    Target <- MCTarget
    Backlog <- MCBacklog
    HASH_MAP_DEFAULT_SIZE = 3
    Granted = Granted
    Free = Free
    ConnectIsn = {1}
    AcceptIsn = {0}
    Restarts = TRUE
    ReuseClosed = FALSE
    MaxBinds <- MCBindOnce
    MaxInFlight = 2
CHECK_DEADLOCK FALSE
PROPERTIES
    CloseCompletes

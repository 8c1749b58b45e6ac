CONSTANTS
    g1 = g1
    g2 = g2
    api = api
    conf = conf
    SelfSender <- One
    Subscriber <- Loops
    ApiLoop <- api
    EventSize = 3
    Reserve = 2
    Peers = 1
    Clients = 0
    MaxBurst = 1
    CommandSize = 1
    MaxPackets = 2
    MaxSelf = 1
    SplitSender <- Two
    maxDataLen = 2
    MaxLength = 5
    MaxSplit = 2
    PacketNums = 2
    CliSender <- Two
    SharedBuffer = FALSE
    Header = 2
    BufSize = 6
    ChunkSize = 2
    MaxBody = 3
    MaxSends = 3
SPECIFICATION MCSpec
INVARIANTS CommandsWhole StreamInOrder
PROPERTIES EventsInOrder RunReturns
\* A node that was stopped, or never is, may rest.
CHECK_DEADLOCK FALSE

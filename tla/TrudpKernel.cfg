CONSTANTS
    Channel = {c1}
    Writer = {w1}
    Reader = reader
    maxQueueSize = 2
    chWriteSize = 1
    chEventSize = 4
    EventReserve = 3
    MaxCalls = 3
    MaxPackets = 3
    MaxNotrudp = 1
SPECIFICATION FairSpec
CHECK_DEADLOCK FALSE
INVARIANTS AnsweredOnce SentInOrder NoDeadlock
PROPERTY WriteReturns

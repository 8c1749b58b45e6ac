CONSTANTS
    Channel = {c1, c2}
    Writer = {w1}
    Reader = reader
    maxQueueSize = 1
    chWriteSize = 1
    chEventSize = 3
    EventReserve = 2
    MaxCalls = 1
    MaxPackets = 2
    MaxNotrudp = 0
SPECIFICATION Spec
INVARIANT NoDeadlock
CHECK_DEADLOCK FALSE

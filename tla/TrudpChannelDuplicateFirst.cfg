CONSTANTS
    a = a
    b = b
    Host <- MCHost
    packetIDlimit = 10
    MaxWrites <- OneWay2
    defaultQueueSize = 2
    QueueLimit = 0
    QueueGrow = 0
    QueueFloor = 9
    QueueShrink = 0
    maxResendAttempt = 1
    MaxResets = 1
    MaxPings = 0
    MayDuplicate = FALSE
    EventsMayFill = FALSE
SPECIFICATION Spec
INVARIANT InOrderExactlyOnce
CHECK_DEADLOCK FALSE

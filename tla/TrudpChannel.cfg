CONSTANTS
    a = a
    b = b
    Host <- MCHost
    packetIDlimit = 10
    MaxWrites <- OneWay3
    defaultQueueSize = 2
    QueueLimit = 0
    QueueGrow = 0
    QueueFloor = 9
    QueueShrink = 0
    maxResendAttempt = 1
    MaxResets = 1
    MaxPings = 1
    MayDuplicate = TRUE
    EventsMayFill = TRUE
SPECIFICATION Spec
INVARIANTS TypeOK DeliveredInOrder NothingLost NoLostWakeup
CHECK_DEADLOCK FALSE

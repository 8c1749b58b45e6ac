CONSTANTS
    a = a
    b = b
    Host <- MCHost
    packetIDlimit = 10
    MaxWrites <- TwoWay
    defaultQueueSize = 1
    QueueLimit = 2
    QueueGrow = 1
    QueueFloor = 1
    QueueShrink = 1
    maxResendAttempt = 1
    MaxResets = 2
    MaxPings = 0
    MayDuplicate = FALSE
    EventsMayFill = FALSE
SPECIFICATION FairSpec
PROPERTIES StreamSpec DeliveredOrReset WriteReleased
CHECK_DEADLOCK FALSE

CONSTANTS
    MaxChannel = 3
    MaxEvents = 2
SPECIFICATION FairSpec
CHECK_DEADLOCK FALSE
INVARIANTS TypeOK LossIsNoticed
PROPERTIES Reconnects CloseEnds

CONSTANTS
    a = a
    b = b
    na = na
    nb = nb
    nc = nc
    Host <- Two
    Route = {r1}
    Name = {na, nb}
    FirstName <- Names
    MaxChannel = 3
    MaxTold = 1
    MaxRestart = 1
    MayRename = FALSE
    Timely = TRUE
SPECIFICATION FairSpec
CHECK_DEADLOCK FALSE
INVARIANT NoStalePeer
PROPERTIES PeersConnect UsersTold

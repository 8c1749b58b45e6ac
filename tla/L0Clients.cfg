CONSTANTS
    a = a
    b = b
    m = m
    n = n
    o = o
    None = None
    Addr = {a, b}
    Trudp = {b}
    Name = {m, n, o}
    LoginName = {m}
    NewName = {n, o}
    MaxPackets <- Bound
SPECIFICATION FairSpec
CHECK_DEADLOCK FALSE
INVARIANTS TypeOK NamesMatch FoundByName OpenIsListed NoGhosts
PROPERTY ClosedIsServed

CONSTANTS
    w1 = w1
    w2 = w2
    w3 = w3
    k1 = k1
    k2 = k2
    Waiter <- Trio
    KeyOf <- TrioKeys
    Key = {k1, k2}
    Checking <- LastChecks
    MaxAnswers = 2
    MayClose = TRUE
SPECIFICATION FairSpec
INVARIANT UnsharedServes
PROPERTY Answered
CHECK_DEADLOCK FALSE

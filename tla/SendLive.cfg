SPECIFICATION LiveSpec
CONSTANTS
    w1 = w1
    w2 = w2
    s1 = s1
    s2 = s2
    Row = {u1}
    Server = {s1, s2}
    Lane = {w1, w2}
    Home <- MCHome
    Skew <- MCNoSkew
    Recipient = {a}
    MaxTries = 2
    SendingTimeout = 1
    RetryDelay = 1
    MaxRenewals = 1
    KeepHistory = FALSE
    MaxTime = 12
    MaxFaults = 1
INVARIANTS
    WaitIsBounded
PROPERTIES
    KeepsPromise
    EveryLetterResolves
CHECK_DEADLOCK FALSE

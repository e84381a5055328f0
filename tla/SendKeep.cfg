SPECIFICATION Spec
CONSTANTS
    w1 = w1
    w2 = w2
    s1 = s1
    s2 = s2
    Row = {u1}
    Server = {s1, s2}
    Lane = {w1, w2}
    Home <- MCHome
    Skew <- MCSkew
    Recipient = {a, b}
    MaxTries = 2
    SendingTimeout = 2
    RetryDelay = 1
    MaxRenewals = 1
    KeepHistory = TRUE
    MaxTime = 4
    MaxFaults = 1
SYMMETRY Symmetry
INVARIANTS
    TypeOK
    OneWorkerPerTry
    AttemptsWithinBudget
    ClaimLostOnlyToTakeover
    HookAtMostOnce
    SentMeansDelivered
PROPERTIES
    EndIsFinal
    
    KeepsPromise
CHECK_DEADLOCK FALSE

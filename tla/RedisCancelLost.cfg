SPECIFICATION Spec
CONSTANTS
    u1 = u1
    u2 = u2
    w1 = w1
    w2 = w2
    s1 = s1
    c1 = c1
    c2 = c2
    c3 = c3
    Recipient = {}
    MaxTries = 2
    SendingTimeout = 1
    Letter = {u1}
    Client = {c1, c2, c3}
    Worker = {w1, w2}
    Sender = {s1}
    Conn <- ConnDedicated
    Concat = {}
    Concurrency = 1
    KeepHistory <- MCKeepHistory
    RetryDelay = 1
    MaxTime = 1
    MaxFaults = 1
INVARIANT OpenIsScheduled
CHECK_DEADLOCK FALSE

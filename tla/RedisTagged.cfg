SPECIFICATION Spec
CONSTANTS
    w1 = w1
    w2 = w2
    s1 = s1
    c1 = c1
    c2 = c2
    c3 = c3
    u1 = u1
    u2 = u2
    a1 = a1
    Recipient = {}
    MaxTries = 2
    SendingTimeout = 1
    Letter = {u1, u2}
    Rank <- MCRank
    Address = {a1}
    To <- MCTo
    Mail = {m1}
    Client = {c1, c2, c3}
    Worker = {w1, w2}
    Sender = {s1}
    Conn <- MCConn
    KeepHistory <- MCKeepHistory
    RetryDelay = 0
    SendDelay = 1
    PointerLead = 0
    Limit = 1
    ScanLimit = 1
    RerunOps = {"append", "claim", "renew", "sent", "failed", "released", "cancel"}
    MaxTime = 3
    MaxFaults = 1
SYMMETRY Symmetry
INVARIANTS
    TypeOK
    KeysAgree
PROPERTIES
    PointerStays
    ScanMakesRoom
    ActsAtomically
CHECK_DEADLOCK FALSE

SPECIFICATION Spec
CONSTANTS
    m1 = m1
    m2 = m2
    m3 = m3
    a = a
    b = b
    c = c
    w1 = w1
    w2 = w2
    Mail <- MCMail
    Addr = {a, b}
    Addressee = a
    Cc <- MCTwinCc
    Form <- MCTwinForm
    Text <- MCText
    Worker = {w1, w2}
    MaxTries = 2
INVARIANTS
    FoldedMailArrives
CHECK_DEADLOCK FALSE

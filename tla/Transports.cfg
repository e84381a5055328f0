SPECIFICATION Spec
CONSTANTS
    w1 = w1
    w2 = w2
    i1 = i1
    i2 = i2
    c1 = c1
    Letter = {u1}
    Instance = {i1, i2, c1}
    Transports <- MCTransports
    Worker = {w1, w2}
    Conn <- MCConn
    Policies <- MCPolicies
    Broken <- MCBroken
    MaxOthers = 3
    MaxFaults = 2
SYMMETRY Symmetry
INVARIANTS
    TypeOK
    VetoHolds
    FailoverSweeps
    BalancedShare
PROPERTY UsesHealthy
CHECK_DEADLOCK FALSE

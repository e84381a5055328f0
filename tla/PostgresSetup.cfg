SPECIFICATION FairSpec
CONSTANTS
    q1 = q1
    q2 = q2
    q3 = q3
    p1 = p1
    p2 = p2
    s1 = s1
    s2 = s2
    s3 = s3
    Setup = {q1, q2, q3}
    Process = {p1, p2}
    Home <- MCHome
    Session = {s1, s2, s3}
    Client <- MCClient
    Pooled = {p1}
    Statements = 1
    MaxFaults = 1
INVARIANT SetupsExclude
PROPERTY SetupEnds
CHECK_DEADLOCK FALSE

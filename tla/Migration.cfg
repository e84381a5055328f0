SPECIFICATION Spec
CONSTANTS
    u1 = u1
    u2 = u2
    a1 = a1
    Recipient = {}
    MaxTries = 2
    SendingTimeout = 2
    Letter = {u1, u2}
    Address = {a1}
    To <- MCTo
    Lead = 1
    Delay = 3
    MaxTime = 6
    MaxCrashes = 2
INVARIANT Migrated
CHECK_DEADLOCK FALSE

\* The listen-key stream alone: is it rebuilt whenever its socket has ended?
SPECIFICATION RuntimeSpec
CONSTANTS
    Parts = {"stream"}
    k1 = k1
    k2 = k2
    t1 = t1
    t2 = t2
    o1 = o1
    o2 = o2
    Keys = {k1, k2}
    Callers = {t1, t2}
    Clients = {"public", "private"}
    Attempts = 2
    MaxConnections = 0
    MaxRequests = 0
    MaxFaults = 3
    Operations = {o1, o2}
    MaxEvents = 2
    MaxErrors = 1
    MaxClicks = 2
PROPERTIES
    StreamIsRebuilt
\* A client that is stopped or has given up stays so.
CHECK_DEADLOCK FALSE

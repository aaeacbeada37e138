\* A WebSocket client, the listen-key stream, the recovery monitor, the order entry.
SPECIFICATION RuntimeSpec
CONSTANTS
    Parts = {"socket", "stream", "recovery", "entry"}
    k1 = k1
    k2 = k2
    t1 = t1
    t2 = t2
    o1 = o1
    o2 = o2
    Keys = {k1, k2}
    Callers = {t1, t2}
    Clients = {"public", "private"}
    Attempts = 2
    MaxConnections = 4
    MaxRequests = 2
    MaxFaults = 4
    Operations = {o1, o2}
    MaxEvents = 2
    MaxErrors = 1
    MaxClicks = 2
INVARIANTS
    ServerFollowsStore
    
    OneStream
    StoppedIsClean
    RecoveryLeavesNoPlan
    UnfinishedIsReachable
    StartsAlone
PROPERTIES
    StopEnds
    LostKeyIsReplaced
    ShutdownEndsThread
    ShutdownReturns
    RecoveryIsAnswered
    OpensWhatWasPrepared
\* A client that is stopped or has given up stays so.
CHECK_DEADLOCK FALSE

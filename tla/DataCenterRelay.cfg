\* One transport thread, no failures: batches of two, four packets.
CONSTANTS
    r1 = r1 r2 = r2 p1 = p1 p2 = p2 p3 = p3 p4 = p4 p5 = p5
    None = None
    Receivers = {r1}
    Packets = {p1, p2, p3, p4}
    Poison = {}
    BatchSize = 2
    MaxDelay = 3
    SelectMax = 3
    MinOutage = 1
    Backward = FALSE
    EarlyCall = TRUE
    MaxSecond = 3
    MaxCrash = 0
    MaxFaults = 0
    MaxQueue = 1
SPECIFICATION FairSpec
INVARIANTS TypeOK NoPacketLost
PROPERTIES ImplementsRelay PushedOnce StoredIsDelivered
CHECK_DEADLOCK FALSE

CONSTANTS
    t1 = t1
    t2 = t2
    None = None
    Threads = {t1, t2}
    InitConnections = 1
    MaxActive = 2
    MaxOps = 2
    MaxDepth = 2
    MaxChecks = 1
SPECIFICATION FairSpec
INVARIANTS TypeOK NoConnectionLost ConnectionsBounded
PROPERTIES FreeIsTaken
CHECK_DEADLOCK FALSE

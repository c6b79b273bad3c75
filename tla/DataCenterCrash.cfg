\* One crash, one failing transaction or consumer error, one record that
\* does not deserialise; the call may be set late.
CONSTANTS
    r1 = r1 r2 = r2 p1 = p1 p2 = p2 p3 = p3 p4 = p4 p5 = p5
    None = None
    Receivers = {r1}
    Packets = {p1, p2, p3, p4}
    Poison = {p3}
    BatchSize = 3
    MaxDelay = 1
    SelectMax = 2
    MinOutage = 1
    Backward = FALSE
    EarlyCall = FALSE
    MaxSecond = 2
    MaxCrash = 1
    MaxFaults = 1
    MaxQueue = 1
SPECIFICATION Spec
INVARIANTS PersistedIsKept
PROPERTIES OnlyPushedIsDeleted
CHECK_DEADLOCK FALSE

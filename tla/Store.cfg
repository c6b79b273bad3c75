\* Two threads, two operations each, on three records.
CONSTANTS
    t1 = t1 t2 = t2 v1 = v1 v2 = v2
    None = None NoData = NoData Lost = Lost Exception = Exception
    Threads = {t1, t2}
    Keys = {1, 2, 3}
    Values = {v1, v2}
    Operations <- SomeOperations
    Contents <- SomeContents
    MaxOps = 2
SPECIFICATION FairSpec
INVARIANTS TypeOK
PROPERTIES LocksLeft AnswerIsTrue SelectIsOldest OperationEnds ImplementsRecords
CHECK_DEADLOCK FALSE

CONSTANTS
    r1 = r1
    r2 = r2
    t1 = t1
    t2 = t2
    Rows = {r1, r2}
    BatchSize = 1
    FaultLimit = 3
    Tasks = {t1, t2}
    MaxRequeue = 1
    ListLimit = 2
    ByHand = {"plain", "force"}
    RequeueLimit = 1
SPECIFICATION MCSpec
INVARIANTS RowsAndStreamAgree RequeueLedger CollectedIsUnderWay
PROPERTIES EnqueuedResolves XaddFailedIsRecovered
CHECK_DEADLOCK FALSE

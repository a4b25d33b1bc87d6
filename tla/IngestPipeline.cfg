CONSTANTS
    Rows = {r1}
    BatchSize = 1
    FaultLimit = 1
    Unreadable = {}
    Worker = worker
    Scheduler = scheduler
    Operators = {}
    MaxRetries = 1
    PublishLimit = 0
    PatchAttempts = 2
    ForwardLimit = 0
    Tasks = {t1}
    MaxRequeue = 1
    ListLimit = 1
    ByHand = {}
    RequeueLimit = 0
SPECIFICATION FairSpec
INVARIANTS TypeOK Lineage EndToEnd
PROPERTIES RowsTerminate
CHECK_DEADLOCK FALSE

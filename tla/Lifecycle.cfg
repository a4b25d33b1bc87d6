CONSTANTS
    Rows = {r1}
    BatchSize = 1
    FaultLimit = 0
    Unreadable = {}
    Worker = worker
    Scheduler = scheduler
    Operators = {}
    MaxRetries = 1
    PublishLimit = 0
    PatchAttempts = 2
    ForwardLimit = 0
    Tasks = {t1}
    MaxRequeue = 0
    ListLimit = 1
    ByHand = {}
    RequeueLimit = 1
SPECIFICATION Spec
PROPERTIES LifecycleHolds
CHECK_DEADLOCK FALSE

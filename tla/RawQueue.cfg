CONSTANTS
    Rows = {r1, r2}
    Unreadable = {r2}
    Worker = worker
    Scheduler = scheduler
    Operators = {}
    MaxRetries = 1
    BatchSize = 2
    PublishLimit = 2
    FaultLimit = 2
    MessageIds = {1, 2}
SPECIFICATION RawQueueFairSpec
INVARIANTS RawQueueTypeOK NoSilentDrop RetryLedger
PROPERTIES ImplementsHandoff EventuallyHandedOff
CHECK_DEADLOCK FALSE

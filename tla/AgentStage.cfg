CONSTANTS
    Rows = {r1}
    BatchSize = 2
    FaultLimit = 3
    PatchAttempts = 3
    ForwardLimit = 4
SPECIFICATION AgentStageFairSpec
INVARIANTS AckedIsReported StrandedIsOneBatchPerFault
PROPERTIES EventuallyRead
CHECK_DEADLOCK FALSE

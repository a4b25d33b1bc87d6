SPECIFICATION MCSpec
CONSTANTS
    e1 = e1
    e2 = e2
    e3 = e3
    Links <- TwoTargets
    Events = {e1, e2, e3}
    Types = {"article", "community"}
    Publishable = {"article"}
    Known = {"article", "community"}
    Days = {0, 1}
    Newborn <- OneDay
    Near = 0
    Far = 1
    Judges = {stage3, scheduler}
    Scheduler = scheduler
    Limit = 2
    None = None
    MaxAppends = 1
    MaxFaults = 1
INVARIANTS TypeOK SameIsEarned
PROPERTIES EveryLinkJudged
CHECK_DEADLOCK FALSE

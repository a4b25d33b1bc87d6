CONSTANTS
    s1 = s1
    s2 = s2
    a = a
    b = b
    Runners = {a}
    Sources = {s1}
    Profiles <- OneProfile
    Ready = {s1}
    RateLimited = {}
    ResumeIn = 0
    Outcomes <- FailuresOnly
    Modes = {"production", "validation"}
    MaxSources = 1
    MinInterval = 2
    Cooldown = 2
    QuarantineFor = 5
    Threshold = 2
    MaxLag = 1
    MaxAccidents = 0
SPECIFICATION Spec
PROPERTIES QuarantineLeftOut
CHECK_DEADLOCK FALSE

CONSTANTS
    s1 = s1
    s2 = s2
    a = a
    b = b
    Runners = {a, b}
    Sources = {s1, s2}
    Profiles <- TwoProfiles
    Ready = {s1}
    RateLimited = {s2}
    ResumeIn = 1
    Outcomes <- CallsEnd
    Modes = {"production", "validation"}
    MaxSources = 2
    MinInterval = 2
    Cooldown = 3
    QuarantineFor = 2
    Threshold = 2
    MaxLag = 1
    MaxAccidents = 1
SPECIFICATION FairSpec
INVARIANTS TypeOK
PROPERTIES Paced QuarantineKept EverySourceServed

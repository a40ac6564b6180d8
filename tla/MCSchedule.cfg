SPECIFICATION Spec
CONSTANTS
    j1 = j1
    j2 = j2
    j3 = j3
    jd = jd
    c1 = c1
    c2 = c2
    t1 = t1
    None = None
    Ids <- MCIds
    Legacy <- MCLegacy
    KindOf <- MCKindOf
    ArgOf <- MCArgOf
    SourceOf <- MCSourceOf
    Sources <- MCSources
    Tools <- MCTools
    MaxJobs = 2
    Horizon = 3
    MaxCrashes = 1
    MaxFaults = 1
INVARIANTS
    TypeOK
    NoJobLost
    OneShotOnce
    NoLostWakeup
PROPERTIES
    CollectedIsSubmitted

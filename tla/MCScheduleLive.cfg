SPECIFICATION Spec
CONSTANTS
    j1 = j1
    j2 = j2
    j3 = j3
    jd = jd
    c1 = c1
    c2 = c2
    t1 = t1
    None = None
    Ids <- MCLiveIds
    Legacy <- MCNoLegacy
    KindOf <- MCKindOf
    ArgOf <- MCArgOf
    SourceOf <- MCLiveSourceOf
    Sources <- MCLiveSources
    Tools <- MCTools
    MaxJobs = 2
    Horizon = 3
    MaxCrashes = 1
    MaxFaults = 1
PROPERTIES
    DueFires

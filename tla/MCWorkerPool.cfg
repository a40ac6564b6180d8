SPECIFICATION FairSpec
CONSTANTS
    h1 = h1
    a1 = a1
    stop1 = stop1
    b1 = b1
    s1 = s1
    s2 = s2
    w1 = w1
    w2 = w2
    None = None
    Jobs <- MCJobs
    Sessions <- MCSessions
    Workers <- MCWorkers
    SessionOf <- MCSessionOf
    ShardOf <- MCShardOf
    StopJobs <- MCStopJobs
    RootJobs <- MCRootJobs
    Hanging <- MCHanging
    Capacity = 2
INVARIANTS
    TypeOK
    SessionMutex
    RunningTurnIsStoppable
    StopReachesOnlyStartedTurns
    InflightEmptyAfterExit
PROPERTIES
    ImplementsSessionTurns
    StopEndsTurn
    HangIsContained

SPECIFICATION HostSpec
CONSTANTS
    h1 = h1
    a1 = a1
    p1 = p1
    p2 = p2
    s1 = s1
    s2 = s2
    w1 = w1
    None = None
    Jobs <- MCJobs
    Sessions <- MCSessions
    Workers <- MCWorkers
    SessionOf <- MCSessionOf
    ShardOf <- MCShardOf
    StopJobs <- MCStopJobs
    RootJobs <- MCRootJobs
    Hanging <- MCHanging
    Capacity = 1
INVARIANTS
    NoSendAfterClose

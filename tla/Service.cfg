CONSTANTS
    t1 = t1 t2 = t2
    Replica = {r1, r2}
    Invocation = {i1, i2}
    IdleThreshold = 4
    MinWrite = 2
    PutLatency = 1
    SweepPeriod = 2
    BootTime = 1
    Tab = {t1, t2}
    Sock = {k1, k2}
    Relay = {r1}
    Viewer = {v1}
    MaxRetries = 1
    MaxTransient = 1
    Image = {m1}
    MaxPolls = 2
    Countdown = 1
    RepoPages = 2
    NumFleet = 2
    Poison = {1}
    Budget = 2
    MaxFleetEvents = 1
    MaxThrows = 1
SPECIFICATION ServiceSpec
 
PROPERTIES IdleShutdownJustified VisitorServed  AutoOpens OthersConverge
CHECK_DEADLOCK FALSE

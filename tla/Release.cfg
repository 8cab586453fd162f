CONSTANTS
    s1 = s1 v1 = v1 p1 = p1 p2 = p2 w1 = w1
    Sweeper = {s1}
    Variant = {v1}
    MaxCommit = 2
    MaxDeliveries = 1
    MaxEdits = 1
    RecentLimit = 3
    Conn = {c1}
    User = {o, x}
    Owner = o
    Admin = {}
    SessionLength = 2
    MaxTime = 1
    Workspaces = {w1, w2}
    Worker = {p1, p2}
    Limit = 1
    MaxRequests = 4
    MaxFaults = 1
    Ws = {w1}
    Proc = {p1, p2}
    Keep = 1
    MaxFamily = 3
SPECIFICATION ReleaseSpec
INVARIANTS CapHolds
PROPERTIES  RequestAnswered CounterHeals 
CHECK_DEADLOCK FALSE

CONSTANTS
    p1 = p1 y1 = y1 y2 = y2
    FilterAdmin = {x}
    Cidr = {c1}
    Country = {n1}
    PresetAsns <- Networks
    Baseline <- Seeded
    MaxPriority = 1
    Conn <- Y
    User = {u1}
    Owner = u1
    Admin = {}
    SessionLength = 2
    MaxTime = 2
    Replica = {p1}
    Reader <- Y
    Load = {l1, l2, l3}
    Ttl = 2
    MaxCacheClock = 2
    MaxVersion = 2
    EditorProc <- Y
    Client = {b1, b2}
    Agent = {a1, a2}
    NoProc = NoProc
    File <- Y
    Tab = {t1}
    MaxEdits = 1
    MaxRequests = 2
    NoFile = NoFile
    Seg = {"w", "id", "a"}
    Id = "id"
    MaxPath = 2
    MaxEntries = 2
SPECIFICATION EditorsSpec
SYMMETRY Interchangeable
INVARIANTS AppliedIsEnforced OpenTabCounts  OneEditor FilesKeepTheirText 
CHECK_DEADLOCK FALSE

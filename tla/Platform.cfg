CONSTANTS
    w1 = w1 w2 = w2 y1 = y1 y2 = y2
    Ws = {w1, w2}
    Legacy = {w1}
    MaxLedgerClock = 4
    MaxEvents <- Lives
    MaxRollupAge = 2
    MaxUnprocessed = 1
    IamAction <- Y
    StaleAfter = 0
    MaxBeatAge = 1
    MaxOutages = 2
    Entry = {i1}
    CatalogAdmin <- Y
    Creation = {q1}
    MaxTag = 1
    MaxEntryVersion = 3
    EbsCall <- Y
    Desk = {w1}
    Req <- Y
    MaxSnapshots = 1
SPECIFICATION PlatformSpec
SYMMETRY Interchangeable
INVARIANTS ReportsExact  
           SnapshotsSurviveTimeouts
 
CHECK_DEADLOCK FALSE

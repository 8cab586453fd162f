CONSTANTS
    web = web
    web2 = web2
    reconciler = reconciler
    Worker = {web, web2, reconciler}
    Duty <- StorageDuty
    MaxPlacementAttempts = 1
    MaxRequests = 5
    MaxFaults = 0
SPECIFICATION FairSpec
PROPERTIES StorageDriftRepaired
CHECK_DEADLOCK FALSE

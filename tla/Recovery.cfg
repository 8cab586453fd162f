CONSTANTS
    web = web
    web2 = web2
    reconciler = reconciler
    Worker = {web, reconciler}
    Duty <- RecoveryDuty
    MaxPlacementAttempts = 1
    MaxRequests = 3
    MaxFaults = 2
SPECIFICATION FairSpec
INVARIANTS TypeOK
PROPERTIES PromiseKept TransientResolves DriftRepaired
CHECK_DEADLOCK FALSE

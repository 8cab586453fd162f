CONSTANTS
    web = web
    web2 = web2
    reconciler = reconciler
    Worker = {web, reconciler}
    Duty <- ErrorsDuty
    MaxPlacementAttempts = 1
    MaxRequests = 3
    MaxFaults = 2
SPECIFICATION FairSpec
PROPERTIES ErrorsRecover
CHECK_DEADLOCK FALSE

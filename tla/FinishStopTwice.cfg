CONSTANTS
    web = web
    web2 = web2
    reconciler = reconciler
    Worker = {web, reconciler}
    Duty <- TwoFinishersDuty
    MaxPlacementAttempts = 1
    MaxRequests = 2
    MaxFaults = 0
SPECIFICATION Spec
PROPERTIES ManualStopKeepsWork
CHECK_DEADLOCK FALSE

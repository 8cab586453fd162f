CONSTANTS
    web = web
    web2 = web2
    reconciler = reconciler
    Worker = {web, web2, reconciler}
    Duty <- LifecycleDuty
    MaxPlacementAttempts = 1
    MaxRequests = 5
    MaxFaults = 0
SPECIFICATION Spec
INVARIANTS BindingOK KillsOnlyReleased IdleStopJustified
PROPERTIES IdleStopKeepsWork
CHECK_DEADLOCK FALSE

CONSTANTS
    web = web
    web2 = web2
    reconciler = reconciler
    Worker = {web, web2, reconciler}
    Duty <- DeletionDuty
    MaxPlacementAttempts = 1
    MaxRequests = 4
    MaxFaults = 1
SPECIFICATION Spec
  
PROPERTIES PromiseKept TeardownKeepsWork
CHECK_DEADLOCK FALSE

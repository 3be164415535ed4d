SPECIFICATION Spec
CONSTANTS
    Clients <- MCClients
    Pushes <- MCPushes
    Foreign <- MCForeign
    Partitions = {1}
    None = None
    MaxRetry = 1
    MaxStored = 3
    MaxDisturbances = 2
INVARIANTS TypeOK NothingPassedOver ReadyClosedOnce NilMeansStored
PROPERTIES EveryNodeGetsPush
CHECK_DEADLOCK FALSE

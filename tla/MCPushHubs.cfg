SPECIFICATION Spec
CONSTANTS
    Conns = {c1, c2}
    Pushes = {p1, p2}
    Topics = {t1}
    HubCap = 1
    PoolSize = 2
    MaxTime = 1
    KindsOf <- OneAnyOneAlias
    NoHub = NoHub
    NoPush = NoPush
    NoTopic = NoTopic
INVARIANTS TypeOK DeliveredOnce HubOrder NothingLost
PROPERTIES TasksEnd
CHECK_DEADLOCK FALSE

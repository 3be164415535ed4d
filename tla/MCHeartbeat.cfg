SPECIFICATION FairSpec
CONSTANTS
    Conns = {c1, c2}
    HeartbeatInterval = 2
    CheckInterval = 1
    DeadInterval = 1
    MaxCheckTimeoutConn = 1
    OpCap = 2
    DeadConns = {c2}
    MaxTime = 4
    NoConn = NoConn
INVARIANTS
    TypeOK
    QueueMatchesMap
    PriorityNotLate
    EveryOpenConnWatched
    RemoveFollowsAdd
PROPERTIES
    ClosesOnlySilent
    ClosedConnsForgotten

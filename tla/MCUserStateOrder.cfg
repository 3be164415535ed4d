SPECIFICATION Spec
CONSTANTS
    Nodes = {n1, n2}
    MaxConns = 2
    Expire = 9
    MaxTime = 5
    RedisMayFail = FALSE
    NodesMayCrash = FALSE
    EmptyTopic = EmptyTopic
    NoExpiry = NoExpiry
    NoNode = NoNode
INVARIANTS
    OnlineNotReportedClosed

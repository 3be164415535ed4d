SPECIFICATION Spec
CONSTANTS
    Nodes = {n1, n2, n3}
    MaxConns = 2
    Expire = 2
    MaxTime = 4
    RedisMayFail = TRUE
    NodesMayCrash = TRUE
    EmptyTopic = EmptyTopic
    NoExpiry = NoExpiry
    NoNode = NoNode
INVARIANTS
    TypeOK
    NoGhostConnection
    OfflineKeyExpires

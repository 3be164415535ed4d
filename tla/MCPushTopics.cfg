SPECIFICATION Spec
CONSTANTS
    Conns = {c1, c2}
    Pushes = {p1}
    Topics = {t1, t2}
    HubCap = 1
    PoolSize = 1
    MaxTime = 2
    KindsOf <- OneAnyOneAlias
    NoHub = NoHub
    NoPush = NoPush
    NoTopic = NoTopic
INVARIANTS NothingLost
PROPERTIES StableConnGetsPush HubLoopsEnd
CHECK_DEADLOCK FALSE

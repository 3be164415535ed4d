SPECIFICATION FairSpec
CONSTANTS
    c1 = c1
    c2 = c2
    l1 = l1
    l2 = l2
    h1 = h1
    h2 = h2
    app = app
    app2 = app2
    alice = alice
    news = news
    sport = sport
    Conns = {c1}
    Loops = {l1}
    LoopOf <- OneLoop
    Handlers = {h1, h2}
    Timer = timer
    Businesses = {app}
    Aliases = {alice}
    Topics = {news, sport}
    Sessions <- OneUser
    MaxInflight = 3
    MaxFrames = 4
    NoThread = NoThread
    NoConn = NoConn
    NoSession = NoSession
INVARIANTS
    InflightExact
    CallbackOrder
PROPERTIES
    StateOnlyAdvances
    ClosedSocketsCleanedUp
    CloseReachesSocket

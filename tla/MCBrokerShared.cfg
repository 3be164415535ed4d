SPECIFICATION Spec
CONSTANTS
    c1 = c1
    c2 = c2
    l1 = l1
    l2 = l2
    h1 = h1
    h2 = h2
    app = app
    app2 = app2
    alice = alice
    news = news
    sport = sport
    Conns = {c1, c2}
    Loops = {l1, l2}
    LoopOf <- OwnLoops
    Handlers = {h1}
    Timer = timer
    Businesses = {app, app2}
    Aliases = {alice}
    Topics = {news, sport}
    Sessions <- TwoUsers
    MaxInflight = 2
    MaxFrames = 0
    NoThread = NoThread
    NoConn = NoConn
    NoSession = NoSession
INVARIANTS
    TypeOK
    MutualExclusion
    Progress
    RegistriesExact
    HubsExact
PROPERTIES
    ImplementsPresence

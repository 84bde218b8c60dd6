SPECIFICATION AllSpec
CONSTANTS
    Clients = {c1, c2}
    kMaxConns = 1
    MaxBackends = 2
    MaxSends = 1
    MaxSocks = 2
    highWaterMark = 2
    MaxRead = 2
    MaxUnits = 5
    p1 = p1
    k1 = k1
    k2 = k2
    k3 = k3
    Processes = {p1, p2}
    Calls <- ThreeCalls
    NumBackends = 2
    MaxFailures = 1
    MaxWords = 7
    g_batchSize = 2
    hasherMark = 3
    MayDrop = TRUE
    Conns = {c1, c2}
    idleSeconds = 2
    MaxTime = 5
    MayJump = TRUE
    Topics = {t1, t2}
    MaxPublished = 3
    Threads = {x1, x2}
    Members = {c1, c2}
    MaxLists = 3
INVARIANTS TunnelsArePrivate OutputBounded OwnResponseOnce SubscribersAreCurrent WalksAreStable
PROPERTIES PausedIsResumed CallsComplete SenderFinishes IdleIsShut
CHECK_DEADLOCK FALSE

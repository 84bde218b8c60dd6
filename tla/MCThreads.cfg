SPECIFICATION AllSpec
CONSTANTS
    Owner = owner
    Threads = {owner}
    Tasks = {t1, t2}
    Channels = {}
    Wakeup = wakeup
    EventfdMax = 2
    a = a  b = b  a1 = a1  b1 = b1
    NoTask = NoTask
    Child <- Children
    Workers = {w1, w2}
    Callers = {c1, c2}
    PoolTasks = {a, b, a1, b1}
    ThreadCounts = {0, 1, 2}
    QueueSizes = {0, 1}
    rollSize_ = 2
    flushInterval_ = 1
    checkEveryN_ = 2
    kRollPerSeconds_ = 3
    MaxLines = 5
    MaxTime = 3
    kLargeBuffer = 3
    MaxToWrite = 2
    MaxFd = 2
    MaxPeers = 3
INVARIANTS OwnerSeesLiveLoop NoSleeperBesideWork LogKeepsOrder SpareIsOwned
PROPERTIES LoopThreadStartsAndEnds PoolServes LinesReachFile PeersAreAnswered
CHECK_DEADLOCK FALSE

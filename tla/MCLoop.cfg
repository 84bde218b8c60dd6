SPECIFICATION AllSpec
CONSTANTS
    Threads = {th1, th2}
    Tasks = {a, b}
    Channels = {io}
    Wakeup = wakeup
    EventfdMax = 2
    TimerThreads = {th1}
    Addrs = {p, q}
    Delays = {0, 2}
    Intervals = {0, 1}
    MaxTime = 3
    MaxSeq = 2
    MaxFunctors = 2
    c1 = c1
    c2 = c2
    c3 = c3
    c4 = c4
    Chans = {c1, c2, c3, c4}
    FdOf <- FourOnThree
    NoChannel = NoChannel
INVARIANTS NoLostWakeup TimersConsistent CancelIsFinal RegistrationConsistent
PROPERTIES ImplementsTaskQueue LoopIsPrompt TimersFire ImplementsPoller

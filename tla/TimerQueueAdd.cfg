SPECIFICATION TimerSpec
CONSTANTS
    TimerThreads = {th1}
    Addrs = {p, q}
    Delays = {0, 2}
    Intervals = {0, 1}
    MaxTime = 3
    MaxSeq = 2
    MaxFunctors = 2
INVARIANTS AddTimerReturnsItsTimer
CHECK_DEADLOCK FALSE

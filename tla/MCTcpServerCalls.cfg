SPECIFICATION Spec
CONSTANTS
    io1 = io1
    Conns = {c1}
    Base = base
    Pools <- AnyPool
    LoopCalls = {"startRead", "stopRead"}
    Users = {u1}
    ThreadCalls = {"send", "shutdown"}
    MessageLen = 1
    MaxSends = 2
    MaxPending = 2
    HighWaterMark = 2
    ServerEnds = TRUE
INVARIANTS RawFunctorsSafe BytesInOrder ReadingIsWatched

SPECIFICATION Spec
CONSTANTS
    io1 = io1
    Conns = {c1}
    Base = base
    Pools <- OneThread
    LoopCalls = {}
    Users = {u1}
    ThreadCalls = {"forceClose"}
    MessageLen = 1
    MaxSends = 1
    MaxPending = 2
    HighWaterMark = 2
    ServerEnds = FALSE
INVARIANTS ErasedOnce

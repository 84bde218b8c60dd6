SPECIFICATION FairSpec
CONSTANTS
    io1 = io1
    Conns = {c1}
    Base = base
    Pools <- AnyPool
    LoopCalls = {"send", "shutdown", "forceClose", "forceCloseWithDelay"}
    Users = {u1}
    ThreadCalls = {"send"}
    MessageLen = 2
    MaxSends = 1
    MaxPending = 2
    HighWaterMark = 2
    ServerEnds = FALSE
INVARIANTS AssertionsHold LivesInOrder ShutdownAfterOutput
PROPERTIES CloseCompletes

SPECIFICATION FairSpec
CONSTANTS
    Fds = {1, 2, 3}
    kInitRetryDelayMs = 2
    kMaxRetryDelayMs = 3
    LoopCalls = {"connect", "disconnect", "stop", "destroy"}
    ThreadCalls = {"connect"}
    MaxPending = 2
    DestroyAnytime = FALSE
INVARIANTS ClientAssertionsHold OneSocketAnAttempt
PROPERTIES EndedIsFinal Reconnects

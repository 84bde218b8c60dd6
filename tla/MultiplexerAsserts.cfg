SPECIFICATION Spec
CONSTANTS
    Clients = {c1, c2}
    kMaxConns = 1
    MaxBackends = 2
    MaxSends = 1
    MaxSocks = 2
INVARIANT DemuxAssertsHold
CHECK_DEADLOCK FALSE

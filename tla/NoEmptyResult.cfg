CONSTANTS
    r1 = r1
    r2 = r2
    w1 = w1
    w2 = w2
    Requests = {r1}
    Gated = {r1}
    Waiters = {w1}
    WaitsOn <- W1OnR1
    MaxPendingRequests = 1
    MaxQueuedWrites = 1
    MaxWaits = 1
    MayAbandon = {}
    MayCancel = {}
    MayInterrupt = {r1}
    MayObserve = {}
SPECIFICATION Spec
INVARIANTS
    NoEmptyResult
CHECK_DEADLOCK FALSE

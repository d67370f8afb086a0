\* One request shared by two waiters, Dispatch, Abandon and CancelRequest.
CONSTANTS
    r1 = r1
    r2 = r2
    w1 = w1
    w2 = w2
    Requests = {r1}
    Gated = {r1}
    Waiters = {w1, w2}
    WaitsOn <- BothOnR1
    MaxPendingRequests = 1
    MaxQueuedWrites = 1
    MaxWaits = 2
    MayAbandon = {r1}
    MayCancel = {r1}
    MayInterrupt = {r1}
    MayObserve = {r1}
SYMMETRY Symmetry
SPECIFICATION Spec
INVARIANTS IInv NotStartedIsFinal ObservedOnce VerdictsAgree FailedDispatchReleases CancelFollowsRequest
PROPERTIES PhaseNeverRegresses PromiseKept
CHECK_DEADLOCK FALSE

\* Three gated requests share two pending entries and two slots; r2 may be
\* abandoned, the other two are used alike.
CONSTANTS
    r1 = r1
    r2 = r2
    w1 = w1
    w2 = w2
    Requests = {r1, r2, r3}
    Gated = {r1, r2, r3}
    Waiters = {}
    WaitsOn <- NobodyWaits
    MaxPendingRequests = 2
    MaxQueuedWrites = 1
    MaxWaits = 1
    MayAbandon = {r2}
    MayCancel = {}
    MayInterrupt = {}
    MayObserve = {}
SYMMETRY AlikeRequests
SPECIFICATION Spec
INVARIANTS SlotAccounting UndeliveredIsLinked
CHECK_DEADLOCK FALSE

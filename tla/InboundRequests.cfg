\* One callback slot, one queued request, one queued write, two workers.
SPECIFICATION FairSpec
CONSTANTS
    a = a  b = b  again = again
    c = c  d = d  stopC = stopC
    x = x  bad = bad  stray = stray  y = y  stopX = stopX
    Entries = {a, b, again, c, d, stopC, x, bad, stray, y, stopX}
    Ids = {1, 2}
    Frames <- MCFrames
    Scripts <- MCScripts
    Arrays <- MCArrays
    Kind <- MCKind
    Id <- MCId
    MayRegister = {a, b, c}
    MayFail = {a}
    Patient = {x}
    MaxHandlerConcurrency = 2
    MaxQueuedRequests = 1
    MaxPendingRequests = 1
    MaxQueuedWrites = 1
INVARIANTS InFlightTracked SlotsHeld CallbackNeverBlocks NoLateCallback
PROPERTIES CancelReachesHandler ContractHolds RequestsAnswered ConnectionEnds
CHECK_DEADLOCK FALSE

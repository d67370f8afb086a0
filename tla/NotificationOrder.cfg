\* Handlers that issue requests, gated and not, beside a client that does.
CONSTANTS
    Requests = {r1, r2, r3}
    Gated = {r1, r2}
    Reverse = {r2, r3}
    MayGiveUp = {r2}
    MayAbandon = {r1}
    HandlersLeave = TRUE
    MaxNotifications = 3
    MaxQueuedNotifications = 2
    MaxNotificationBytes = 3
SPECIFICATION Spec
INVARIANTS InWireOrder NextIsQueued BarrierHolds
PROPERTIES ResponseComesAfter
CHECK_DEADLOCK FALSE

\* Clients wait for gated responses, handlers for plain ones, until the connection ends.
CONSTANTS
    Requests = {r1, r2, r3, r4}
    Gated = {r1, r2}
    Reverse = {r3, r4}
    MayGiveUp = {}
    MayAbandon = {}
    HandlersLeave = FALSE
    MaxNotifications = 2
    MaxQueuedNotifications = 2
    MaxNotificationBytes = 2
SPECIFICATION Spec
PROPERTIES AnsweredReturns NotificationsComplete AllReturn
CHECK_DEADLOCK FALSE

\* A client waits for a gated response while a handler issues a request.
CONSTANTS
    Requests = {r1, r2}
    Gated = {r1}
    Reverse = {r2}
    MayGiveUp = {}
    MayAbandon = {}
    HandlersLeave = FALSE
    MaxNotifications = 2
    MaxQueuedNotifications = 2
    MaxNotificationBytes = 3
SPECIFICATION Spec
PROPERTIES ReverseRequestsReturn
CHECK_DEADLOCK FALSE

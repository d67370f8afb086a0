\* Close, two Shutdowns, one of them through a ClientProcess, and its Wait.
SPECIFICATION Spec
CONSTANTS
    child = child  kid = kid
    close = close  shutdown = shutdown
    clientShutdown = clientShutdown  clientWait = clientWait
    Child = child
    Descendants = {kid}
    Callers = {close, shutdown, clientShutdown, clientWait}
    Method <- MCMethod
    Coupled = {clientShutdown, clientWait}
INVARIANTS StoppedIsGone ShutdownIsFinal ForceNeedsTree
PROPERTIES StopsReturn ExitCleansUp
CHECK_DEADLOCK FALSE

\* The router with every combination of handlers, and the v2 agent.
CONSTANTS
    Calls = {c1, c2, c3, c4}
    Versions = {0, 1, 2, 3}
SPECIFICATION Spec
INVARIANTS OneHandshake ServedAfterSuccess
PROPERTIES VersionPinned RepeatComesFirst
CHECK_DEADLOCK FALSE

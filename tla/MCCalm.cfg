SPECIFICATION Safety
CONSTANTS
    Plain <- OneProxy
    Health = {"api"}
    Visitors <- None
    Hooks = {}
    Retries = 2
    Heartbeats = FALSE
    SlowHooks = FALSE
    LateAnswers = FALSE
    EarlyClose = FALSE
    MaxSessions = 2
    MaxDialFailures = 1
INVARIANTS
    TypeOK
    NoPhantom
    Agreement
CHECK_DEADLOCK FALSE

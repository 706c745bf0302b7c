SPECIFICATION Safety
CONSTANTS
    Plain <- OneProxy
    Health = {}
    Visitors <- None
    Hooks = {}
    Retries = 1
    Heartbeats = FALSE
    SlowHooks = FALSE
    LateAnswers = FALSE
    EarlyClose = FALSE
    MaxSessions = 3
    MaxDialFailures = 0
INVARIANT
    GivesUpLate
CHECK_DEADLOCK FALSE

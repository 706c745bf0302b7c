SPECIFICATION Safety
CONSTANTS
    Plain <- OneProxy
    Health = {}
    Visitors <- OneVisitor
    Hooks = {"onLogin"}
    Retries = 3
    Heartbeats = FALSE
    SlowHooks = FALSE
    LateAnswers = FALSE
    EarlyClose = FALSE
    MaxSessions = 2
    MaxDialFailures = 0
INVARIANT
    StopIsFinal
CHECK_DEADLOCK FALSE

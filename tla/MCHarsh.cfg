SPECIFICATION Spec
CONSTANTS
    Plain <- OneProxy
    Health = {}
    Visitors <- OneVisitor
    Hooks = {"onLogin", "onProxyRegister", "onProxyError", "onReconnect"}
    Retries = 0
    Heartbeats = TRUE
    SlowHooks = TRUE
    LateAnswers = TRUE
    EarlyClose = TRUE
    MaxSessions = 2
    MaxDialFailures = 0
INVARIANTS
    WaitersReachable
    ListenersTracked
    NothingHeld
PROPERTIES
    StopEnds
    StartupSettles
    LossDetected
CHECK_DEADLOCK FALSE

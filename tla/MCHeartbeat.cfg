SPECIFICATION Spec
CONSTANTS
    Caller <- Callers
    Methods = {"token", "source", "oidc"}
    Lives = {1, 4, Unset}
    Margin = 2
    FetchTime = 1
    Unset = Unset
    MaxSessions = 2
    MaxNow = 6
    Settings <- AllSettings
    DefaultInterval = 2
    DefaultTimeout = 4
    Poll = 1
    LoginTime = 2
    Delay = 1
INVARIANTS TypeOK TimeoutExact OwnSession TokensGood
CHECK_DEADLOCK FALSE

SPECIFICATION Safety
CONSTANTS
    Stacks <- EncryptedOnly
    Mux = TRUE
    Rate = 2
    Second = 3
    MaxSent = 3
    MaxWritten = 1
    MaxIdle = 2
INVARIANT ReadsPreserved
CHECK_DEADLOCK FALSE

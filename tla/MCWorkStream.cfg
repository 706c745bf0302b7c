SPECIFICATION Spec
CONSTANTS
    Stacks <- AllStacks
    Mux = FALSE
    Rate = 2
    Second = 3
    MaxSent = 3
    MaxWritten = 1
    MaxIdle = 1
INVARIANTS TypeOK ReadsInOrder BandwidthKept EndIsLast
PROPERTIES EndNoticed EndDelivered
CHECK_DEADLOCK FALSE

SPECIFICATION Spec
CONSTANT
    Conn = {c1, c2}
INVARIANTS TypeOK SocketsTracked NothingAfterStop
PROPERTY StopDrains
CHECK_DEADLOCK FALSE

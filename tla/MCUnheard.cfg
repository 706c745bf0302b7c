SPECIFICATION Safety
CONSTANT
    Conn = {c1}
INVARIANT ErrorsIgnored
CHECK_DEADLOCK FALSE

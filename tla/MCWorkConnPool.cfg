\* Limit 2 with a third slot to overrun it into, one proxy name that comes and goes.
SPECIFICATION Spec
CONSTANTS
    Worker = {w1, w2, w3}
    Name = {p}
    Max = 2
    MaxRequests = 3
INVARIANTS
    TypeOK
    GaugesExact
    OpenSocketsTracked
    RequestsAccountedFor
PROPERTIES
    SlotsSpec
    StopDrains
CHECK_DEADLOCK FALSE

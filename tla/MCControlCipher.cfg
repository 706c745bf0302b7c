SPECIFICATION Spec
CONSTANT Plans <- AllPlans
INVARIANTS InOrder AckedIsSent
CHECK_DEADLOCK FALSE

SPECIFICATION Spec
CONSTANT Plans <- AllPlans
INVARIANTS TypeOK NothingLost MessagesWhole NoFrameWaits
PROPERTY ReadsSettle
CHECK_DEADLOCK FALSE

SPECIFICATION Spec
CONSTANT MaxEvents = 2
INVARIANT FailedStreamIsNotBilled
CHECK_DEADLOCK FALSE

SPECIFICATION Spec
CONSTANT MaxEvents = 2
INVARIANT WithinContract
INVARIANT BilledOnlyWhenTaken
INVARIANT DeliveredIsNotTruncated
INVARIANT OneTerminal
INVARIANT BlameIsRight
PROPERTY EndsUnlessClientStalls
CHECK_DEADLOCK FALSE

SPECIFICATION Spec
CONSTANTS
    MaxTokens = 2
    MaxEvents = 3
INVARIANT NoNegativeCounters
INVARIANT BilledIsCounted
INVARIANT ShownIsBilled
CHECK_DEADLOCK FALSE

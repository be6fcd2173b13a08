SPECIFICATION BodySpec
CONSTANT MaxChunks = 3
INVARIANT ReadsWhatWasSent
INVARIANT CleanEndIsComplete
INVARIANT FailureIsTold
PROPERTY NothingLeaks
CHECK_DEADLOCK FALSE

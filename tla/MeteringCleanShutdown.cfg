SPECIFICATION Spec
CONSTANTS
    Reports = {r1, r2}
    Workers = {w1, w2}
    QueueSize = 2
    MaxRetries = 1
    Statuses = {429}
    NoReport = NoReport
INVARIANT CleanShutdownSettlesAll
CHECK_DEADLOCK FALSE

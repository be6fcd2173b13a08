SPECIFICATION Spec
CONSTANTS
    MaxRoutes = 2
    MaxFailoverAttempts = 2
    Status = {200, 400, 429, 500, 504}
INVARIANT SentIsReported
CHECK_DEADLOCK FALSE

SPECIFICATION Spec
CONSTANTS
    MaxRoutes = 4
    MaxFailoverAttempts = 3
    Status = {200, 400, 429, 500, 504}
INVARIANT AnsweredOnce
INVARIANT ReportMatchesAnswer
INVARIANT TimeoutIsRealTimeout
PROPERTY InOrderAndBeforeTheAnswer
PROPERTY GivesUpOnlyWhenExhausted
PROPERTY EndsUnlessRelayStalls
CHECK_DEADLOCK FALSE

SPECIFICATION GatewaySpec
CONSTANTS
    Reports = {r1, r2}
    Workers = {w1, w2}
    QueueSize = 1
    MaxRetries = 1
    Statuses = {429}
    NoReport = NoReport
INVARIANT OnePlace
INVARIANT RetryBudget
INVARIANT CountedOkIsRecorded
INVARIANT GracefulExitLosesNothing
PROPERTY GivesUpOnlyWhenSpent
PROPERTY AcceptedBeforeShutdownIsSettled
PROPERTY ExitsAfterSignal
PROPERTY ImplementsDelivery
CHECK_DEADLOCK FALSE

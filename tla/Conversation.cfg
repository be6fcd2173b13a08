SPECIFICATION Spec
CONSTANTS
    DefaultMaxTokens = 8192
    MaxTurns = 2
    MaxNesting = 2
INVARIANT UpstreamAccepts
INVARIANT NothingIsLostOnTheWay
INVARIANT CallsAreAnnounced
INVARIANT ParametersArrive
PROPERTY HistoryOnlyGrows
CHECK_DEADLOCK FALSE

SPECIFICATION Spec
CONSTANTS
    Table <- MCTable
    NoModels = "empty"
    Providers <- MCProviders
    Request = {r1, r2}
    None = None
    MaxChanges = 2
INVARIANT EtagNamesSnapshot
INVARIANT AttemptsAreThePlan
INVARIANT SharesFollowWeights
PROPERTY Converges
CHECK_DEADLOCK FALSE

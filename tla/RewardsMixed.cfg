\* Workers and ranks that do not match, agents that score themselves, a reward
\* model that fails.  A round may never end here: deadlock is not checked.
SPECIFICATION FairSpec
CONSTANTS
    NumWorkers = 3
    MicroBatch = 2
    BatchLengths = {3, 6}
    Rounds = 2
    AgentsScore = TRUE
    MayFail = TRUE
CHECK_DEADLOCK FALSE
INVARIANTS
    OnePlaceEach
    ScoresOwn
    NothingLeft
PROPERTY EndsUnlessShort

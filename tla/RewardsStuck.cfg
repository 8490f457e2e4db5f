\* Fewer reward workers than ranks of the reward model.
SPECIFICATION FairSpec
CONSTANTS
    NumWorkers = 2
    MicroBatch = 4
    BatchLengths = {4}
    Rounds = 1
    AgentsScore = FALSE
    MayFail = FALSE
CHECK_DEADLOCK FALSE
PROPERTY EveryRoundEnds

\* Five steps over two epochs of three batches, the actor warmed up from step two
\* on, up to three crashes, and a dataloader that may raise.
SPECIFICATION FairSpec
CONSTANTS
    TotalTrainingSteps = 5
    LenDataloader = 3
    TotalEpochs = 2
    SaveFreq = 2
    TestFreq = 3
    CriticWarmup = 2
    ValBeforeTrain = TRUE
    LoaderRaises = TRUE
    MaxCrashes = 3
INVARIANTS
    OneStepBehind
    ValidationLag
    TrainsInOrder
PROPERTIES
    ImplementsRestartableRun
    Terminates

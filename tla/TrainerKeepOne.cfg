\* Retention of one checkpoint: the tracked one is removed first.
SPECIFICATION Spec
CONSTANTS
    Ranks = {r1, r2}
    UseCritic = FALSE
    Keep <- KeepOne
    SaveFreq = 1
    EsiExpires = FALSE
    CriticWarmup = 0
    LenDataloader = 2
    TotalEpochs = 2
    TotalTrainingSteps = 4
    ResumeModes = {"auto"}
    MaxCrashes = 1
INVARIANT
    TrackedIsSnapshot

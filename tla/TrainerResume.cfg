\* Retention of one checkpoint and automatic resumes: they may fail, as the tracked
\* checkpoint is removed first, but never continue from the wrong place.
SPECIFICATION Spec
CONSTANTS
    Ranks = {r1, r2}
    UseCritic = TRUE
    Keep <- KeepOne
    SaveFreq = 1
    EsiExpires = FALSE
    CriticWarmup = 2
    LenDataloader = 2
    TotalEpochs = 2
    TotalTrainingSteps = 4
    ResumeModes = {"auto"}
    MaxCrashes = 3
INVARIANT
    LockStep

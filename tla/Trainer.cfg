\* Uneven retention, a critic with a warm-up of the actor, an elastic instance, the last
\* save not at a multiple of SaveFreq, two launches lost.  No symmetry: it checks liveness.
SPECIFICATION FairSpec
CONSTANTS
    Ranks = {r1, r2}
    UseCritic = TRUE
    Keep <- KeepUneven
    SaveFreq = 2
    EsiExpires = TRUE
    CriticWarmup = 2
    LenDataloader = 3
    TotalEpochs = 2
    TotalTrainingSteps = 5
    ResumeModes = {"auto"}
    MaxCrashes = 2
INVARIANTS
    TrackedIsSnapshot
    SnapshotInv
    FailsOnlyOnTornTracker
    KeepsAtMostPerLaunch
    OverrunBounded
PROPERTIES
    ImplementsRestartableRun
    Terminates

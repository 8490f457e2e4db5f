\* Tools, up to three in parallel, a simulated user, both turn limits, tools whose
\* response the loop rejects.
SPECIFICATION FairSpec
CONSTANTS
    PromptLength = 2
    ResponseLength = 9
    MaxAssistantTurns = 3
    MaxUserTurns = 3
    MaxParallelCalls = 3
    UseInteraction = TRUE
    LogProbs = TRUE
    GenLengths = {1, 2, 3}
    ObservedLengths = {1, 3}
    CallCounts = {0, 1, 3, 5}
    MayRaise = TRUE
INVARIANTS
    OutputAligned
    LogProbsAligned
    TurnsAreSegments
    ToolsReleased
    TurnsLimited
PROPERTY Ends

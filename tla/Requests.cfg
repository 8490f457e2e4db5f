\* Three requests of which two suffice, two turns each, one user message, up to two
\* calls at a time, one or none, a bucket of one token and a pool of two threads.
SPECIFICATION FairSpec
CONSTANTS
    N = 3
    Target = 2
    MaxAssistantTurns = 2
    MaxUserTurns = 1
    MaxParallel <- MCParallel
    Rate = 1
    Threads = 2
    Calls <- MCCalls
INVARIANTS
    BatchComplete
    SessionsReleased
    RateLimited
PROPERTY
    BatchEnds

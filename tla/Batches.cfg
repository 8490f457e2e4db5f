SPECIFICATION Spec
CONSTANTS
    NumItems = 6
    MaxTokens = 6
    MaxParts = 5
    Lengths <- MCLengths
INVARIANTS
    PartitionExact
    SpreadBounded
CHECK_DEADLOCK FALSE

\* Five layers, four of them offloaded; up to two saved tensors in a layer.
SPECIFICATION FairSpec
CONSTANTS
    Layers = 5
    MaxSaved = 2
INVARIANTS
    NeverRaises
    AtMostTwoGroups
    StreamsOrdered
PROPERTY
    MicroBatchesEnd

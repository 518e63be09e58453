\* A client that reads or hangs up, a channel smaller than the narration.
CONSTANTS
    Capacity = 2
    PipeCapacity = 2
    MaxLines = 4
SPECIFICATION AttentiveSpec
INVARIANTS
    OneTrailerLast
    TrailerTruthful
    SeenBeforeTrailer
PROPERTIES
    RunEnds
CHECK_DEADLOCK FALSE

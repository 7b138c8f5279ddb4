SPECIFICATION Spec
CONSTANTS
    Post <- MCPost
    Reaction <- MCReaction
    Now <- MCNow
    BatchSize = 6
    RequestLimit = 6
    MaxRounds = 2
    MaxLost = 1
    Faults = {"write", "unprocessed", "query"}
INVARIANTS
    TypeOK
    PostStatsExact
    ReactionStatsExact
    RowsStored
    RequestAccepted
CHECK_DEADLOCK FALSE

SPECIFICATION Spec
CONSTANTS
    w1 = w1
    w2 = w2
    Uploads = 2
    Worker = {w1, w2}
    Time <- MCTime
    Posts <- MCPosts
    Reactions <- MCReactions
    Complex <- MCComplex
    Placed <- MCPlaced
    PageSize = 2
    Budget <- MCBudget
    MaxTrouble = 1
    Faults = {"job", "insert", "remove", "database", "enqueue"}
INVARIANTS
    TypeOK
    PostsKept
    MetadataExact
    DeletedLeavesNothing
    DeletionInFlight
CHECK_DEADLOCK FALSE
SYMMETRY WorkerSymmetry

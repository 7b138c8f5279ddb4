SPECIFICATION FairSpec
CONSTANTS
    user = user
    a1 = a1
    a2 = a2
    p1 = p1
    p2 = p2
    r1 = r1
    r2 = r2
    Account = {user}
    Archive = {a1, a2}
    Worker = {w1, w2}
    Post = {p1, p2}
    Reaction = {r1, r2}
    Owner <- MCOwner
    Content <- MCPosts
    FlowOf <- MCMixedFlow
    TypeOf <- MCMixedType
    MaxAcks <- MCOnce
    MaxAdmin = 0
    AdminOps = {}
    Faults = {"presign", "update", "job", "plain", "query", "dynamo"}
INVARIANTS
    TypeOK
    OneChain
    ErrorIffInvalid
    FailedDownloadIsInvalid
PROPERTIES
    ImplementsLifecycle
CHECK_DEADLOCK FALSE

SPECIFICATION Spec
CONSTANTS
    user = user
    a1 = a1
    a2 = a2
    p1 = p1
    p2 = p2
    r1 = r1
    r2 = r2
    Account = {user}
    Archive = {a1, a2}
    Worker = {w1}
    Post = {p1, p2}
    Reaction = {r1, r2}
    Owner <- MCOwner
    Content <- MCShared
    FlowOf <- MCMixedFlow
    TypeOf <- MCFacebook
    MaxAcks <- MCOnce
    MaxAdmin = 0
    AdminOps = {}
    Faults = {"presign", "update", "job", "http", "plain", "enqueue", "errorhandler", "crash"}
INVARIANTS
    StatsAvailable
    NotifiedWhenDone
CHECK_DEADLOCK FALSE

SPECIFICATION FairSpec
CONSTANTS
    user = user
    a1 = a1
    a2 = a2
    p1 = p1
    p2 = p2
    r1 = r1
    r2 = r2
    Account = {user}
    Archive = {a1}
    Worker = {w1, w2}
    Post = {p1, p2}
    Reaction = {r1, r2}
    Owner <- MCOwner
    Content <- MCNothing
    FlowOf <- MCUrlFlow
    TypeOf <- MCFacebook
    MaxAcks <- MCTwice
    MaxAdmin = 1
    AdminOps = {"submit", "force", "hash"}
    Faults = {"job"}
INVARIANTS
    WorkInFlight
    ObjectBeforeWork
    HashPending
PROPERTIES
    ArchivesFinish
CHECK_DEADLOCK FALSE

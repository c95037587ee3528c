SPECIFICATION FairSpec
CONSTANTS
    w1 = w1  w2 = w2  r1 = r1  r2 = r2  a1 = a1  a2 = a2
    t1 = t1  t2 = t2  t3 = t3  o1 = o1  o2 = o2
    Receipts = {r1}
    Workers = {w1, w2}
    Admins = {a1}
    Owners = {o1}
    WorkerId <- SameIds
    Tokens = {t1, t2}
    NoReceipt = NoReceipt
    NoOwner = NoOwner
    NoToken = NoToken
    LeaseTicks = 1
    Delays = {0, 1}
    MaxAttempts = 2
    RedriveCap = 2
    AttemptCap = 3
    MaxFaults = 2
    MaxRedrives = 1
INVARIANTS
    TypeOK
    LeaseShape
    TokenInv
PROPERTIES
    EventuallyResolved
    OrphanReclaimed
    LeaseLost
    ImplementsQueue
CHECK_DEADLOCK FALSE

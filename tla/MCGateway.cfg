SPECIFICATION GatewaySpec
CONSTANTS
    u1 = u1
    u2 = u2
    Users = {u1, u2}
    None = None
    Conns = {1, 2, 3}
    Fds = {5, 6}
    UserOf <- TwoUsers
    ClientSlots = 2
    Bounds <- SomeBounds
INVARIANTS
    GateTypeOK
    FdStaysWithLogin
    GoodClientListed
    WalkReachesAll
    NothingLostOrTwice
PROPERTIES
    WalkEnds
CHECK_DEADLOCK FALSE

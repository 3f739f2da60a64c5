SPECIFICATION Spec
CONSTANTS
    NoConn = NoConn
    Admin = Admin
    Closer = Closer
    Cleaner = Cleaner
    InitLifetime = 0
    MaxAge = 0
    Durations = {}
    MaxOpens = {1}
    MaxIdles = {0, 1}
    Clients = {p1, p2}
    Conns = {c1, c2, c3}
    InitMaxOpen = 2
    InitMaxIdle = 0
    Closes = TRUE
    DriverFails = TRUE
    DriverBad = TRUE
SYMMETRY Symmetry
INVARIANTS  OpenCount WaitersOnlyAtLimit ClosedLeavesNothing

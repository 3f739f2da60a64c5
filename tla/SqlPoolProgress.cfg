SPECIFICATION FairSpec
CONSTANTS
    NoConn = NoConn
    Admin = Admin
    Closer = Closer
    Cleaner = Cleaner
    InitLifetime = 0
    MaxAge = 2
    Durations = {1}
    MaxOpens = {}
    MaxIdles = {}
    Clients = {p1, p2}
    Conns = {c1}
    InitMaxOpen = 1
    InitMaxIdle = 1
    Closes = FALSE
    DriverFails = TRUE
    DriverBad = FALSE
PROPERTIES WaiterServed ExpiredLeaves

SPECIFICATION Spec
CONSTANTS
    c1 = c1
    c2 = c2
    ana = ana
    bia = bia
    eve = eve
    Clients <- OneClient
    Users <- AccountAndStranger
    Accounts <- OneAccount
    NoUser = NoUser
    NoClient = NoClient
    MaxAsked = 4
    MaxPending = 3
    MaxRuns = 1
    Kills = TRUE
CHECK_DEADLOCK FALSE
INVARIANTS
    TypeOK
    OrderInv

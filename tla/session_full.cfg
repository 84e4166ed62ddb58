SPECIFICATION Spec
CONSTANTS
    c1 = c1
    c2 = c2
    ana = ana
    bia = bia
    eve = eve
    Clients <- TwoClients
    Users <- OneAccount
    Accounts <- OneAccount
    NoUser = NoUser
    NoClient = NoClient
    MaxAsked = 2
    MaxPending = 2
    MaxRuns = 1
    Kills = TRUE
SYMMETRY Symmetry
CHECK_DEADLOCK FALSE
INVARIANTS
    AnswersInOrder
    OrderInv
PROPERTIES
    ImplementsService

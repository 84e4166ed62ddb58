SPECIFICATION Spec
CONSTANTS
    c1 = c1
    c2 = c2
    ana = ana
    bia = bia
    eve = eve
    Clients <- TwoClients
    Users <- TwoAccounts
    Accounts <- TwoAccounts
    NoUser = NoUser
    NoClient = NoClient
    MaxAsked = 3
    MaxPending = 1
    MaxRuns = 2
    Kills = FALSE
SYMMETRY Symmetry
CHECK_DEADLOCK FALSE
INVARIANTS
    SessionAgreement
    ServerServes

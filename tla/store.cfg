SPECIFICATION Spec
CONSTANTS
    None = None
    Empty = Empty
    Lost = Lost
    ann = ann
    bob = bob
    cid = cid
    old = old
    new = new
    Users <- ThreeUsers
    Passwords <- TwoPasswords
    MaxScore = 3
SYMMETRY Symmetry
INVARIANTS
    TypeOK
    SavedIsCurrent
    AtMostOneFileLost
PROPERTY ImplementsLedger
CHECK_DEADLOCK FALSE

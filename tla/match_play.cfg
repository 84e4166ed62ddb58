SPECIFICATION Spec
CONSTANTS
    ana = ana
    bia = bia
    None = None
    Peers <- Two
    Typed <- Cells
    MaxMatches = 2
    Kills = TRUE
SYMMETRY Symmetry
CHECK_DEADLOCK FALSE
INVARIANTS
    TypeOK
    BoardsAgree
    ResultsAgree
    PointsAfterStart
    CheckWinIsRight
PROPERTIES
    PlaysByTheRules

SPECIFICATION FairSpec
CONSTANTS
    ana = ana
    bia = bia
    None = None
    Peers <- Two
    Typed <- Few
    MaxMatches = 2
    Kills = TRUE
PROPERTIES MatchLetsGo TurnComes
CHECK_DEADLOCK FALSE

SPECIFICATION LiveSpec
CONSTANTS
    ann = ann
    bob = bob
    cid = cid
    Players <- TwoPlayers
    Stranger = Stranger
    NoOne = NoOne
    MaxTyped = 3
    Kills <- AnyTime
PROPERTIES AcceptorAnswered InviterConnected
CHECK_DEADLOCK FALSE

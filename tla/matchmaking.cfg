SPECIFICATION Spec
CONSTANTS
    ann = ann
    bob = bob
    cid = cid
    Players <- ThreePlayers
    Stranger = Stranger
    NoOne = NoOne
    MaxTyped = 4
    Kills <- Depending
SYMMETRY Symmetry
INVARIANTS TypeOK MatchAgreement TableKnowsMatches OrderlyServed
PROPERTIES ImplementsPairing
CHECK_DEADLOCK FALSE

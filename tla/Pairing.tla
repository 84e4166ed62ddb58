------------------------------- MODULE Pairing -------------------------------
(***************************************************************************)
(* What invitations promise: two players play together only if, at one     *)
(* moment, one waits for the other and the other has consented; both are   *)
(* then partners in the same step, each of the other, and neither was in   *)
(* another match.  The handshake of BEGINREQ, BEGINRESP and their          *)
(* acknowledgements (Matchmaking.tla) implements it.                       *)
(***************************************************************************)
CONSTANTS Players, Names, NoOne

VARIABLES
    asks,      \* whom a player waits for after asking
    consents,  \* whose invitation a player has accepted
    partner    \* with whom a player plays

vars == <<asks, consents, partner>>

Init ==
    /\ asks = [p \in Players |-> NoOne]
    /\ consents = [p \in Players |-> NoOne]
    /\ partner = [p \in Players |-> NoOne]

Free(p) == asks[p] = NoOne /\ consents[p] = NoOne /\ partner[p] = NoOne

Ask(p, q) ==
    /\ Free(p)
    /\ asks' = [asks EXCEPT ![p] = q]
    /\ UNCHANGED <<consents, partner>>

Consent(q, p) ==
    /\ Free(q)
    /\ consents' = [consents EXCEPT ![q] = p]
    /\ UNCHANGED <<asks, partner>>

\* A question is refused, or cannot be delivered.
NotAsked(p) ==
    /\ asks[p] # NoOne
    /\ asks' = [asks EXCEPT ![p] = NoOne]
    /\ UNCHANGED <<consents, partner>>

\* A consent is never lost: it ends here, and nowhere else.
Pair(p, q) ==
    /\ asks[p] = q /\ consents[q] = p
    /\ asks' = [asks EXCEPT ![p] = NoOne]
    /\ consents' = [consents EXCEPT ![q] = NoOne]
    /\ partner' = [partner EXCEPT ![p] = q, ![q] = p]

Part(p) ==
    /\ partner[p] # NoOne
    /\ partner' = [partner EXCEPT ![p] = NoOne]
    /\ UNCHANGED <<asks, consents>>

Next ==
    \E p \in Players :
        \/ NotAsked(p) \/ Part(p)
        \/ \E q \in Names : Ask(p, q)
        \/ \E q \in Players : Consent(p, q) \/ Pair(p, q)

Spec == Init /\ [][Next]_vars
=============================================================================

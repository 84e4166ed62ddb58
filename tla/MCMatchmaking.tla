---------------------------- MODULE MCMatchmaking ----------------------------
(***************************************************************************)
(* Matchmaking with a few players for TLC.                                 *)
(***************************************************************************)
EXTENDS Matchmaking, TLC

CONSTANTS ann, bob, cid

TwoPlayers == {ann, bob}
ThreePlayers == {ann, bob, cid}

Symmetry == Permutations(Players)

AnyTime == Statuses \ {"gone"}
\* A client is killed while it depends on others.
Depending == {"waiting", "on_match"}
=============================================================================

---------------------------- MODULE MCPlayerStore ----------------------------
(* Instances of PlayerStore for TLC.                                        *)
EXTENDS PlayerStore, TLC

CONSTANTS ann, bob, cid, old, new

ThreeUsers == {ann, bob, cid}
TwoPasswords == {old, new}

\* Users, and passwords, are interchangeable.
Symmetry == Permutations(ThreeUsers) \cup Permutations(TwoPasswords)
=============================================================================

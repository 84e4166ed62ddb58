------------------------------- MODULE MCMatch -------------------------------
(***************************************************************************)
(* Instances of Match for TLC.                                             *)
(***************************************************************************)
EXTENDS Match, TLC

CONSTANTS ana, bia

Two == {ana, bia}
Symmetry == Permutations(Two)

\* A row and two positions more: games that a player wins, on fewer boards.
Few == {<<0, 0>>, <<0, 1>>, <<0, 2>>, <<1, 1>>, <<2, 0>>}
=============================================================================

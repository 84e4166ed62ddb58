----------------------------- MODULE MCSession -----------------------------
(***************************************************************************)
(* Session on small instances: the runs of session_*.cfg and claim_*.cfg.  *)
(***************************************************************************)
EXTENDS SessionRefinement

CONSTANTS c1, c2, ana, bia, eve

TwoClients == {c1, c2}
OneClient == {c1}

\* ana and bia have accounts, eve has none.
OneAccount == {ana}
TwoAccounts == {ana, bia}
AccountAndStranger == {ana, eve}

\* The client slots are interchangeable in the safety runs.
Symmetry == Permutations(Clients)
=============================================================================

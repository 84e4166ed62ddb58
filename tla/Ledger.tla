-------------------------------- MODULE Ledger --------------------------------
(***************************************************************************)
(* What the player store keeps over the stops and starts of the server.    *)
(*                                                                         *)
(* An award is kept at once, and with it the password of the day.  A stop  *)
(* loses at most one account, the one that is being saved; every other one *)
(* keeps its score and goes back to the password that was kept last.       *)
(***************************************************************************)
EXTENDS Integers

CONSTANTS Users, Passwords, None, Lost

\* Of each user: None, Lost, or its password, the password kept, its score.
VARIABLE account

Account(password, kept, score) ==
    [password |-> password, kept |-> kept, score |-> score]
Exists(u) == account[u] \notin {None, Lost}

Init == account = [u \in Users |-> None]

Create(u, password) ==
    /\ account[u] = None
    /\ account' = [account EXCEPT ![u] = Account(password, password, 0)]

Award(u, points) ==
    /\ Exists(u)
    /\ account' = [account EXCEPT ![u] =
          Account(@.password, @.password, @.score + points)]

ChangePassword(u, password) ==
    /\ Exists(u)
    /\ account' = [account EXCEPT ![u] = Account(password, @.kept, @.score)]

\* What a stop makes of an account.
AfterStop(u) ==
    IF Exists(u) THEN Account(account[u].kept, account[u].kept, account[u].score)
                 ELSE account[u]

Stop ==
    \/ account' = [u \in Users |-> AfterStop(u)]
    \/ \E saved \in Users :
          /\ Exists(saved)
          /\ account' = [u \in Users |-> IF u = saved THEN Lost ELSE AfterStop(u)]

Next ==
    \/ \E u \in Users, password \in Passwords :
          Create(u, password) \/ ChangePassword(u, password)
    \/ \E u \in Users, points \in {1, 2} : Award(u, points)
    \/ Stop

Spec == Init /\ [][Next]_account
=============================================================================

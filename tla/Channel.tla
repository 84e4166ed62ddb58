------------------------------- MODULE Channel -------------------------------
(***************************************************************************)
(* What Communication promises of one pipe or connection, and Session,     *)
(* Match and Matchmaking build on: whole messages come out as they went    *)
(* in, and the end is reported after the last of them.                     *)
(***************************************************************************)
EXTENDS Sequences, Naturals

CONSTANT Bodies

VARIABLES
    accepted,  \* the messages that went in completely
    received,  \* the messages handed to the reader
    open,      \* FALSE once the writer is gone
    ended      \* TRUE once the reader knows

Init ==
    /\ accepted = <<>>
    /\ received = <<>>
    /\ open = TRUE
    /\ ended = FALSE

Accept(body) ==
    /\ open
    /\ accepted' = Append(accepted, body)
    /\ UNCHANGED <<received, open, ended>>

Close ==
    /\ open
    /\ open' = FALSE
    /\ UNCHANGED <<accepted, received, ended>>

\* Some of the messages that wait are handed over, in their order.
HandOver ==
    /\ \E k \in (Len(received) + 1)..Len(accepted) :
          received' = SubSeq(accepted, 1, k)
    /\ UNCHANGED <<accepted, open, ended>>

\* The end comes with all messages that are left.
End ==
    /\ ~open
    /\ ended' = TRUE
    /\ received' = accepted
    /\ UNCHANGED <<accepted, open>>

Next == (\E body \in Bodies : Accept(body)) \/ Close \/ HandOver \/ End

Spec == Init /\ [][Next]_<<accepted, received, open, ended>>
=============================================================================

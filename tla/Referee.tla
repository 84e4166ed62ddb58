------------------------------- MODULE Referee -------------------------------
(***************************************************************************)
(* What two clients that play a match promise together: they play one game *)
(* on one board by the rules, and the results they report to the server    *)
(* agree with it.  The boards, turns and messages of the clients           *)
(* (Match.tla) implement it.                                               *)
(***************************************************************************)
EXTENDS Tictactoe

CONSTANTS Peers, None

VARIABLES
    board,    \* the one board of the match
    piece,    \* the piece of each player
    mover,    \* the player whose turn it is; None before the first match
    left,     \* the players that left the match without saying so
    reported  \* what each player has told the server: None or a result

vars == <<board, piece, mover, left, reported>>

Rival(p) == CHOOSE q \in Peers : q # p

Init ==
    /\ board = NewBoard
    /\ piece = [p \in Peers |-> None]
    /\ mover = None
    /\ left = {}
    /\ reported = [p \in Peers |-> None]

Playing(p) == mover # None /\ reported[p] = None /\ p \notin left

\* A match begins when nobody is in the last one any more: with an empty board,
\* two different pieces and one player on turn, whichever.
Begin ==
    /\ \A p \in Peers : ~Playing(p)
    /\ board' = NewBoard
    /\ piece' \in [Peers -> Pieces]
    /\ \A p \in Peers : piece'[p] # piece'[Rival(p)]
    /\ mover' \in Peers
    /\ left' = {}
    /\ reported' = [p \in Peers |-> None]

\* The result of a finished game for p.
Verdict(p, b) ==
    CASE Ruling(b) = "Draw"            -> "draw"
      [] Ruling(b) = Winner(piece[p])  -> "win"
      [] OTHER                         -> "lost"

\* The players move in turn, on empty positions of the one board.  Who ends
\* the game with a move reports at once.
Move(p) ==
    /\ Playing(p) /\ mover = p
    /\ Ruling(board) = "In_Progress"
    /\ \E cell \in Cells :
          board[cell] = "Empty" /\ board' = [board EXCEPT ![cell] = piece[p]]
    /\ mover' = Rival(p)
    /\ reported' = IF Ruling(board') = "In_Progress" THEN reported
                   ELSE [reported EXCEPT ![p] = Verdict(p, board')]
    /\ UNCHANGED <<piece, left>>

\* The other player learns how the game ended.
Learn(p) ==
    /\ Playing(p)
    /\ Ruling(board) # "In_Progress"
    /\ reported' = [reported EXCEPT ![p] = Verdict(p, board)]
    /\ UNCHANGED <<board, piece, mover, left>>

\* A player gives up: a loss, even if a final move is on its way.
GiveUp(p) ==
    /\ Playing(p)
    /\ reported' = [reported EXCEPT ![p] = "lost"]
    /\ UNCHANGED <<board, piece, mover, left>>

\* A player is gone; it may have been about to move.
Vanish(p) ==
    /\ Playing(p)
    /\ left' = left \cup {p}
    /\ UNCHANGED <<board, piece, mover, reported>>

\* The player who stays reports a failed match if the other is gone, and wins
\* if the other gave up; one who gives up before the players are connected is
\* taken for gone.
Stay(p) ==
    /\ Playing(p)
    /\ \E result \in {"win", "fail"} :
          /\ \/ Rival(p) \in left /\ result = "fail"
             \/ reported[Rival(p)] = "lost"
          /\ reported' = [reported EXCEPT ![p] = result]
    /\ UNCHANGED <<board, piece, mover, left>>

Next ==
    \/ Begin
    \/ \E p \in Peers : Move(p) \/ Learn(p) \/ GiveUp(p) \/ Vanish(p) \/ Stay(p)

Spec == Init /\ [][Next]_vars
=============================================================================

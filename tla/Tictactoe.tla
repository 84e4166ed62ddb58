------------------------------ MODULE Tictactoe ------------------------------
(***************************************************************************)
(* The board of one client (Tictactoe.cpp): which plays it takes, and who  *)
(* has won on it.  Every client keeps a board of its own.                  *)
(***************************************************************************)
EXTENDS Integers

Cells == (0..2) \X (0..2)   \* <<row, column>>
Pieces == {"X", "O"}
Marks == Pieces \cup {"Empty"}
Boards == [Cells -> Marks]
GameStatus == {"In_Progress", "X_Winner", "O_Winner", "Draw"}

NewBoard == [c \in Cells |-> "Empty"]

canSetPlay(board, cell) == board[cell] = "Empty"

\* An occupied position is left as it is; the callers ignore that it was.
setPlay(board, cell, piece) ==
    IF board[cell] = "Empty" THEN [board EXCEPT ![cell] = piece] ELSE board

Opposite(piece) == IF piece = "X" THEN "O" ELSE "X"

Winner(piece) == IF piece = "X" THEN "X_Winner" ELSE "O_Winner"

-----------------------------------------------------------------------------
\* checkWin: the columns, then the rows, then the diagonals.

\* The mark that fills three positions, or Empty.
Same(board, c1, c2, c3) ==
    IF board[c1] = board[c2] /\ board[c2] = board[c3] THEN board[c1] ELSE "Empty"

Column(board, i) == Same(board, <<0, i>>, <<1, i>>, <<2, i>>)
Row(board, i) == Same(board, <<i, 0>>, <<i, 1>>, <<i, 2>>)

\* The first of three marks that is a piece, or Empty.
FirstOf(m0, m1, m2) ==
    IF m0 # "Empty" THEN m0 ELSE IF m1 # "Empty" THEN m1 ELSE m2

FirstColumn(board) == FirstOf(Column(board, 0), Column(board, 1), Column(board, 2))
FirstRow(board) == FirstOf(Row(board, 0), Row(board, 1), Row(board, 2))

\* Mutant: the second diagonal is forgotten.
FirstDiagonal(board) == Same(board, <<0, 0>>, <<1, 1>>, <<2, 2>>)

\* The second diagonal is looked at only if the first is not uniform: one of
\* three empty positions hides it.
Diagonal(board) ==
    IF board[<<0, 0>>] = board[<<1, 1>>] /\ board[<<1, 1>>] = board[<<2, 2>>]
    THEN board[<<0, 0>>]
    ELSE Same(board, <<2, 0>>, <<1, 1>>, <<0, 2>>)

checkWin(board) ==
    IF FirstColumn(board) # "Empty" THEN Winner(FirstColumn(board))
    ELSE IF FirstRow(board) # "Empty" THEN Winner(FirstRow(board))
    ELSE IF Diagonal(board) # "Empty" THEN Winner(Diagonal(board))
    ELSE IF \E c \in Cells : board[c] = "Empty" THEN "In_Progress"
    ELSE "Draw"

-----------------------------------------------------------------------------
\* The rules of the game, to compare checkWin with.

Lines ==
    {{<<r, c>> : c \in 0..2} : r \in 0..2}
        \cup {{<<r, c>> : r \in 0..2} : c \in 0..2}
        \cup {{<<i, i>> : i \in 0..2}, {<<i, 2 - i>> : i \in 0..2}}

HasLine(board, piece) == \E l \in Lines : \A c \in l : board[c] = piece

\* What checkWin has to say of a board on which not both pieces have a line.
Ruling(board) ==
    IF \E p \in Pieces : HasLine(board, p)
    THEN Winner(CHOOSE p \in Pieces : HasLine(board, p))
    ELSE IF \E c \in Cells : board[c] = "Empty" THEN "In_Progress" ELSE "Draw"
=============================================================================

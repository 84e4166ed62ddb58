--------------------------- MODULE TictactoeProofs ---------------------------
(***************************************************************************)
(* checkWin agrees with the rules of the game, on every board on which not *)
(* both pieces have a line.                                                *)
(***************************************************************************)
EXTENDS Tictactoe, TLAPS

\* The eight lines, one by one.
LEMMA EightLines ==
    ASSUME NEW board, NEW piece
    PROVE  HasLine(board, piece) <=>
             \/ \E i \in 0..2 : /\ board[<<0, i>>] = piece
                                /\ board[<<1, i>>] = piece
                                /\ board[<<2, i>>] = piece
             \/ \E i \in 0..2 : /\ board[<<i, 0>>] = piece
                                /\ board[<<i, 1>>] = piece
                                /\ board[<<i, 2>>] = piece
             \/ /\ board[<<0, 0>>] = piece
                /\ board[<<1, 1>>] = piece
                /\ board[<<2, 2>>] = piece
             \/ /\ board[<<2, 0>>] = piece
                /\ board[<<1, 1>>] = piece
                /\ board[<<0, 2>>] = piece
<1> DEFINE R(r)  == {<<r, c>> : c \in 0..2}
           C(c)  == {<<r, c>> : r \in 0..2}
           Rows  == {R(r) : r \in 0..2}
           Cols  == {C(c) : c \in 0..2}
           Down  == {<<i, i>> : i \in 0..2}
           Up    == {<<i, 2 - i>> : i \in 0..2}
           On(l) == \A c \in l : board[c] = piece
<1>0. 0..2 = {0, 1, 2}
  OBVIOUS
<1>1. HasLine(board, piece) <=>
        (\E l \in Rows : On(l)) \/ (\E l \in Cols : On(l)) \/ On(Down) \/ On(Up)
  <2>1. Lines = Rows \cup Cols \cup {Down, Up}
    BY DEF Lines
  <2>2. HasLine(board, piece) <=> \E l \in Rows \cup Cols \cup {Down, Up} : On(l)
    BY <2>1 DEF HasLine
  <2> HIDE DEF Rows, Cols, Down, Up, On
  <2> QED  BY <2>2
<1>2. (\E l \in Rows : On(l)) <=>
         \E i \in 0..2 : /\ board[<<i, 0>>] = piece
                         /\ board[<<i, 1>>] = piece
                         /\ board[<<i, 2>>] = piece
  <2>1. \A i : On(R(i)) <=> \A c \in 0..2 : board[<<i, c>>] = piece
    OBVIOUS
  <2> HIDE DEF R, On
  <2>2. (\E l \in Rows : On(l)) <=> \E i \in 0..2 : On(R(i))
    OBVIOUS
  <2> QED  BY <2>1, <2>2, <1>0
<1>3. (\E l \in Cols : On(l)) <=>
         \E i \in 0..2 : /\ board[<<0, i>>] = piece
                         /\ board[<<1, i>>] = piece
                         /\ board[<<2, i>>] = piece
  <2>1. \A i : On(C(i)) <=> \A r \in 0..2 : board[<<r, i>>] = piece
    OBVIOUS
  <2> HIDE DEF C, On
  <2>2. (\E l \in Cols : On(l)) <=> \E i \in 0..2 : On(C(i))
    OBVIOUS
  <2> QED  BY <2>1, <2>2, <1>0
<1>4. On(Down) <=> /\ board[<<0, 0>>] = piece
                   /\ board[<<1, 1>>] = piece
                   /\ board[<<2, 2>>] = piece
  <2>1. On(Down) <=> \A i \in 0..2 : board[<<i, i>>] = piece
    OBVIOUS
  <2> QED  BY <2>1, <1>0
<1>5. On(Up) <=> /\ board[<<2, 0>>] = piece
                 /\ board[<<1, 1>>] = piece
                 /\ board[<<0, 2>>] = piece
  <2>1. On(Up) <=> \A i \in 0..2 : board[<<i, 2 - i>>] = piece
    OBVIOUS
  <2>2. 2 - 0 = 2 /\ 2 - 1 = 1 /\ 2 - 2 = 0
    OBVIOUS
  <2> QED  BY <2>1, <2>2, <1>0
<1> HIDE DEF Rows, Cols, Down, Up, On
<1> QED  BY <1>1, <1>2, <1>3, <1>4, <1>5

\* The first loop of checkWin finds a piece that fills a column, if there is one.
LEMMA AnyColumn ==
    ASSUME NEW board \in Boards, NEW found, found = FirstColumn(board)
    PROVE  /\ found \in Marks
           /\ found # "Empty" =>
                \E i \in 0..2 : /\ board[<<0, i>>] = found
                                /\ board[<<1, i>>] = found
                                /\ board[<<2, i>>] = found
           /\ found = "Empty" =>
                \A p \in Pieces : ~ \E i \in 0..2 : /\ board[<<0, i>>] = p
                                                   /\ board[<<1, i>>] = p
                                                   /\ board[<<2, i>>] = p
<1>0. 0..2 = {0, 1, 2}
  OBVIOUS
<1>1. \A r, c \in {0, 1, 2} : board[<<r, c>>] \in Marks
  BY <1>0 DEF Boards, Cells
<1>2. \A i \in {0, 1, 2} :
         Column(board, i) =
            IF board[<<0, i>>] = board[<<1, i>>] /\ board[<<1, i>>] = board[<<2, i>>]
            THEN board[<<0, i>>] ELSE "Empty"
  BY DEF Column, Same
<1>3. /\ found = Column(board, 0) \/ found = Column(board, 1) \/ found = Column(board, 2)
      /\ found = "Empty" => \A i \in {0, 1, 2} : Column(board, i) = "Empty"
  BY DEF FirstColumn, FirstOf
<1>4. "Empty" \in Marks /\ \A p \in Pieces : p # "Empty"
  BY DEF Marks, Pieces
<1> QED  BY <1>0, <1>1, <1>2, <1>3, <1>4

\* The second loop does so for the rows.
LEMMA AnyRow ==
    ASSUME NEW board \in Boards, NEW found, found = FirstRow(board)
    PROVE  /\ found \in Marks
           /\ found # "Empty" =>
                \E i \in 0..2 : /\ board[<<i, 0>>] = found
                                /\ board[<<i, 1>>] = found
                                /\ board[<<i, 2>>] = found
           /\ found = "Empty" =>
                \A p \in Pieces : ~ \E i \in 0..2 : /\ board[<<i, 0>>] = p
                                                   /\ board[<<i, 1>>] = p
                                                   /\ board[<<i, 2>>] = p
<1>0. 0..2 = {0, 1, 2}
  OBVIOUS
<1>1. \A r, c \in {0, 1, 2} : board[<<r, c>>] \in Marks
  BY <1>0 DEF Boards, Cells
<1>2. \A i \in {0, 1, 2} :
         Row(board, i) =
            IF board[<<i, 0>>] = board[<<i, 1>>] /\ board[<<i, 1>>] = board[<<i, 2>>]
            THEN board[<<i, 0>>] ELSE "Empty"
  BY DEF Row, Same
<1>3. /\ found = Row(board, 0) \/ found = Row(board, 1) \/ found = Row(board, 2)
      /\ found = "Empty" => \A i \in {0, 1, 2} : Row(board, i) = "Empty"
  BY DEF FirstRow, FirstOf
<1>4. "Empty" \in Marks /\ \A p \in Pieces : p # "Empty"
  BY DEF Marks, Pieces
<1> QED  BY <1>0, <1>1, <1>2, <1>3, <1>4

\* A piece that fills a diagonal is found, although three empty positions of the
\* first diagonal keep checkWin from looking at the second: it is not full then.
LEMMA EitherDiagonal ==
    ASSUME NEW board \in Boards
    PROVE  /\ Diagonal(board) \in Marks
           /\ \A p \in Pieces :
                Diagonal(board) = p <=>
                   \/ /\ board[<<0, 0>>] = p
                      /\ board[<<1, 1>>] = p
                      /\ board[<<2, 2>>] = p
                   \/ /\ board[<<2, 0>>] = p
                      /\ board[<<1, 1>>] = p
                      /\ board[<<0, 2>>] = p
<1>0. 0..2 = {0, 1, 2}
  OBVIOUS
<1>1. \A r, c \in {0, 1, 2} : board[<<r, c>>] \in Marks
  BY <1>0 DEF Boards, Cells
<1>2. "Empty" \in Marks /\ \A p \in Pieces : p # "Empty"
  BY DEF Marks, Pieces
<1> QED  BY <1>1, <1>2 DEF Diagonal, Same

\* checkWin (Tictactoe.cpp:44-86) says of every board what the rules say of it,
\* unless both pieces have a line on it, which the rules do not decide.
THEOREM CheckWinFollowsTheRules ==
    ASSUME NEW board \in Boards,
           ~(HasLine(board, "X") /\ HasLine(board, "O"))
    PROVE  checkWin(board) = Ruling(board)
<1>1. PICK columns : columns = FirstColumn(board)
  OBVIOUS
<1>2. PICK rows : rows = FirstRow(board)
  OBVIOUS
<1>3. PICK diagonal : diagonal = Diagonal(board)
  OBVIOUS
<1>4. checkWin(board) =
        IF columns # "Empty" THEN Winner(columns)
        ELSE IF rows # "Empty" THEN Winner(rows)
        ELSE IF diagonal # "Empty" THEN Winner(diagonal)
        ELSE IF \E c \in Cells : board[c] = "Empty" THEN "In_Progress" ELSE "Draw"
  BY <1>1, <1>2, <1>3 DEF checkWin
<1>5. \A m \in Marks : m # "Empty" => m \in Pieces
  BY DEF Marks
<1>6. \A p \in Pieces : HasLine(board, p) => Ruling(board) = Winner(p)
  <2>1. TAKE p \in Pieces
  <2>2. HAVE HasLine(board, p)
  <2>3. \A q \in Pieces : HasLine(board, q) => q = p
    BY <2>2 DEF Pieces
  <2>4. (CHOOSE q \in Pieces : HasLine(board, q)) = p
    BY <2>1, <2>2, <2>3
  <2> QED  BY <2>1, <2>2, <2>4 DEF Ruling
<1>7. CASE columns # "Empty"
  <2>1. columns \in Pieces /\ HasLine(board, columns)
    BY <1>1, <1>5, <1>7, AnyColumn, EightLines
  <2> QED  BY <2>1, <1>4, <1>6, <1>7
<1>8. CASE columns = "Empty" /\ rows # "Empty"
  <2>1. rows \in Pieces /\ HasLine(board, rows)
    BY <1>2, <1>5, <1>8, AnyRow, EightLines
  <2> QED  BY <2>1, <1>4, <1>6, <1>8
<1>9. CASE columns = "Empty" /\ rows = "Empty" /\ diagonal # "Empty"
  <2>1. diagonal \in Pieces /\ HasLine(board, diagonal)
    BY <1>3, <1>5, <1>9, EitherDiagonal, EightLines
  <2> QED  BY <2>1, <1>4, <1>6, <1>9
<1>10. CASE columns = "Empty" /\ rows = "Empty" /\ diagonal = "Empty"
  <2>1. \A p \in Pieces : p # "Empty"
    BY DEF Pieces
  <2>2. \A p \in Pieces : ~HasLine(board, p)
    <3>1. TAKE p \in Pieces
    <3>2. ~ \E i \in 0..2 : /\ board[<<0, i>>] = p
                           /\ board[<<1, i>>] = p
                           /\ board[<<2, i>>] = p
      BY <1>1, <1>10, <3>1, AnyColumn
    <3>3. ~ \E i \in 0..2 : /\ board[<<i, 0>>] = p
                           /\ board[<<i, 1>>] = p
                           /\ board[<<i, 2>>] = p
      BY <1>2, <1>10, <3>1, AnyRow
    <3>4. Diagonal(board) # p
      BY <1>3, <1>10, <2>1, <3>1
    <3> QED  BY <3>1, <3>2, <3>3, <3>4, EitherDiagonal, EightLines
  <2> QED  BY <2>2, <1>4, <1>10 DEF Ruling
<1> QED  BY <1>7, <1>8, <1>9, <1>10
=============================================================================

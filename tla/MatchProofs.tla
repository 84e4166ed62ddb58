----------------------------- MODULE MatchProofs -----------------------------
(***************************************************************************)
(* Theorems about Match, for any number of matches one after the other:    *)
(* its types, with the bound on unread messages, and that points are only  *)
(* reported for a match whose start was reported; and, for matches that    *)
(* begin on fresh boards, that the two clients play the referee's one game *)
(* and report its outcome.                                                 *)
(***************************************************************************)
EXTENDS Match, TictactoeProofs

-----------------------------------------------------------------------------
(***************************************************************************)
(* Boards with few marks.                                                  *)
(***************************************************************************)

\* At most one position is taken.
FewMarks(b) == \E c \in Cells : \A d \in Cells : d # c => b[d] = "Empty"

LEMMA NewBoardFacts == NewBoard \in Boards /\ FewMarks(NewBoard)
<1>1. NewBoard \in Boards
  BY DEF NewBoard, Boards, Marks
<1>2. <<0, 0>> \in Cells
  BY DEF Cells
<1>3. \A d \in Cells : NewBoard[d] = "Empty"
  BY DEF NewBoard
<1> QED  BY <1>1, <1>2, <1>3 DEF FewMarks

LEMMA SetPlayFacts ==
    ASSUME NEW b \in Boards, NEW cell \in Cells, NEW piece \in Marks
    PROVE  /\ setPlay(b, cell, piece) \in Boards
           /\ b = NewBoard => FewMarks(setPlay(b, cell, piece))
<1>1. setPlay(b, cell, piece) \in Boards
  BY DEF setPlay, Boards
<1>2. ASSUME b = NewBoard PROVE FewMarks(setPlay(b, cell, piece))
  <2>1. \A d \in Cells : d # cell => setPlay(b, cell, piece)[d] = "Empty"
    BY <1>2 DEF setPlay, NewBoard
  <2> QED  BY <2>1 DEF FewMarks
<1> QED  BY <1>1, <1>2

\* No game ends on two marks.
LEMMA TwoMarksGoOn ==
    ASSUME NEW b \in Boards, FewMarks(b), NEW cell \in Cells, NEW piece \in Marks
    PROVE  checkWin(setPlay(b, cell, piece)) = "In_Progress"
<1> DEFINE s == setPlay(b, cell, piece)
<1>1. PICK c \in Cells : \A d \in Cells : d # c => b[d] = "Empty"
  BY DEF FewMarks
<1>2. \A d \in Cells : d # c /\ d # cell => s[d] = "Empty"
  BY <1>1 DEF setPlay, Boards
<1> HIDE DEF s
<1>3. ASSUME NEW x \in Cells, NEW y \in Cells, NEW z \in Cells, x # y, y # z, x # z
      PROVE  s[x] = "Empty" \/ s[y] = "Empty" \/ s[z] = "Empty"
  BY <1>2, <1>3
<1>4. ASSUME NEW x \in Cells, NEW y \in Cells, NEW z \in Cells, x # y, y # z, x # z
      PROVE  Same(s, x, y, z) = "Empty"
  BY <1>3, <1>4 DEF Same
<1>5. \A i \in 0..2 : Column(s, i) = "Empty" /\ Row(s, i) = "Empty"
  <2> SUFFICES ASSUME NEW i \in 0..2 PROVE Column(s, i) = "Empty" /\ Row(s, i) = "Empty"
    OBVIOUS
  <2>1. /\ <<0, i>> \in Cells /\ <<1, i>> \in Cells /\ <<2, i>> \in Cells
        /\ <<i, 0>> \in Cells /\ <<i, 1>> \in Cells /\ <<i, 2>> \in Cells
    BY DEF Cells
  <2>2. /\ <<0, i>> # <<1, i>> /\ <<1, i>> # <<2, i>> /\ <<0, i>> # <<2, i>>
        /\ <<i, 0>> # <<i, 1>> /\ <<i, 1>> # <<i, 2>> /\ <<i, 0>> # <<i, 2>>
    OBVIOUS
  <2> QED  BY <1>4, <2>1, <2>2 DEF Column, Row
<1>6. FirstColumn(s) = "Empty" /\ FirstRow(s) = "Empty"
  BY <1>5 DEF FirstColumn, FirstRow, FirstOf
<1>7. /\ <<0, 0>> \in Cells /\ <<1, 1>> \in Cells /\ <<2, 2>> \in Cells
      /\ <<2, 0>> \in Cells /\ <<0, 2>> \in Cells
      /\ <<0, 0>> # <<1, 1>> /\ <<1, 1>> # <<2, 2>> /\ <<0, 0>> # <<2, 2>>
      /\ <<2, 0>> # <<1, 1>> /\ <<1, 1>> # <<0, 2>> /\ <<2, 0>> # <<0, 2>>
  BY DEF Cells
<1>8. Diagonal(s) = "Empty"
  <2>1. Same(s, <<0, 0>>, <<1, 1>>, <<2, 2>>) = "Empty"
    BY <1>4, <1>7
  <2>2. Same(s, <<2, 0>>, <<1, 1>>, <<0, 2>>) = "Empty"
    BY <1>4, <1>7
  <2> QED  BY <2>1, <2>2 DEF Diagonal, Same
<1>9. \E d \in Cells : s[d] = "Empty"
  BY <1>3, <1>7
<1> QED  BY <1>6, <1>8, <1>9 DEF checkWin, s

-----------------------------------------------------------------------------
(***************************************************************************)
(* The inductive invariant.                                                *)
(***************************************************************************)

LEMMA RivalFacts ==
    ASSUME NEW p \in Peers
    PROVE  /\ Rival(p) \in Peers /\ Rival(p) # p /\ Rival(Rival(p)) = p
           /\ \A r \in Peers : r = p \/ r = Rival(p)
<1>1. PICK a \in Peers, b \in Peers : a # b /\ Peers = {a, b}
  BY PeersAssumption
<1>2. \A r \in Peers : Rival(r) \in Peers /\ Rival(r) # r
  <2>1. \A r \in Peers : \E q \in Peers : q # r
    BY <1>1
  <2> QED  BY <2>1 DEF Rival
<1> QED  BY <1>1, <1>2

MatchStates ==
    [board : Boards, piece : [Peers -> Pieces \cup {None}], mover : Peers \cup {None}]

Types ==
    /\ status \in [Peers -> {"logged", "waiting", "on_match", "gone"}]
    /\ board \in [Peers -> Boards]
    /\ isTurn \in [Peers -> BOOLEAN]
    /\ clientPiece \in [Peers -> Marks]
    /\ clientConnFd \in [Peers -> {"none", "conn"}]
    /\ pollFd \in [Peers -> {"none", "listener", "conn"}]
    /\ isAcceptingConn \in [Peers -> BOOLEAN]
    /\ sock \in [Peers -> {"none", "open", "fin", "reset", "broken"}]
    /\ inbox \in [Peers -> Seq(Messages)]
    /\ invitation \in [to : Peers, piece : Pieces, first : BOOLEAN] \cup {None}
    /\ match \in MatchStates
    /\ left \subseteq Peers /\ started \subseteq Peers
    /\ reported \in [Peers -> Results \cup {None}]
    /\ early \in BOOLEAN /\ matches \in 0..MaxMatches

\* What a client polls, reads and has on its board when it begins a match: only
\* a client that has reported the start reads, and one that has not been
\* connected has no board to win on, though an old match may have left a mark.
Descriptors(p) ==
    /\ status[p] \in {"logged", "waiting"} =>
          /\ clientConnFd[p] = "none" /\ pollFd[p] # "listener"
          /\ FewMarks(board[p])
          /\ isAcceptingConn[p] => board[p] = NewBoard
    /\ clientConnFd[p] = "conn" =>
          pollFd[p] = "conn" /\ p \in started /\ status[p] = "on_match"
    /\ (status[p] = "on_match" /\ clientConnFd[p] = "none") => pollFd[p] = "listener"
    /\ pollFd[p] = "listener" =>
          /\ isAcceptingConn[p] /\ status[p] = "on_match" /\ clientConnFd[p] = "none"
          /\ isTurn[p] => FewMarks(board[p])
    /\ (pollFd[p] = "conn" /\ isAcceptingConn[p]) =>
          /\ status[p] = "on_match" /\ FewMarks(board[p])
          /\ isTurn[p] => board[p] = NewBoard

Linked(p) == status[p] = "on_match" /\ sock[p] = "open"
OnePlay(s) == s = <<>> \/ \E c \in Cells : s = <<Send(c)>>

\* On an open connection one of the two is on turn, or one play is on its way.
OneTurn(p, q) ==
    /\ Len(inbox[p]) <= 2
    /\ Linked(p) =>
          /\ OnePlay(inbox[p]) /\ OnePlay(inbox[q])
          /\ (isTurn[p] \/ inbox[p] # <<>>) =>
                inbox[q] = <<>> /\ ~(status[q] = "on_match" /\ isTurn[q])
          /\ isTurn[p] => inbox[p] = <<>>

\* The invited client is not yet connected, and has not the first move if the
\* inviter has it.
Invited ==
    invitation # None =>
        /\ status[invitation.to] \in {"waiting", "gone"}
        /\ ~(invitation.first /\ isTurn[Rival(invitation.to)])
        /\ sock[Rival(invitation.to)] = "none"
        /\ clientConnFd[Rival(invitation.to)] = "none"

Inv ==
    /\ Types
    /\ \A p \in Peers : Descriptors(p) /\ OneTurn(p, Rival(p))
    /\ Invited
    /\ PointsAfterStart

LEMMA InvImpliesTypeOK == Inv => TypeOK
<1> SUFFICES ASSUME Inv PROVE TypeOK
  OBVIOUS
<1>1. \A p \in Peers : inbox[p] \in Seq(Messages) /\ Len(inbox[p]) <= 2
  BY DEF Inv, Types, OneTurn
<1>2. /\ match.board \in Boards /\ match.mover \in Peers \cup {None}
      /\ match.piece \in [Peers -> Pieces \cup {None}]
  BY DEF Inv, Types, MatchStates
<1>3. /\ isTurn \in [Peers -> BOOLEAN] /\ isAcceptingConn \in [Peers -> BOOLEAN]
      /\ early \in BOOLEAN
  BY DEF Inv, Types
<1>4. /\ status \in [Peers -> {"logged", "waiting", "on_match", "gone"}]
      /\ board \in [Peers -> Boards] /\ clientPiece \in [Peers -> Marks]
      /\ clientConnFd \in [Peers -> {"none", "conn"}]
      /\ pollFd \in [Peers -> {"none", "listener", "conn"}]
      /\ sock \in [Peers -> {"none", "open", "fin", "reset", "broken"}]
      /\ invitation = None \/ invitation \in [to : Peers, piece : Pieces, first : BOOLEAN]
      /\ left \subseteq Peers /\ started \subseteq Peers
      /\ reported \in [Peers -> Results \cup {None}] /\ matches \in 0..MaxMatches
  BY DEF Inv, Types
<1> QED  BY <1>1, <1>2, <1>3, <1>4, Zenon DEF TypeOK

LEMMA InitInv == Init => Inv
<1> SUFFICES ASSUME Init PROVE Inv
  OBVIOUS
<1>1. Types
  <2>1. /\ board \in [Peers -> Boards] /\ match \in MatchStates
    BY NewBoardFacts DEF Init, NoMatch, MatchStates
  <2>2. /\ isTurn \in [Peers -> BOOLEAN] /\ isAcceptingConn \in [Peers -> BOOLEAN]
        /\ early \in BOOLEAN
    BY DEF Init
  <2>3. /\ status \in [Peers -> {"logged", "waiting", "on_match", "gone"}]
        /\ clientPiece \in [Peers -> Marks]
        /\ clientConnFd \in [Peers -> {"none", "conn"}]
        /\ pollFd \in [Peers -> {"none", "listener", "conn"}]
        /\ sock \in [Peers -> {"none", "open", "fin", "reset", "broken"}]
        /\ inbox \in [Peers -> Seq(Messages)]
    BY DEF Init, Marks
  <2>4. /\ invitation \in [to : Peers, piece : Pieces, first : BOOLEAN] \cup {None}
        /\ left \subseteq Peers /\ started \subseteq Peers
        /\ reported \in [Peers -> Results \cup {None}] /\ matches \in 0..MaxMatches
    BY PeersAssumption DEF Init
  <2> QED  BY <2>1, <2>2, <2>3, <2>4, Zenon DEF Types
<1>2. ASSUME NEW p \in Peers PROVE Descriptors(p) /\ OneTurn(p, Rival(p))
  BY NewBoardFacts, RivalFacts DEF Init, Descriptors, OneTurn, Linked
<1>3. Invited
  BY DEF Init, Invited
<1>4. PointsAfterStart
  <2>1. \A p \in Peers : reported[p] = None
    BY DEF Init
  <2>2. None \notin {"win", "draw"}
    BY PeersAssumption
  <2> QED  BY <2>1, <2>2 DEF PointsAfterStart
<1> QED  BY <1>1, <1>2, <1>3, <1>4 DEF Inv

-----------------------------------------------------------------------------
(***************************************************************************)
(* A client leaves its match, or ends.                                     *)
(***************************************************************************)

LEMMA Closed ==
    ASSUME Types, NEW p \in Peers, NEW q \in Peers, q = Rival(p),
           NEW box \in [Peers -> Seq(Messages)], Close(p, box)
    PROVE  /\ sock' \in [Peers -> {"none", "open", "fin", "reset", "broken"}]
           /\ inbox' \in [Peers -> Seq(Messages)]
           /\ pollFd' \in [Peers -> {"none", "listener", "conn"}]
           /\ clientConnFd' \in [Peers -> {"none", "conn"}]
           /\ sock'[p] = "none" /\ sock'[q] # "open"
           /\ sock[q] = "none" => sock'[q] = "none"
           /\ inbox'[p] = <<>> /\ inbox'[q] = box[q]
           /\ pollFd'[p] = "none" /\ pollFd'[q] = pollFd[q]
           /\ clientConnFd'[p] = "none" /\ clientConnFd'[q] = clientConnFd[q]
<1>1. q # p /\ Rival(p) = q
  BY RivalFacts
<1>2. Hangup(p, box) \in {"fin", "reset"}
  BY DEF Hangup
<1>3. sock' = [sock EXCEPT ![p] = "none",
                           ![q] = IF @ = "open" THEN Hangup(p, box) ELSE @]
  BY <1>1 DEF Close
<1>4. /\ inbox' = [box EXCEPT ![p] = <<>>]
      /\ pollFd' = [pollFd EXCEPT ![p] = "none"]
      /\ clientConnFd' = [clientConnFd EXCEPT ![p] = "none"]
  BY DEF Close
<1>5. <<>> \in Seq(Messages)
  OBVIOUS
<1>6. /\ sock \in [Peers -> {"none", "open", "fin", "reset", "broken"}]
      /\ pollFd \in [Peers -> {"none", "listener", "conn"}]
      /\ clientConnFd \in [Peers -> {"none", "conn"}]
  BY DEF Types
<1>7. /\ sock' \in [Peers -> {"none", "open", "fin", "reset", "broken"}]
      /\ sock'[p] = "none" /\ sock'[q] # "open"
      /\ sock[q] = "none" => sock'[q] = "none"
  <2>1. /\ sock'[p] = "none"
        /\ sock'[q] = IF sock[q] = "open" THEN Hangup(p, box) ELSE sock[q]
    BY <1>1, <1>3, <1>6
  <2>2. sock' \in [Peers -> {"none", "open", "fin", "reset", "broken"}]
    BY <1>2, <1>3, <1>6
  <2> QED  BY <1>2, <2>1, <2>2
<1> QED  BY <1>1, <1>4, <1>5, <1>6, <1>7

\* Nothing that Descriptors says of q has changed.
LEMMA SameDescriptors ==
    ASSUME NEW q, Descriptors(q), started \subseteq started',
           status'[q] = status[q], board'[q] = board[q], isTurn'[q] = isTurn[q],
           clientConnFd'[q] = clientConnFd[q], pollFd'[q] = pollFd[q],
           isAcceptingConn'[q] = isAcceptingConn[q]
    PROVE  Descriptors(q)'
BY DEF Descriptors

\* A step of p after which p is not on a match and the connection is closed.
LEMMA LeavesInv ==
    ASSUME Inv, NEW p \in Peers, NEW q \in Peers, q = Rival(p), Types',
           NEW box \in [Peers -> Seq(Messages)], Len(box[q]) <= 2, Close(p, box),
           status'[p] # "on_match", status'[q] = status[q],
           status'[p] # "waiting",
           status'[p] = "logged" =>
              status[p] = "on_match" /\ board'[p] = NewBoard,
           board'[q] = board[q],
           isTurn'[p] => isTurn[p], isTurn'[q] = isTurn[q],
           isAcceptingConn' = isAcceptingConn,
           UNCHANGED <<invitation, started>>, PointsAfterStart'
    PROVE  Inv'
<1>1. /\ q # p /\ Rival(p) = q /\ Rival(q) = p
      /\ \A r \in Peers : r = p \/ r = q
  BY RivalFacts
<1>2. Types /\ Descriptors(p) /\ Descriptors(q) /\ OneTurn(q, p) /\ Invited
  BY <1>1 DEF Inv
<1>3. /\ sock'[p] = "none" /\ sock'[q] # "open"
      /\ sock[q] = "none" => sock'[q] = "none"
      /\ inbox'[p] = <<>> /\ inbox'[q] = box[q]
      /\ pollFd'[p] = "none" /\ pollFd'[q] = pollFd[q]
      /\ clientConnFd'[p] = "none" /\ clientConnFd'[q] = clientConnFd[q]
  BY <1>2, Closed
<1>4. Descriptors(p)'
  BY <1>3, NewBoardFacts DEF Descriptors
<1>5. Descriptors(q)'
  BY <1>2, <1>3, SameDescriptors
<1>6. OneTurn(p, q)' /\ OneTurn(q, p)'
  BY <1>3 DEF OneTurn, Linked
<1>7. Invited'
  <2> SUFFICES ASSUME invitation' # None
               PROVE  /\ status'[invitation'.to] \in {"waiting", "gone"}
                      /\ ~(invitation'.first /\ isTurn'[Rival(invitation'.to)])
                      /\ sock'[Rival(invitation'.to)] = "none"
                      /\ clientConnFd'[Rival(invitation'.to)] = "none"
    BY DEF Invited
  <2> DEFINE j == invitation.to
  <2>1. invitation' = invitation /\ j \in Peers
    BY <1>2 DEF Types
  <2>2. /\ status[j] \in {"waiting", "gone"}
        /\ ~(invitation.first /\ isTurn[Rival(j)])
        /\ sock[Rival(j)] = "none" /\ clientConnFd[Rival(j)] = "none"
    BY <1>2, <2>1 DEF Invited
  <2> HIDE DEF j
  <2>3. CASE j = p
    <3>1. status'[p] = "gone"
      <4>1. status'[p] \in {"logged", "waiting", "on_match", "gone"}
        BY DEF Types
      <4> QED  BY <2>2, <2>3, <4>1
    <3> QED  BY <1>1, <1>3, <2>1, <2>2, <2>3, <3>1 DEF j
  <2>4. CASE j = q
    BY <1>1, <1>3, <2>1, <2>2, <2>4 DEF j
  <2> QED  BY <1>1, <2>1, <2>3, <2>4
<1>8. \A r \in Peers : Descriptors(r)' /\ OneTurn(r, Rival(r))'
  BY <1>1, <1>4, <1>5, <1>6
<1> QED  BY <1>7, <1>8 DEF Inv

LEMMA LeaveMatchFacts ==
    ASSUME Types, NEW p \in Peers, LeaveMatch(p) PROVE left' \subseteq Peers
BY DEF Types, LeaveMatch

LEMMA DieInv ==
    ASSUME Inv, NEW p \in Peers, Die(p),
           UNCHANGED <<invitation, match, started, early, matches>>
    PROVE  Inv'
<1> DEFINE q == Rival(p)
<1>1. q \in Peers /\ q # p
  BY RivalFacts
<1>2. /\ Types /\ inbox \in [Peers -> Seq(Messages)]
      /\ Len(inbox[q]) <= 2
  BY <1>1 DEF Inv, Types, OneTurn
<1>3. /\ Close(p, inbox) /\ status' = [status EXCEPT ![p] = "gone"]
      /\ LeaveMatch(p)
      /\ UNCHANGED <<board, isTurn, clientPiece, isAcceptingConn, reported>>
  BY DEF Die
<1>4. Types'
  <2>1. /\ sock' \in [Peers -> {"none", "open", "fin", "reset", "broken"}]
        /\ inbox' \in [Peers -> Seq(Messages)]
        /\ pollFd' \in [Peers -> {"none", "listener", "conn"}]
        /\ clientConnFd' \in [Peers -> {"none", "conn"}]
    BY <1>1, <1>2, <1>3, Closed
  <2>2. status' \in [Peers -> {"logged", "waiting", "on_match", "gone"}]
    BY <1>2, <1>3 DEF Types
  <2>3. left' \subseteq Peers
    BY <1>2, <1>3, LeaveMatchFacts
  <2> QED  BY <1>2, <1>3, <2>1, <2>2, <2>3, Zenon DEF Types
<1>5. PointsAfterStart'
  BY <1>3 DEF Inv, PointsAfterStart
<1>6. status'[p] = "gone" /\ status'[q] = status[q]
  BY <1>1, <1>2, <1>3 DEF Types
<1>7. /\ board'[q] = board[q] /\ (isTurn'[p] => isTurn[p]) /\ isTurn'[q] = isTurn[q]
      /\ isAcceptingConn' = isAcceptingConn
  BY <1>3
<1> HIDE DEF q
<1> QED  BY <1>1, <1>2, <1>3, <1>4, <1>5, <1>6, <1>7, LeavesInv DEF q

LEMMA FinishInv ==
    ASSUME Inv, NEW p \in Peers, status[p] = "on_match",
           NEW result \in Results, result \in {"win", "draw"} => p \in started,
           NEW box \in [Peers -> Seq(Messages)], Len(box[Rival(p)]) <= 2,
           Finish(p, result, box),
           match' \in MatchStates, early' \in BOOLEAN,
           UNCHANGED <<invitation, started, matches>>
    PROVE  Inv'
<1> DEFINE q == Rival(p)
<1>1. q \in Peers /\ q # p
  BY RivalFacts
<1>2. Types /\ PointsAfterStart
  BY DEF Inv
<1>3. /\ Close(p, box)
      /\ status' = [status EXCEPT ![p] = "logged"]
      /\ board' = [board EXCEPT ![p] = NewBoard]
      /\ isTurn' = [isTurn EXCEPT ![p] = FALSE]
      /\ clientPiece' = [clientPiece EXCEPT ![p] = "Empty"]
      /\ reported' = [reported EXCEPT ![p] = result]
      /\ UNCHANGED <<isAcceptingConn, left>>
  BY DEF Finish, EndGame
<1>4. Types'
  <2>1. /\ sock' \in [Peers -> {"none", "open", "fin", "reset", "broken"}]
        /\ inbox' \in [Peers -> Seq(Messages)]
        /\ pollFd' \in [Peers -> {"none", "listener", "conn"}]
        /\ clientConnFd' \in [Peers -> {"none", "conn"}]
    BY <1>1, <1>2, <1>3, Closed
  <2>2. /\ status' \in [Peers -> {"logged", "waiting", "on_match", "gone"}]
        /\ board' \in [Peers -> Boards] /\ isTurn' \in [Peers -> BOOLEAN]
        /\ clientPiece' \in [Peers -> Marks]
        /\ reported' \in [Peers -> Results \cup {None}]
    BY <1>2, <1>3, NewBoardFacts DEF Types, Marks
  <2> QED  BY <1>2, <1>3, <2>1, <2>2, Zenon DEF Types
<1>5. PointsAfterStart'
  <2>1. started' = started /\ reported \in [Peers -> Results \cup {None}]
    BY <1>2 DEF Types
  <2> QED  BY <1>2, <1>3, <2>1 DEF PointsAfterStart
<1>6. status'[p] = "logged" /\ status'[q] = status[q] /\ board'[p] = NewBoard
  BY <1>1, <1>2, <1>3 DEF Types
<1>7. /\ board'[q] = board[q] /\ (isTurn'[p] => isTurn[p]) /\ isTurn'[q] = isTurn[q]
      /\ isAcceptingConn' = isAcceptingConn
  BY <1>1, <1>2, <1>3 DEF Types
<1> HIDE DEF q
<1> QED  BY <1>1, <1>2, <1>3, <1>4, <1>5, <1>6, <1>7, LeavesInv DEF q

-----------------------------------------------------------------------------
(***************************************************************************)
(* The actions.                                                            *)
(***************************************************************************)

LEMMA ResultFacts ==
    ASSUME NEW outcome, NEW piece PROVE Result(outcome, piece) \in Results
BY DEF Result, Results

LEMMA Lengths ==
    /\ Len(<<>>) = 0
    /\ \A x : Len(<<x>>) = 1 /\ Head(<<x>>) = x /\ Tail(<<x>>) = <<>>
    /\ \A S : \A s \in Seq(S) : \A x \in S : Len(Append(s, x)) = Len(s) + 1
    /\ \A S : \A s \in Seq(S) : s # <<>> =>
          /\ Head(s) \in S /\ Tail(s) \in Seq(S)
          /\ Len(s) \in Nat /\ Len(Tail(s)) = Len(s) - 1
    /\ \A x : Append(<<>>, x) = <<x>>
OBVIOUS

\* What p writes is typed, and leaves no more than two messages with its rival.
LEMMA WrittenFacts ==
    ASSUME Inv, NEW p \in Peers, status[p] = "on_match", NEW m \in Messages
    PROVE  /\ Written(p, m) \in [Peers -> Seq(Messages)]
           /\ Len(Written(p, m)[Rival(p)]) <= 2
<1> DEFINE q == Rival(p)
<1>1. /\ q \in Peers /\ Types /\ OneTurn(p, q) /\ OneTurn(q, p)
  BY RivalFacts DEF Inv
<1> HIDE DEF q
<1>2. inbox \in [Peers -> Seq(Messages)] /\ inbox[q] \in Seq(Messages)
  BY <1>1 DEF Types
<1>3. CASE clientConnFd[p] = "conn" /\ sock[p] = "open"
  <2>1. Written(p, m) = [inbox EXCEPT ![q] = Append(inbox[q], m)]
    BY <1>3 DEF Written, q
  <2>2. Append(inbox[q], m) \in Seq(Messages)
    BY <1>2
  <2>3. Len(Append(inbox[q], m)) <= 2
    <3>1. OnePlay(inbox[q])
      BY <1>1, <1>3 DEF OneTurn, Linked
    <3>2. Len(inbox[q]) \in {0, 1}
      BY <3>1, Lengths DEF OnePlay
    <3>3. Len(Append(inbox[q], m)) = Len(inbox[q]) + 1
      BY <1>2, Lengths
    <3>4. \A n, k : k \in {0, 1} /\ n = k + 1 => n <= 2
      OBVIOUS
    <3> QED  BY <3>2, <3>3, <3>4, Zenon
  <2> QED  BY <1>1, <1>2, <2>1, <2>2, <2>3 DEF q
<1>4. CASE ~(clientConnFd[p] = "conn" /\ sock[p] = "open")
  <2>1. Written(p, m) = inbox
    BY <1>4 DEF Written
  <2> QED  BY <1>1, <1>2, <2>1 DEF OneTurn, q
<1> QED  BY <1>3, <1>4

LEMMA GiveUpInv == ASSUME Inv, NEW p \in Peers, GiveUp(p) PROVE Inv'
<1>1. /\ status[p] = "on_match" /\ Finish(p, "lost", Written(p, End))
      /\ UNCHANGED <<invitation, match, started, early, matches>>
  BY DEF GiveUp
<1>2. End \in Messages /\ "lost" \in Results
  BY DEF Messages, Results
<1>3. /\ Written(p, End) \in [Peers -> Seq(Messages)]
      /\ Len(Written(p, End)[Rival(p)]) <= 2
  BY <1>1, <1>2, WrittenFacts
<1>4. match' \in MatchStates /\ early' \in BOOLEAN
  <2>1. match \in MatchStates /\ early \in BOOLEAN
    BY DEF Inv, Types
  <2> QED  BY <1>1, <2>1
<1> QED  BY <1>1, <1>2, <1>3, <1>4, FinishInv

LEMMA KillInv == ASSUME Inv, NEW p \in Peers, Kill(p) \/ WriteFails(p) PROVE Inv'
BY DieInv DEF Kill, WriteFails

\* A play in a game that goes on.
LEMMA PlayInv ==
    ASSUME Inv, NEW p \in Peers, NEW cell \in Cells, status[p] = "on_match",
           MayPlay(p, cell),
           board' = [board EXCEPT ![p] = setPlay(board[p], cell, clientPiece[p])],
           isTurn' = [isTurn EXCEPT ![p] = FALSE],
           inbox' = Written(p, Send(cell)), sock' = AfterWrite(p),
           match' \in MatchStates, early' \in BOOLEAN,
           UNCHANGED <<status, clientPiece, mainVars, left, reported,
                       invitation, started, matches>>
    PROVE  Inv'
<1> DEFINE q == Rival(p)
           m == Send(cell)
<1>1. /\ q \in Peers /\ q # p /\ Rival(p) = q /\ Rival(q) = p
      /\ \A r \in Peers : r = p \/ r = q
  BY RivalFacts
<1> HIDE DEF q
<1>2. /\ Types /\ Descriptors(p) /\ Descriptors(q) /\ OneTurn(p, q) /\ OneTurn(q, p)
      /\ Invited /\ PointsAfterStart
  BY <1>1 DEF Inv
<1>3. isTurn[p] /\ m \in Messages
  BY DEF MayPlay, Messages
<1>4. /\ inbox' \in [Peers -> Seq(Messages)] /\ Len(inbox'[q]) <= 2
  BY <1>3, WrittenFacts DEF q
<1>5. UNCHANGED <<status, clientConnFd, pollFd, isAcceptingConn, started, reported,
                  invitation>>
  BY DEF mainVars
<1>6. /\ isTurn' \in [Peers -> BOOLEAN] /\ ~isTurn'[p] /\ isTurn'[q] = isTurn[q]
  BY <1>1, <1>2 DEF Types
<1>7. /\ board' \in [Peers -> Boards] /\ board'[q] = board[q]
      /\ board'[p] = setPlay(board[p], cell, clientPiece[p])
      /\ board[p] = NewBoard => FewMarks(board'[p])
  BY <1>1, <1>2, SetPlayFacts DEF Types
<1>8. /\ sock' \in [Peers -> {"none", "open", "fin", "reset", "broken"}]
      /\ sock'[q] = sock[q] /\ (sock'[p] = "open" => sock[p] = "open")
      /\ clientConnFd[p] = "none" => sock'[p] = sock[p]
  BY <1>1, <1>2 DEF Types, AfterWrite
<1>9. Types'
  <2>1. /\ clientConnFd' \in [Peers -> {"none", "conn"}]
        /\ pollFd' \in [Peers -> {"none", "listener", "conn"}]
        /\ isAcceptingConn' \in [Peers -> BOOLEAN]
    BY <1>2, <1>5 DEF Types
  <2> QED  BY <1>2, <1>4, <1>6, <1>7, <1>8, <2>1, Zenon DEF Types
<1>10. Descriptors(p)'
  <2>1. status[p] = "on_match"
    OBVIOUS
  <2> QED  BY <1>2, <1>3, <1>5, <1>6, <1>7, <2>1 DEF Descriptors
<1>11. Descriptors(q)'
  BY <1>2, <1>5, <1>6, <1>7, SameDescriptors
<1>12. OneTurn(p, q)' /\ OneTurn(q, p)'
  <2>1. CASE clientConnFd[p] = "conn" /\ sock[p] = "open"
    <3>1. /\ inbox[p] = <<>> /\ inbox[q] = <<>>
          /\ ~(status[q] = "on_match" /\ isTurn[q])
      BY <1>2, <1>3, <2>1 DEF OneTurn, Linked
    <3>2. inbox' = [inbox EXCEPT ![q] = Append(inbox[q], m)]
      BY <2>1 DEF Written, q
    <3>3. inbox'[p] = <<>> /\ inbox'[q] = <<m>>
      BY <1>1, <1>2, <3>1, <3>2, Lengths DEF Types
    <3>4. OnePlay(inbox'[p]) /\ OnePlay(inbox'[q])
      BY <3>3 DEF OnePlay
    <3>5. Len(inbox'[p]) <= 2 /\ Len(inbox'[q]) <= 2
      BY <3>3, Lengths
    <3> HIDE DEF m
    <3> QED  BY <1>5, <1>6, <3>1, <3>3, <3>4, <3>5 DEF OneTurn, Linked
  <2>2. CASE ~(clientConnFd[p] = "conn" /\ sock[p] = "open")
    <3>1. inbox' = inbox
      BY <2>2 DEF Written
    <3>2. OnePlay(inbox'[p]) = OnePlay(inbox[p]) /\ OnePlay(inbox'[q]) = OnePlay(inbox[q])
      BY <3>1
    <3> QED  BY <1>2, <1>5, <1>6, <1>8, <3>1, <3>2 DEF OneTurn, Linked
  <2> QED  BY <2>1, <2>2
<1>13. Invited'
  <2> DEFINE j == invitation.to
  <2>1. invitation # None => j \in Peers
    BY <1>2 DEF Types
  <2>2. invitation # None =>
          /\ status[j] \in {"waiting", "gone"}
          /\ ~(invitation.first /\ isTurn[Rival(j)])
          /\ sock[Rival(j)] = "none" /\ clientConnFd[Rival(j)] = "none"
    BY <1>2 DEF Invited
  <2>3. invitation # None => j = q
    BY <1>1, <2>1, <2>2
  <2>4. invitation # None =>
          /\ status'[j] \in {"waiting", "gone"}
          /\ ~(invitation.first /\ isTurn'[Rival(j)])
          /\ sock'[Rival(j)] = "none" /\ clientConnFd'[Rival(j)] = "none"
    BY <1>1, <1>5, <1>6, <1>8, <2>2, <2>3
  <2> QED  BY <1>5, <2>4 DEF Invited
<1>14. PointsAfterStart'
  BY <1>2, <1>5 DEF PointsAfterStart
<1>15. \A r \in Peers : Descriptors(r)' /\ OneTurn(r, Rival(r))'
  BY <1>1, <1>10, <1>11, <1>12
<1> QED  BY <1>9, <1>13, <1>14, <1>15 DEF Inv

LEMMA MakePlayInv ==
    ASSUME Inv, NEW p \in Peers, NEW cell \in Typed, MakePlay(p, cell) PROVE Inv'
<1> DEFINE played  == setPlay(board[p], cell, clientPiece[p])
           outcome == checkWin(played)
           box     == Written(p, Send(cell))
           result  == Result(outcome, clientPiece[p])
<1>1. /\ status[p] = "on_match" /\ MayPlay(p, cell)
      /\ match' = [match EXCEPT !.board[cell] = clientPiece[p], !.mover = Rival(p)]
      /\ early' = (early \/ clientConnFd[p] = "none")
      /\ UNCHANGED <<invitation, started, matches>>
  BY DEF MakePlay
<1>2. cell \in Cells /\ Types /\ Descriptors(p)
  BY PeersAssumption DEF Inv
<1>3. match' \in MatchStates
  <2>1. /\ match \in MatchStates /\ clientPiece[p] \in Marks /\ Rival(p) \in Peers
    BY <1>2, RivalFacts DEF Types
  <2>2. [match.board EXCEPT ![cell] = clientPiece[p]] \in Boards
    BY <1>2, <2>1 DEF MatchStates, Boards
  <2>3. match' = [match EXCEPT !.board = [match.board EXCEPT ![cell] = clientPiece[p]],
                              !.mover = Rival(p)]
    BY <1>1, <2>1 DEF MatchStates
  <2> QED  BY <2>1, <2>2, <2>3 DEF MatchStates
<1>4. early' \in BOOLEAN
  BY <1>1, Zenon
<1>5. CASE /\ outcome = "In_Progress"
           /\ board' = [board EXCEPT ![p] = played]
           /\ isTurn' = [isTurn EXCEPT ![p] = FALSE]
           /\ inbox' = box
           /\ sock' = AfterWrite(p)
           /\ UNCHANGED <<status, clientPiece, mainVars, left, reported>>
  <2>1. UNCHANGED <<status, clientPiece, mainVars, left, reported, invitation, started,
                    matches>>
    BY <1>1, <1>5
  <2> QED  BY <1>1, <1>2, <1>3, <1>4, <1>5, <2>1, PlayInv
<1>6. CASE outcome # "In_Progress" /\ Finish(p, result, box)
  <2>1. result \in Results
    BY ResultFacts
  <2>2. p \in started
    <3>1. ~FewMarks(board[p])
      BY <1>2, <1>6, TwoMarksGoOn DEF Types
    <3>2. isTurn[p]
      BY <1>1 DEF MayPlay
    <3>3. clientConnFd[p] \in {"none", "conn"}
      BY <1>2 DEF Types
    <3> QED  BY <1>1, <1>2, <3>1, <3>2, <3>3 DEF Descriptors
  <2>3. Send(cell) \in Messages
    BY <1>2 DEF Messages
  <2>4. box \in [Peers -> Seq(Messages)] /\ Len(box[Rival(p)]) <= 2
    BY <1>1, <2>3, WrittenFacts
  <2> HIDE DEF result, box
  <2> QED  BY <1>1, <1>3, <1>4, <1>6, <2>1, <2>2, <2>4, FinishInv
<1> QED  BY <1>5, <1>6 DEF MakePlay

\* A play of the rival is read, and the game goes on.
LEMMA ReadPlayInv ==
    ASSUME Inv, NEW p \in Peers, NEW cell \in Cells,
           pollFd[p] = "conn", ~isAcceptingConn[p], clientConnFd[p] = "conn",
           inbox[p] # <<>>,
           board' = [board EXCEPT
                       ![p] = setPlay(board[p], cell, Opposite(clientPiece[p]))],
           isTurn' = [isTurn EXCEPT ![p] = TRUE],
           inbox' = [inbox EXCEPT ![p] = Tail(@)],
           UNCHANGED <<status, clientPiece, mainVars, sock, left, reported,
                       invitation, match, started, early, matches>>
    PROVE  Inv'
<1> DEFINE q == Rival(p)
<1>1. /\ q \in Peers /\ q # p /\ Rival(p) = q /\ Rival(q) = p
      /\ \A r \in Peers : r = p \/ r = q
  BY RivalFacts
<1> HIDE DEF q
<1>2. /\ Types /\ Descriptors(p) /\ Descriptors(q) /\ OneTurn(p, q) /\ OneTurn(q, p)
      /\ Invited /\ PointsAfterStart
  BY <1>1 DEF Inv
<1>3. /\ inbox \in [Peers -> Seq(Messages)]
      /\ Tail(inbox[p]) \in Seq(Messages)
      /\ Len(inbox[p]) \in Nat /\ Len(Tail(inbox[p])) = Len(inbox[p]) - 1
      /\ OnePlay(inbox[p]) => Tail(inbox[p]) = <<>>
  <2>1. inbox \in [Peers -> Seq(Messages)] /\ inbox[p] \in Seq(Messages)
    BY <1>2 DEF Types
  <2>2. OnePlay(inbox[p]) => Tail(inbox[p]) = <<>>
    BY Lengths DEF OnePlay
  <2> HIDE DEF q
  <2> QED  BY <2>1, <2>2, Lengths
<1>4. /\ inbox' \in [Peers -> Seq(Messages)]
      /\ inbox'[p] = Tail(inbox[p]) /\ inbox'[q] = inbox[q]
  BY <1>1, <1>3
<1>5. UNCHANGED <<status, clientConnFd, pollFd, isAcceptingConn, sock, started, reported,
                  invitation>>
  BY DEF mainVars
<1>6. /\ isTurn' \in [Peers -> BOOLEAN] /\ isTurn'[q] = isTurn[q]
  BY <1>1, <1>2 DEF Types
<1>7. /\ board' \in [Peers -> Boards] /\ board'[q] = board[q]
  BY <1>1, <1>2, SetPlayFacts DEF Types, Opposite, Marks, Pieces
<1>8. Types'
  <2>1. /\ clientConnFd' \in [Peers -> {"none", "conn"}]
        /\ pollFd' \in [Peers -> {"none", "listener", "conn"}]
        /\ isAcceptingConn' \in [Peers -> BOOLEAN]
    BY <1>2, <1>5 DEF Types
  <2> QED  BY <1>2, <1>4, <1>6, <1>7, <2>1, Zenon DEF Types
<1>9. status[p] = "on_match"
  BY <1>2 DEF Descriptors
<1>10. Descriptors(p)'
  BY <1>2, <1>5, <1>9 DEF Descriptors
<1>11. Descriptors(q)'
  BY <1>2, <1>5, <1>6, <1>7, SameDescriptors
<1>12. OneTurn(p, q)' /\ OneTurn(q, p)'
  <2>1. Len(inbox'[p]) <= 2 /\ Len(inbox'[q]) <= 2
    BY <1>2, <1>3, <1>4 DEF OneTurn
  <2>2. OnePlay(<<>>)
    BY DEF OnePlay
  <2>3. CASE Linked(p) \/ Linked(q)
    <3>1. /\ OnePlay(inbox[p]) /\ OnePlay(inbox[q])
          /\ Linked(p) => inbox[q] = <<>> /\ ~(status[q] = "on_match" /\ isTurn[q])
          /\ Linked(q) => inbox[q] = <<>> /\ ~isTurn[q]
      BY <1>2, <1>9, <2>3 DEF OneTurn
    <3>2. inbox'[p] = <<>>
      BY <1>3, <1>4, <3>1
    <3> QED  BY <1>4, <1>5, <1>6, <2>1, <2>2, <3>1, <3>2 DEF OneTurn, Linked
  <2>4. CASE ~Linked(p) /\ ~Linked(q)
    BY <1>5, <2>1, <2>4 DEF OneTurn, Linked
  <2> QED  BY <2>3, <2>4
<1>13. Invited'
  <2> DEFINE j == invitation.to
  <2>1. invitation # None =>
          /\ j \in Peers
          /\ status[j] \in {"waiting", "gone"}
          /\ clientConnFd[Rival(j)] = "none"
    BY <1>2 DEF Types, Invited
  <2>2. invitation = None
    BY <1>1, <1>9, <2>1
  <2> QED  BY <1>5, <2>2 DEF Invited
<1>14. PointsAfterStart'
  BY <1>2, <1>5 DEF PointsAfterStart
<1>15. \A r \in Peers : Descriptors(r)' /\ OneTurn(r, Rival(r))'
  BY <1>1, <1>10, <1>11, <1>12
<1> QED  BY <1>8, <1>13, <1>14, <1>15 DEF Inv

LEMMA ReadPeerInv == ASSUME Inv, NEW p \in Peers, ReadPeer(p) PROVE Inv'
<1> DEFINE m       == Head(inbox[p])
           rest    == [inbox EXCEPT ![p] = Tail(@)]
           played  == setPlay(board[p], m.cell, Opposite(clientPiece[p]))
           outcome == checkWin(played)
           result  == Result(outcome, clientPiece[p])
<1>1. /\ status[p] # "gone" /\ pollFd[p] = "conn" /\ ~isAcceptingConn[p]
      /\ UNCHANGED <<invitation, match, started, early, matches>>
  BY DEF ReadPeer
<1>2. Types /\ Descriptors(p) /\ OneTurn(Rival(p), p) /\ Rival(p) \in Peers /\ Rival(p) # p
  BY RivalFacts DEF Inv
<1>3. match' \in MatchStates /\ early' \in BOOLEAN
  <2>1. match \in MatchStates /\ early \in BOOLEAN
    BY <1>2 DEF Types
  <2> QED  BY <1>1, <2>1
<1>4. clientConnFd[p] = "conn" => status[p] = "on_match" /\ p \in started
  BY <1>2 DEF Descriptors
<1>5. inbox \in [Peers -> Seq(Messages)] /\ Len(inbox[Rival(p)]) <= 2
  BY <1>2 DEF Types, OneTurn
<1>6. CASE ReadFails(p)
  <2>1. Die(p)
    BY <1>6 DEF ReadFails
  <2> QED  BY <1>1, <2>1, DieInv
<1>7. CASE ConnectionLost(p)
  <2>1. clientConnFd[p] = "conn" /\ Finish(p, "fail", inbox)
    BY <1>7 DEF ConnectionLost
  <2>2. "fail" \in Results
    BY DEF Results
  <2> QED  BY <1>1, <1>3, <1>4, <1>5, <2>1, <2>2, FinishInv
<1>8. CASE ReadMessage(p)
  <2>1. clientConnFd[p] = "conn" /\ inbox[p] # <<>>
    BY <1>8 DEF ReadMessage
  <2>2. m \in Messages /\ Tail(inbox[p]) \in Seq(Messages)
    <3>1. inbox[p] \in Seq(Messages)
      BY <1>5
    <3> QED  BY <2>1, <3>1, Lengths
  <2>3. m.cell \in Cells
    BY <2>2 DEF Messages, Send, End, Cells
  <2>4. rest \in [Peers -> Seq(Messages)] /\ Len(rest[Rival(p)]) <= 2
    BY <1>2, <1>5, <2>2
  <2>5. CASE /\ board' = [board EXCEPT ![p] = played]
             /\ isTurn' = [isTurn EXCEPT ![p] = TRUE]
             /\ inbox' = rest
             /\ UNCHANGED <<status, clientPiece, mainVars, sock, left, reported>>
    <3>1. UNCHANGED <<status, clientPiece, mainVars, sock, left, reported,
                      invitation, match, started, early, matches>>
      BY <1>1, <2>5
    <3> QED  BY <1>1, <2>1, <2>3, <2>5, <3>1, ReadPlayInv
  <2>6. ASSUME NEW r \in Results, Finish(p, r, rest) PROVE Inv'
    <3> HIDE DEF rest
    <3> QED  BY <1>1, <1>3, <1>4, <2>1, <2>4, <2>6, FinishInv
  <2>7. result \in Results /\ "win" \in Results
    BY ResultFacts DEF Results
  <2>8. CASE Finish(p, result, rest) \/ Finish(p, "win", rest)
    <3> HIDE DEF rest, result
    <3> QED  BY <2>6, <2>7, <2>8
  <2> QED  BY <1>8, <2>5, <2>8 DEF ReadMessage
<1> QED  BY <1>6, <1>7, <1>8 DEF ReadPeer

LEMMA InviteInv == ASSUME Inv, NEW i \in Peers, Invite(i) PROVE Inv'
<1> DEFINE j == Rival(i)
<1>1. /\ j \in Peers /\ j # i /\ Rival(i) = j /\ Rival(j) = i
      /\ \A r \in Peers : r = i \/ r = j
  BY RivalFacts
<1> HIDE DEF j
<1>2. /\ Types /\ Descriptors(i) /\ Descriptors(j)
      /\ OneTurn(i, j) /\ OneTurn(j, i)
  BY <1>1 DEF Inv
<1>3. /\ status[i] = "logged" /\ status[j] = "logged" /\ DrawLots(i)
      /\ status' = [status EXCEPT ![i] = "on_match", ![j] = "waiting"]
      /\ pollFd' = [pollFd EXCEPT ![i] = "listener"]
      /\ isAcceptingConn' = [isAcceptingConn EXCEPT ![i] = TRUE]
      /\ sock' = [sock EXCEPT ![i] = "none"]
      /\ inbox' = [inbox EXCEPT ![i] = <<>>]
      /\ left' = {} /\ reported' = [p \in Peers |-> None]
      /\ started' = {} /\ early' = FALSE
      /\ matches < MaxMatches /\ matches' = matches + 1
      /\ UNCHANGED <<board, clientConnFd>>
  BY <1>1 DEF Invite, j
<1>4. PICK x \in Pieces, first \in Peers :
        /\ clientPiece' = [clientPiece EXCEPT ![i] = x]
        /\ isTurn' = [isTurn EXCEPT ![i] = (first = i)]
        /\ invitation' = [to |-> j, piece |-> Opposite(x), first |-> (first = j)]
        /\ match' = [board |-> NewBoard,
                     piece |-> [p \in Peers |-> IF p = i THEN x ELSE Opposite(x)],
                     mover |-> first]
  BY <1>3 DEF DrawLots, j
<1>5. Opposite(x) \in Pieces
  BY DEF Opposite, Pieces
<1>6. Types'
  <2>1. /\ status' \in [Peers -> {"logged", "waiting", "on_match", "gone"}]
        /\ pollFd' \in [Peers -> {"none", "listener", "conn"}]
        /\ sock' \in [Peers -> {"none", "open", "fin", "reset", "broken"}]
        /\ clientConnFd' \in [Peers -> {"none", "conn"}]
        /\ board' \in [Peers -> Boards]
        /\ clientPiece' \in [Peers -> Marks]
    BY <1>2, <1>3, <1>4 DEF Types, Marks
  <2>2. inbox' \in [Peers -> Seq(Messages)]
    <3>1. <<>> \in Seq(Messages)
      OBVIOUS
    <3> QED  BY <1>2, <1>3, <3>1 DEF Types
  <2>3. /\ isTurn' \in [Peers -> BOOLEAN] /\ isAcceptingConn' \in [Peers -> BOOLEAN]
        /\ early' \in BOOLEAN
    BY <1>2, <1>3, <1>4 DEF Types
  <2>4. invitation' \in [to : Peers, piece : Pieces, first : BOOLEAN]
    BY <1>1, <1>4, <1>5
  <2>5. match' \in MatchStates
    BY <1>4, <1>5, NewBoardFacts DEF MatchStates
  <2>6. matches' \in 0..MaxMatches
    BY <1>2, <1>3, PeersAssumption DEF Types
  <2>7. /\ left' \subseteq Peers /\ started' \subseteq Peers
        /\ reported' \in [Peers -> Results \cup {None}]
    BY <1>3
  <2> QED  BY <2>1, <2>2, <2>3, <2>4, <2>5, <2>6, <2>7, Zenon DEF Types
<1>7. /\ status'[i] = "on_match" /\ status'[j] = "waiting"
      /\ pollFd'[i] = "listener" /\ pollFd'[j] = pollFd[j]
      /\ isAcceptingConn'[i] /\ isAcceptingConn'[j] = isAcceptingConn[j]
      /\ sock'[i] = "none" /\ sock'[j] = sock[j]
      /\ inbox'[i] = <<>> /\ inbox'[j] = inbox[j]
      /\ board' = board /\ clientConnFd' = clientConnFd
      /\ isTurn'[i] = (first = i) /\ isTurn'[j] = isTurn[j]
  BY <1>1, <1>2, <1>3, <1>4 DEF Types
<1>8. /\ clientConnFd[i] = "none" /\ clientConnFd[j] = "none"
      /\ FewMarks(board[i]) /\ FewMarks(board[j])
  BY <1>2, <1>3 DEF Descriptors
<1>9. Descriptors(i)'
  BY <1>7, <1>8 DEF Descriptors
<1>10. Descriptors(j)'
  BY <1>2, <1>3, <1>7, <1>8 DEF Descriptors
<1>11. OneTurn(i, j)' /\ OneTurn(j, i)'
  <2>1. Len(inbox'[i]) <= 2 /\ Len(inbox'[j]) <= 2
    BY <1>2, <1>7, Lengths DEF OneTurn
  <2> QED  BY <1>7, <2>1 DEF OneTurn, Linked
<1>12. Invited'
  <2>1. /\ invitation'.to = j /\ invitation'.first = (first = j)
        /\ Rival(invitation'.to) = i
    BY <1>1, <1>4
  <2>2. ~(invitation'.first /\ isTurn'[i])
    BY <1>1, <1>7, <2>1
  <2> QED  BY <1>7, <1>8, <2>1, <2>2 DEF Invited
<1>13. PointsAfterStart'
  <2>1. \A p \in Peers : reported'[p] = None
    BY <1>3
  <2>2. None \notin {"win", "draw"}
    BY PeersAssumption
  <2> QED  BY <2>1, <2>2 DEF PointsAfterStart
<1>14. \A r \in Peers : Descriptors(r)' /\ OneTurn(r, Rival(r))'
  BY <1>1, <1>9, <1>10, <1>11
<1> QED  BY <1>6, <1>12, <1>13, <1>14 DEF Inv

LEMMA ConnectInv == ASSUME Inv, NEW j \in Peers, Connect(j) PROVE Inv'
<1> DEFINE i == Rival(j)
<1>1. /\ i \in Peers /\ i # j /\ Rival(i) = j /\ Rival(j) = i
      /\ \A r \in Peers : r = i \/ r = j
  BY RivalFacts
<1> HIDE DEF i
<1>2. /\ Types /\ Descriptors(i) /\ Descriptors(j) /\ PointsAfterStart
      /\ OneTurn(i, j) /\ OneTurn(j, i) /\ Invited
  BY <1>1 DEF Inv
<1>3. /\ status[j] = "waiting" /\ invitation # None /\ invitation.to = j
      /\ invitation' = None
      /\ UNCHANGED <<board, isAcceptingConn, match, reported, early, matches>>
  BY DEF Connect
<1>4. /\ invitation.piece \in Pieces /\ invitation.first \in BOOLEAN
      /\ ~(invitation.first /\ isTurn[i])
  BY <1>1, <1>2, <1>3 DEF Types, Invited
<1>5. Invited'
  BY <1>3 DEF Invited
<1>6. CASE /\ pollFd[i] = "listener"
           /\ JoinMatch(j)
           /\ clientConnFd' = [clientConnFd EXCEPT ![j] = "conn"]
           /\ pollFd' = [pollFd EXCEPT ![j] = "conn"]
           /\ sock' = [p \in Peers |-> "open"]
           /\ inbox' = [p \in Peers |-> <<>>]
           /\ started' = started \cup {j}
           /\ UNCHANGED left
  <2>1. /\ status' = [status EXCEPT ![j] = "on_match"]
        /\ clientPiece' = [clientPiece EXCEPT ![j] = invitation.piece]
        /\ isTurn' = [isTurn EXCEPT ![j] = invitation.first]
    BY <1>6 DEF JoinMatch
  <2>2. /\ status'[j] = "on_match" /\ status'[i] = status[i]
        /\ isTurn'[j] = invitation.first /\ isTurn'[i] = isTurn[i]
        /\ clientConnFd'[j] = "conn" /\ clientConnFd'[i] = clientConnFd[i]
        /\ pollFd'[j] = "conn" /\ pollFd'[i] = pollFd[i]
        /\ inbox'[i] = <<>> /\ inbox'[j] = <<>>
        /\ board' = board /\ isAcceptingConn' = isAcceptingConn
        /\ j \in started' /\ started \subseteq started'
    BY <1>1, <1>2, <1>3, <1>6, <2>1 DEF Types
  <2>3. Types'
    <3>1. /\ status' \in [Peers -> {"logged", "waiting", "on_match", "gone"}]
          /\ clientPiece' \in [Peers -> Marks]
          /\ clientConnFd' \in [Peers -> {"none", "conn"}]
          /\ pollFd' \in [Peers -> {"none", "listener", "conn"}]
          /\ sock' \in [Peers -> {"none", "open", "fin", "reset", "broken"}]
      BY <1>2, <1>4, <1>6, <2>1 DEF Types, Marks
    <3>2. isTurn' \in [Peers -> BOOLEAN]
      BY <1>2, <1>4, <2>1 DEF Types
    <3>3. inbox' \in [Peers -> Seq(Messages)]
      BY <1>6
    <3>4. started' \subseteq Peers /\ left' \subseteq Peers
      BY <1>2, <1>6 DEF Types
    <3> QED  BY <1>2, <1>3, <3>1, <3>2, <3>3, <3>4, Zenon DEF Types
  <2>4. Descriptors(j)'
    BY <1>2, <1>3, <2>2, NewBoardFacts DEF Descriptors
  <2>5. Descriptors(i)'
    BY <1>2, <2>2, SameDescriptors
  <2>6. OneTurn(i, j)' /\ OneTurn(j, i)'
    BY <1>4, <2>2, Lengths DEF OneTurn, OnePlay
  <2>7. PointsAfterStart'
    BY <1>2, <1>3, <2>2 DEF PointsAfterStart
  <2>8. \A r \in Peers : Descriptors(r)' /\ OneTurn(r, Rival(r))'
    BY <1>1, <2>4, <2>5, <2>6
  <2> QED  BY <1>5, <2>3, <2>7, <2>8 DEF Inv
<1>7. CASE /\ status' = [status EXCEPT ![j] = "gone"]
           /\ LeaveMatch(j)
           /\ UNCHANGED <<clientPiece, isTurn, clientConnFd, pollFd,
                          socketVars, started>>
  <2>1. status'[j] = "gone" /\ status'[i] = status[i]
    BY <1>1, <1>2, <1>7 DEF Types
  <2>2. /\ UNCHANGED <<board, isAcceptingConn, reported, isTurn, clientConnFd, pollFd,
                       sock, inbox, started>>
    BY <1>3, <1>7 DEF socketVars
  <2>3. Types'
    <3>1. /\ status' \in [Peers -> {"logged", "waiting", "on_match", "gone"}]
          /\ left' \subseteq Peers
      BY <1>2, <1>7, LeaveMatchFacts DEF Types
    <3>2. /\ isTurn' \in [Peers -> BOOLEAN] /\ isAcceptingConn' \in [Peers -> BOOLEAN]
          /\ early' \in BOOLEAN
      BY <1>2, <1>3, <2>2 DEF Types
    <3>3. clientPiece' = clientPiece /\ match' = match /\ matches' = matches
      BY <1>3, <1>7
    <3> QED  BY <1>2, <1>3, <2>2, <3>1, <3>2, <3>3, Zenon DEF Types
  <2>4. Descriptors(j)'
    BY <1>2, <1>3, <2>1, <2>2 DEF Descriptors
  <2>5. Descriptors(i)'
    BY <1>2, <2>1, <2>2, SameDescriptors
  <2>6. OneTurn(i, j)' /\ OneTurn(j, i)'
    BY <1>2, <2>1, <2>2 DEF OneTurn, Linked, OnePlay
  <2>7. PointsAfterStart'
    BY <1>2, <2>2 DEF PointsAfterStart
  <2>8. \A r \in Peers : Descriptors(r)' /\ OneTurn(r, Rival(r))'
    BY <1>1, <2>4, <2>5, <2>6
  <2> QED  BY <1>5, <2>3, <2>7, <2>8 DEF Inv
<1> QED  BY <1>6, <1>7 DEF Connect, i

LEMMA AcceptInv == ASSUME Inv, NEW i \in Peers, Accept(i) PROVE Inv'
<1> DEFINE q == Rival(i)
<1>1. /\ q \in Peers /\ q # i /\ Rival(i) = q /\ Rival(q) = i
      /\ \A r \in Peers : r = i \/ r = q
  BY RivalFacts
<1> HIDE DEF q
<1>2. /\ Types /\ Descriptors(i) /\ Descriptors(q) /\ PointsAfterStart
      /\ OneTurn(i, q) /\ OneTurn(q, i) /\ Invited
  BY <1>1 DEF Inv
<1>3. /\ isAcceptingConn[i]
      /\ isAcceptingConn' = [isAcceptingConn EXCEPT ![i] = FALSE]
      /\ UNCHANGED <<board, isTurn, clientPiece, sock, inbox, invitation,
                     match, reported, early, matches>>
  BY DEF Accept, socketVars
<1>4. /\ isAcceptingConn' \in [Peers -> BOOLEAN] /\ isTurn' \in [Peers -> BOOLEAN]
      /\ early' \in BOOLEAN
      /\ ~isAcceptingConn'[i] /\ isAcceptingConn'[q] = isAcceptingConn[q]
  BY <1>1, <1>2, <1>3 DEF Types
<1>5. invitation # None => invitation.to \in Peers
  BY <1>2 DEF Types
<1>6. CASE /\ pollFd[i] = "listener" /\ sock[i] # "none"
           /\ clientConnFd' = [clientConnFd EXCEPT ![i] = "conn"]
           /\ pollFd' = [pollFd EXCEPT ![i] = "conn"]
           /\ started' = started \cup {i}
           /\ UNCHANGED <<status, left>>
  <2>1. /\ clientConnFd'[i] = "conn" /\ clientConnFd'[q] = clientConnFd[q]
        /\ pollFd'[i] = "conn" /\ pollFd'[q] = pollFd[q]
        /\ i \in started' /\ started \subseteq started'
        /\ UNCHANGED <<status, board, isTurn, sock, inbox, reported, invitation>>
    BY <1>1, <1>2, <1>3, <1>6 DEF Types
  <2>2. status[i] = "on_match"
    BY <1>2, <1>6 DEF Descriptors
  <2>3. Types'
    <3>1. /\ clientConnFd' \in [Peers -> {"none", "conn"}]
          /\ pollFd' \in [Peers -> {"none", "listener", "conn"}]
          /\ started' \subseteq Peers /\ left' = left
      BY <1>2, <1>6 DEF Types
    <3> QED  BY <1>2, <1>3, <1>4, <2>1, <3>1, Zenon DEF Types
  <2>4. Descriptors(i)'
    BY <1>4, <2>1, <2>2 DEF Descriptors
  <2>5. Descriptors(q)'
    BY <1>2, <1>4, <2>1, SameDescriptors
  <2>6. OneTurn(i, q)' /\ OneTurn(q, i)'
    BY <1>2, <2>1 DEF OneTurn, Linked, OnePlay
  <2>7. Invited'
    BY <1>1, <1>2, <1>5, <1>6, <2>1, <2>2 DEF Invited
  <2>8. PointsAfterStart'
    BY <1>2, <2>1 DEF PointsAfterStart
  <2>9. \A r \in Peers : Descriptors(r)' /\ OneTurn(r, Rival(r))'
    BY <1>1, <2>4, <2>5, <2>6
  <2> QED  BY <2>3, <2>7, <2>8, <2>9 DEF Inv
<1>7. CASE /\ pollFd[i] = "conn" /\ Readable(i)
           /\ clientConnFd' = [clientConnFd EXCEPT ![i] = "none"]
           /\ status' = [status EXCEPT ![i] = "logged"]
           /\ LeaveMatch(i)
           /\ UNCHANGED <<pollFd, started>>
  <2>1. /\ clientConnFd'[i] = "none" /\ clientConnFd'[q] = clientConnFd[q]
        /\ status'[i] = "logged" /\ status'[q] = status[q]
        /\ UNCHANGED <<pollFd, board, isTurn, sock, inbox, reported, invitation, started>>
    BY <1>1, <1>2, <1>3, <1>7 DEF Types
  <2>2. status[i] = "on_match" /\ FewMarks(board[i])
    BY <1>2, <1>3, <1>7 DEF Descriptors
  <2>3. Types'
    <3>1. /\ clientConnFd' \in [Peers -> {"none", "conn"}]
          /\ status' \in [Peers -> {"logged", "waiting", "on_match", "gone"}]
          /\ left' \subseteq Peers
      BY <1>2, <1>7, LeaveMatchFacts DEF Types
    <3> QED  BY <1>2, <1>3, <1>4, <2>1, <3>1, Zenon DEF Types
  <2>4. Descriptors(i)'
    BY <1>4, <1>7, <2>1, <2>2 DEF Descriptors
  <2>5. Descriptors(q)'
    BY <1>2, <1>4, <2>1, SameDescriptors
  <2>6. OneTurn(i, q)' /\ OneTurn(q, i)'
    BY <1>2, <2>1 DEF OneTurn, Linked, OnePlay
  <2>7. Invited'
    BY <1>1, <1>2, <1>5, <2>1, <2>2 DEF Invited
  <2>8. PointsAfterStart'
    BY <1>2, <2>1 DEF PointsAfterStart
  <2>9. \A r \in Peers : Descriptors(r)' /\ OneTurn(r, Rival(r))'
    BY <1>1, <2>4, <2>5, <2>6
  <2> QED  BY <2>3, <2>7, <2>8, <2>9 DEF Inv
<1> QED  BY <1>6, <1>7 DEF Accept

-----------------------------------------------------------------------------
(***************************************************************************)
(* Theorems.                                                               *)
(***************************************************************************)

LEMMA NextInv == Inv /\ [Next]_vars => Inv'
<1> SUFFICES ASSUME Inv, [Next]_vars PROVE Inv'
  OBVIOUS
<1>1. CASE UNCHANGED vars
  <2>1. /\ UNCHANGED <<status, board, clientPiece, clientConnFd, pollFd>>
        /\ UNCHANGED <<sock, inbox, invitation, match, left, reported, started, matches>>
        /\ isTurn' = isTurn /\ isAcceptingConn' = isAcceptingConn /\ early' = early
    BY <1>1 DEF vars, clientVars, mainVars, socketVars, historyVars
  <2>2. Types'
    <3>1. /\ isTurn' \in [Peers -> BOOLEAN] /\ isAcceptingConn' \in [Peers -> BOOLEAN]
          /\ early' \in BOOLEAN
      BY <2>1 DEF Inv, Types
    <3> QED  BY <2>1, <3>1, Zenon DEF Inv, Types
  <2>3. ASSUME NEW p \in Peers PROVE Descriptors(p)' /\ OneTurn(p, Rival(p))'
    BY <2>1 DEF Inv, Descriptors, OneTurn, Linked, OnePlay
  <2>4. Invited' /\ PointsAfterStart'
    BY <2>1 DEF Inv, Invited, PointsAfterStart
  <2> QED  BY <2>2, <2>3, <2>4 DEF Inv
<1>2. ASSUME NEW p \in Peers,
             \/ Invite(p) \/ Connect(p) \/ Accept(p)
             \/ \E cell \in Typed : MakePlay(p, cell)
             \/ GiveUp(p) \/ WriteFails(p) \/ ReadPeer(p) \/ Kill(p)
      PROVE  Inv'
  BY <1>2, InviteInv, ConnectInv, AcceptInv, MakePlayInv, GiveUpInv, KillInv,
     ReadPeerInv
<1> QED  BY <1>1, <1>2, Zenon DEF Next

\* The state of two clients in a match keeps its types, and no client ever has
\* more than a play and an END to read (main.cpp, parseSend, parseClientMessage),
\* for any number of matches one after the other.
THEOREM MatchTypes == Spec => []TypeOK
<1>1. Init => Inv
  BY InitInv
<1>2. Inv /\ [Next]_vars => Inv'
  BY NextInv
<1>3. Inv => TypeOK
  BY InvImpliesTypeOK
<1> QED  BY <1>1, <1>2, <1>3, PTL DEF Spec

\* Who reports points has reported the start of this match before: an inviter
\* that plays before anybody has connected (clientConnFd of main.cpp is not set)
\* cannot win, even on a board that an earlier match left behind.
THEOREM StartBeforePoints == Spec => []PointsAfterStart
<1>1. Init => Inv
  BY InitInv
<1>2. Inv /\ [Next]_vars => Inv'
  BY NextInv
<1>3. Inv => PointsAfterStart
  BY DEF Inv
<1> QED  BY <1>1, <1>2, <1>3, PTL DEF Spec
-----------------------------------------------------------------------------
(***************************************************************************)
(* A play on a board on which nobody has won.                              *)
(***************************************************************************)

LEMMA NobodyHasWon ==
    ASSUME NEW b, Ruling(b) = "In_Progress", NEW x \in Pieces
    PROVE  ~HasLine(b, x)
BY DEF Ruling, Winner

LEMMA LinesOfCells == \A l \in Lines : l \subseteq Cells
BY DEF Lines, Cells

\* Only the piece that is played can win, and checkWin follows the rules.
LEMMA PlayDecides ==
    ASSUME NEW b \in Boards, Ruling(b) = "In_Progress",
           NEW c \in Cells, NEW x \in Pieces
    PROVE  /\ [b EXCEPT ![c] = x] \in Boards
           /\ ~(HasLine([b EXCEPT ![c] = x], "X") /\ HasLine([b EXCEPT ![c] = x], "O"))
           /\ checkWin([b EXCEPT ![c] = x]) = Ruling([b EXCEPT ![c] = x])
           /\ Ruling([b EXCEPT ![c] = x]) \in {"In_Progress", "Draw", Winner(x)}
<1>1. PICK s : s = [b EXCEPT ![c] = x]
  OBVIOUS
<1>2. s \in Boards
  BY <1>1 DEF Boards, Marks
<1>3. \A y \in Pieces : y # x => ~HasLine(s, y)
  <2> SUFFICES ASSUME NEW y \in Pieces, y # x, NEW l \in Lines, \A d \in l : s[d] = y
               PROVE  FALSE
    BY DEF HasLine
  <2>1. s[c] = x /\ \A d \in Cells : d # c => s[d] = b[d]
    BY <1>1 DEF Boards
  <2>2. \A d \in l : b[d] = y
    BY <2>1, LinesOfCells
  <2> QED  BY <2>2, NobodyHasWon DEF HasLine
<1>4. ~(HasLine(s, "X") /\ HasLine(s, "O"))
  BY <1>3 DEF Pieces
<1>5. checkWin(s) = Ruling(s)
  BY <1>2, <1>4, CheckWinFollowsTheRules
<1>6. Ruling(s) \in {"In_Progress", "Draw", Winner(x)}
  <2>1. CASE \E y \in Pieces : HasLine(s, y)
    <3>1. (CHOOSE y \in Pieces : HasLine(s, y)) = x
      BY <1>3, <2>1
    <3> QED  BY <2>1, <3>1 DEF Ruling
  <2> QED  BY <2>1 DEF Ruling
<1> QED  BY <1>1, <1>2, <1>4, <1>5, <1>6

LEMMA NewBoardGoesOn ==
    /\ Ruling(NewBoard) = "In_Progress"
    /\ ~(HasLine(NewBoard, "X") /\ HasLine(NewBoard, "O"))
<1>1. \A d \in Cells : NewBoard[d] = "Empty"
  BY DEF NewBoard
<1>2. /\ <<0, 0>> \in Cells /\ \A i \in 0..2 : <<0, i>> \in Cells /\ <<i, 0>> \in Cells
      /\ <<2, 0>> \in Cells
  BY DEF Cells
<1>3. ASSUME NEW x \in Pieces PROVE ~HasLine(NewBoard, x)
  <2>1. x # "Empty"
    BY DEF Pieces
  <2> QED  BY <1>1, <1>2, <2>1, EightLines
<1>4. \E d \in Cells : NewBoard[d] = "Empty"
  BY <1>1, <1>2
<1> QED  BY <1>3, <1>4 DEF Ruling, Pieces

\* The referee rules by the same rules.
LEMMA RefereeRules ==
    /\ \A b : Game!Ruling(b) = Ruling(b)
    /\ \A x : Game!Winner(x) = Winner(x)
    /\ \A p : Game!Rival(p) = Rival(p)
    /\ Game!NewBoard = NewBoard /\ Game!Cells = Cells /\ Game!Pieces = Pieces
<1>1. Game!Cells = Cells /\ Game!Pieces = Pieces
  BY DEF Game!Cells, Cells, Game!Pieces, Pieces
<1>2. \A x : Game!Winner(x) = Winner(x)
  BY DEF Game!Winner, Winner
<1>3. \A b, x : Game!HasLine(b, x) <=> HasLine(b, x)
  BY DEF Game!HasLine, HasLine, Game!Lines, Lines
<1>4. \A b : Game!Ruling(b) = Ruling(b)
  <2> TAKE b
  <2>1. (CHOOSE p \in Game!Pieces : Game!HasLine(b, p)) = CHOOSE p \in Pieces : HasLine(b, p)
    BY DEF Game!HasLine, HasLine, Game!Lines, Lines, Game!Pieces, Pieces
  <2> QED  BY <1>1, <1>2, <1>3, <2>1 DEF Game!Ruling, Ruling
<1>5. Game!NewBoard = NewBoard
  BY DEF Game!NewBoard, NewBoard, Game!Cells, Cells
<1>6. \A p : Game!Rival(p) = Rival(p)
  BY DEF Game!Rival, Rival
<1> QED  BY <1>1, <1>2, <1>4, <1>5, <1>6

-----------------------------------------------------------------------------
(***************************************************************************)
(* The one game.                                                           *)
(***************************************************************************)

\* Every match begins on fresh boards: nobody begins one with the board that a
\* failed accept has left behind (main.cpp:311).
FreshStart == matches' # matches => \A p \in Peers : board[p] = NewBoard

GoesOn == Ruling(match.board) = "In_Progress"

Sides ==
    match.mover # None =>
        \A p \in Peers : /\ match.piece[p] \in Pieces
                         /\ match.piece[Rival(p)] = Opposite(match.piece[p])

OneWinner == ~(HasLine(match.board, "X") /\ HasLine(match.board, "O"))

\* While nobody is connected, the inviter may have made one play, its last.
Pending ==
    invitation # None =>
        /\ match.mover # None /\ GoesOn
        /\ invitation.piece = match.piece[invitation.to]
        /\ inbox[Rival(invitation.to)] = <<>>
        /\ IF early THEN ~invitation.first
           ELSE /\ match.board = NewBoard
                /\ invitation.first <=> match.mover = invitation.to

\* Who plays is in the match, with its piece, and two that play are connected.
Engaged(p, q) ==
    /\ Playing(p) <=> status[p] \in {"waiting", "on_match"}
    /\ status[p] = "waiting" =>
          board[p] = NewBoard /\ invitation # None /\ invitation.to = p
    /\ status[p] = "on_match" => clientPiece[p] = match.piece[p]
    /\ status[p] = "on_match" /\ status[q] = "on_match" => sock[p] = "open"

\* p has read all plays of q: its board is that of the game, unless a play was
\* lost, after which nobody is on turn any more.
UpToDate(p, q) ==
    /\ inbox[p] = <<>> \/ (inbox[p] = <<End>> /\ reported[q] = "lost")
    /\ GoesOn /\ reported[q] \in {None, "lost"}
    /\ IF early THEN ~isTurn[p]
       ELSE board[p] = match.board /\ (isTurn[p] <=> match.mover = p)

\* A play of q is on its way to p; it may have ended the game.
PlayToRead(p, q) ==
    \E c \in Cells :
        /\ inbox[p] = <<Send(c)>> \/ (inbox[p] = <<Send(c), End>> /\ reported[q] = "lost")
        /\ ~early /\ ~isTurn[p] /\ match.mover = p
        /\ board[p][c] = "Empty" /\ Ruling(board[p]) = "In_Progress"
        /\ match.board = [board[p] EXCEPT ![c] = match.piece[q]]
        /\ IF GoesOn THEN reported[q] \in {None, "lost"}
           ELSE reported[q] = IF Ruling(match.board) = "Draw" THEN "draw" ELSE "win"

InGame(p, q) == status[p] = "on_match" => UpToDate(p, q) \/ PlayToRead(p, q)

GameInv ==
    /\ Sides /\ OneWinner /\ Pending /\ ResultsAgree
    /\ \A p \in Peers : Engaged(p, Rival(p)) /\ InGame(p, Rival(p))

LEMMA NoneFacts == None \notin Results /\ None \notin Peers
BY PeersAssumption DEF Results

LEMMA Twos ==
    ASSUME NEW x, NEW y
    PROVE  /\ Append(<<x>>, y) = <<x, y>>
           /\ Head(<<x, y>>) = x /\ Tail(<<x, y>>) = <<y>> /\ <<x, y>> # <<>>
<1>1. Append(<<x>>, y) = <<x, y>>
  <2>1. PICK S : x \in S /\ y \in S
    <3>1. x \in {x, y} /\ y \in {x, y}
      OBVIOUS
    <3> QED  BY <3>1
  <2>2. PICK s \in Seq(S) : s = <<x>>
    <3>1. <<x>> \in Seq(S)
      BY <2>1
    <3> QED  BY <3>1
  <2>3. Len(s) = 1 /\ s[1] = x
    BY <2>2
  <2>4. Append(s, y) \in Seq(S)
    BY <2>1, <2>2
  <2>5. Len(Append(s, y)) = 2 /\ Append(s, y)[1] = x /\ Append(s, y)[2] = y
    BY <2>1, <2>2, <2>3
  <2>6. \A t \in Seq(S) : Len(t) = 2 => t = <<t[1], t[2]>>
    OBVIOUS
  <2> QED  BY <2>2, <2>4, <2>5, <2>6
<1>2. Head(<<x, y>>) = x /\ <<x, y>> # <<>>
  OBVIOUS
<1>3. Tail(<<x, y>>) = <<y>>
  OBVIOUS
<1> QED  BY <1>1, <1>2, <1>3

LEMMA InitGame == Init => GameInv
<1> SUFFICES ASSUME Init PROVE GameInv
  OBVIOUS
<1>1. /\ match.mover = None /\ match.board = NewBoard /\ invitation = None
      /\ \A p \in Peers : status[p] = "logged" /\ reported[p] = None
  BY DEF Init, NoMatch
<1>2. Sides /\ OneWinner /\ Pending
  BY <1>1, NewBoardGoesOn DEF Sides, OneWinner, Pending
<1>3. ResultsAgree
  BY <1>1, RivalFacts, NoneFacts DEF ResultsAgree
<1>4. ASSUME NEW p \in Peers PROVE Engaged(p, Rival(p)) /\ InGame(p, Rival(p))
  BY <1>1 DEF Engaged, InGame, Playing
<1> QED  BY <1>2, <1>3, <1>4 DEF GameInv

\* Who is on turn knows the game, and its rival waits for the play.
LEMMA OnTurn ==
    ASSUME Inv, GameInv, NEW p \in Peers, NEW q \in Peers, q = Rival(p),
           status[p] = "on_match", isTurn[p]
    PROVE  /\ ~early /\ GoesOn
           /\ board[p] = match.board /\ match.mover = p
           /\ clientPiece[p] = match.piece[p] /\ match.piece[p] \in Pieces
           /\ reported[p] = None /\ p \notin left /\ reported[q] \in {None, "lost"}
           /\ inbox[p] = <<>> \/ (inbox[p] = <<End>> /\ reported[q] = "lost")
           /\ status[q] = "on_match" =>
                /\ sock[p] = "open" /\ inbox[q] = <<>>
                /\ ~isTurn[q] /\ board[q] = match.board
<1>1. /\ q # p /\ Rival(p) = q /\ Rival(q) = p
  BY RivalFacts
<1>2. /\ Engaged(p, q) /\ InGame(p, q) /\ Engaged(q, p) /\ InGame(q, p) /\ Sides
  BY <1>1 DEF GameInv
<1>3. UpToDate(p, q)
  BY <1>2 DEF InGame, PlayToRead
<1>4. Playing(p) /\ match.mover # None /\ reported[p] = None /\ p \notin left
  BY <1>2 DEF Engaged, Playing
<1>5. /\ ~early /\ GoesOn /\ board[p] = match.board /\ match.mover = p
      /\ reported[q] \in {None, "lost"}
      /\ inbox[p] = <<>> \/ (inbox[p] = <<End>> /\ reported[q] = "lost")
  BY <1>3 DEF UpToDate
<1>6. clientPiece[p] = match.piece[p] /\ match.piece[p] \in Pieces
  BY <1>2, <1>4 DEF Engaged, Sides
<1>7. ASSUME status[q] = "on_match"
      PROVE  /\ sock[p] = "open" /\ inbox[q] = <<>>
             /\ ~isTurn[q] /\ board[q] = match.board
  <2>1. sock[p] = "open"
    BY <1>2, <1>7 DEF Engaged
  <2>2. UpToDate(q, p)
    BY <1>1, <1>2, <1>5, <1>7 DEF InGame, PlayToRead
  <2>3. reported[p] # "lost"
    BY <1>4, NoneFacts DEF Results
  <2>4. inbox[q] = <<>>
    BY <2>2, <2>3 DEF UpToDate
  <2>5. board[q] = match.board /\ (isTurn[q] <=> match.mover = q)
    BY <1>5, <2>2 DEF UpToDate
  <2> QED  BY <1>1, <1>5, <2>1, <2>4, <2>5
<1> QED  BY <1>4, <1>5, <1>6, <1>7

\* Who reads its messages, plays and reports is as it was.
LEMMA SameGame ==
    ASSUME GameInv,
           UNCHANGED <<status, board, isTurn, clientPiece, sock, inbox, invitation, match,
                       left, reported, early>>
    PROVE  GameInv'
<1>1. Sides' /\ OneWinner' /\ Pending' /\ ResultsAgree'
  BY DEF GameInv, Sides, OneWinner, Pending, ResultsAgree, GoesOn
<1>2. ASSUME NEW p \in Peers, NEW q
      PROVE  /\ Engaged(p, q)' <=> Engaged(p, q)
             /\ UpToDate(p, q)' <=> UpToDate(p, q)
             /\ PlayToRead(p, q) => PlayToRead(p, q)'
  <2>1. Engaged(p, q)' <=> Engaged(p, q)
    BY DEF Engaged, Playing
  <2>2. UpToDate(p, q)' <=> UpToDate(p, q)
    BY DEF UpToDate, GoesOn
  <2>3. PlayToRead(p, q) => PlayToRead(p, q)'
    BY DEF PlayToRead, GoesOn
  <2> QED  BY <2>1, <2>2, <2>3
<1>3. \A p \in Peers : Engaged(p, Rival(p))' /\ InGame(p, Rival(p))'
  BY <1>2 DEF GameInv, InGame
<1> QED  BY <1>1, <1>3 DEF GameInv

\* A step of p after which it is not in the match any more, and the game is as
\* it was; q may have been told that p gave up.
LEMMA LeavesGame ==
    ASSUME Inv, GameInv, NEW p \in Peers, NEW q \in Peers, q = Rival(p),
           status'[p] \in {"logged", "gone"}, ~Playing(p)',
           status'[q] = status[q], board'[q] = board[q], isTurn'[q] = isTurn[q],
           clientPiece'[q] = clientPiece[q], reported'[q] = reported[q],
           q \in left' <=> q \in left,
           inbox'[p] \in {<<>>, inbox[p]},
           \/ inbox'[q] = inbox[q]
           \/ /\ inbox'[q] = Append(inbox[q], End)
              /\ reported'[p] = "lost" /\ status[p] = "on_match",
           status[q] = "on_match" =>
              reported'[p] = reported[p] \/ (reported'[p] = "lost" /\ reported[p] = None),
           ResultsAgree',
           UNCHANGED <<invitation, match, early>>
    PROVE  GameInv'
<1>1. /\ q # p /\ Rival(p) = q /\ Rival(q) = p
      /\ \A r \in Peers : r = p \/ r = q
  BY RivalFacts
<1>2. /\ Types /\ Invited /\ Engaged(p, q) /\ InGame(p, q) /\ Engaged(q, p)
      /\ InGame(q, p) /\ Sides /\ OneWinner /\ Pending
  BY <1>1 DEF GameInv, Inv
<1>3. Sides' /\ OneWinner'
  BY <1>2 DEF Sides, OneWinner
<1>4. Pending'
  <2> SUFFICES ASSUME invitation # None
               PROVE  inbox'[Rival(invitation.to)] = <<>>
    BY <1>2 DEF Pending, GoesOn
  <2>1. invitation.to \in Peers /\ status[invitation.to] \in {"waiting", "gone"}
    BY <1>2 DEF Types, Invited
  <2>2. inbox[Rival(invitation.to)] = <<>>
    BY <1>2 DEF Pending
  <2>3. CASE invitation.to = q
    BY <1>1, <2>2, <2>3
  <2>4. CASE invitation.to = p
    BY <1>1, <2>1, <2>2, <2>4
  <2> QED  BY <1>1, <2>1, <2>3, <2>4
<1>5. Engaged(p, q)' /\ InGame(p, q)'
  BY DEF Engaged, InGame
<1>6. Engaged(q, p)'
  <2>1. Playing(q)' <=> Playing(q)
    BY DEF Playing
  <2> QED  BY <1>2, <2>1 DEF Engaged
<1>7. InGame(q, p)'
  <2> SUFFICES ASSUME status[q] = "on_match" PROVE (UpToDate(q, p) \/ PlayToRead(q, p))'
    BY DEF InGame
  <2>1. reported'[p] = reported[p] \/ (reported'[p] = "lost" /\ reported[p] = None)
    OBVIOUS
  <2>2. "lost" # None
    BY NoneFacts DEF Results
  <2>3. status[p] = "on_match" => reported[p] = None
    BY <1>2 DEF Engaged, Playing
  <2>4. CASE UpToDate(q, p)
    <3>1. inbox'[q] = <<>> \/ (inbox'[q] = <<End>> /\ reported'[p] = "lost")
      BY <2>1, <2>2, <2>3, <2>4, Lengths DEF UpToDate
    <3>2. GoesOn' /\ reported'[p] \in {None, "lost"}
      BY <2>1, <2>4 DEF UpToDate, GoesOn
    <3>3. IF early' THEN ~isTurn'[q]
          ELSE board'[q] = match'.board /\ (isTurn'[q] <=> match'.mover = q)
      BY <2>4 DEF UpToDate
    <3> QED  BY <3>1, <3>2, <3>3 DEF UpToDate
  <2>5. CASE PlayToRead(q, p)
    <3>1. PICK c \in Cells :
            /\ \/ inbox[q] = <<Send(c)>>
               \/ inbox[q] = <<Send(c), End>> /\ reported[p] = "lost"
            /\ ~early /\ ~isTurn[q] /\ match.mover = q
            /\ board[q][c] = "Empty" /\ Ruling(board[q]) = "In_Progress"
            /\ match.board = [board[q] EXCEPT ![c] = match.piece[p]]
            /\ IF GoesOn THEN reported[p] \in {None, "lost"}
               ELSE reported[p] = IF Ruling(match.board) = "Draw" THEN "draw" ELSE "win"
      BY <2>5 DEF PlayToRead
    <3>2. Append(<<Send(c)>>, End) = <<Send(c), End>>
      BY Twos
    <3>3. \/ inbox'[q] = <<Send(c)>>
          \/ inbox'[q] = <<Send(c), End>> /\ reported'[p] = "lost"
      BY <2>1, <2>2, <2>3, <3>1, <3>2
    <3>4. None # "draw" /\ None # "win"
      BY NoneFacts DEF Results
    <3>5. IF GoesOn' THEN reported'[p] \in {None, "lost"}
          ELSE reported'[p] = IF Ruling(match'.board) = "Draw" THEN "draw" ELSE "win"
      BY <2>1, <3>1, <3>4 DEF GoesOn
    <3> QED  BY <3>1, <3>3, <3>5 DEF PlayToRead
  <2> QED  BY <1>2, <2>4, <2>5 DEF InGame
<1>8. \A r \in Peers : Engaged(r, Rival(r))' /\ InGame(r, Rival(r))'
  BY <1>1, <1>5, <1>6, <1>7
<1> QED  BY <1>3, <1>4, <1>8 DEF GameInv

LEMMA GameDie ==
    ASSUME Inv, GameInv, NEW p \in Peers, Die(p),
           UNCHANGED <<invitation, match, early>>
    PROVE  GameInv'
<1> DEFINE q == Rival(p)
<1>1. q \in Peers /\ q # p /\ Rival(q) = p
  BY RivalFacts
<1>2. Types /\ ResultsAgree /\ inbox \in [Peers -> Seq(Messages)]
  BY DEF Inv, GameInv, Types
<1>3. /\ Close(p, inbox) /\ status' = [status EXCEPT ![p] = "gone"] /\ LeaveMatch(p)
      /\ UNCHANGED <<board, isTurn, clientPiece, reported>>
  BY DEF Die
<1>4. inbox'[p] = <<>> /\ inbox'[q] = inbox[q]
  BY <1>1, <1>2, <1>3, Closed
<1>5. status'[p] = "gone" /\ status'[q] = status[q]
  BY <1>1, <1>2, <1>3 DEF Types
<1>6. ~Playing(p)' /\ (q \in left' <=> q \in left)
  BY <1>1, <1>3 DEF LeaveMatch, Playing
<1>7. ResultsAgree'
  BY <1>2, <1>3 DEF ResultsAgree
<1> HIDE DEF q
<1> QED  BY <1>1, <1>3, <1>4, <1>5, <1>6, <1>7, LeavesGame DEF q

\* p ends its game with a report, and nobody plays.
LEMMA GameFinish ==
    ASSUME Inv, GameInv, NEW p \in Peers, NEW q \in Peers, q = Rival(p),
           status[p] = "on_match",
           NEW result \in Results, NEW box \in [Peers -> Seq(Messages)],
           Finish(p, result, box),
           \/ box[q] = inbox[q]
           \/ box[q] = Append(inbox[q], End) /\ result = "lost",
           status[q] = "on_match" => result = "lost",
           /\ result = "win" => reported[q] \in {None, "lost"}
           /\ result = "draw" => reported[q] \in {None, "draw", "lost"}
           /\ reported[q] = "win" => result = "lost"
           /\ reported[q] = "draw" => result \in {"draw", "lost"},
           UNCHANGED <<invitation, match, early>>
    PROVE  GameInv'
<1>1. /\ q # p /\ Rival(q) = p /\ Rival(p) = q
      /\ \A r \in Peers : r = p \/ r = q
  BY RivalFacts
<1>2. Types /\ ResultsAgree /\ Engaged(p, q)
  BY DEF Inv, GameInv
<1>3. /\ Close(p, box)
      /\ status' = [status EXCEPT ![p] = "logged"]
      /\ board' = [board EXCEPT ![p] = NewBoard]
      /\ isTurn' = [isTurn EXCEPT ![p] = FALSE]
      /\ clientPiece' = [clientPiece EXCEPT ![p] = "Empty"]
      /\ reported' = [reported EXCEPT ![p] = result]
      /\ left' = left
  BY DEF Finish, EndGame
<1>4. inbox'[p] = <<>> /\ inbox'[q] = box[q]
  BY <1>1, <1>2, <1>3, Closed
<1>5. /\ status'[p] = "logged" /\ status'[q] = status[q]
      /\ board'[q] = board[q] /\ isTurn'[q] = isTurn[q]
      /\ clientPiece'[q] = clientPiece[q]
      /\ reported'[p] = result /\ reported'[q] = reported[q]
  BY <1>1, <1>2, <1>3 DEF Types
<1>6. result # None /\ None # "draw" /\ None # "lost"
  BY NoneFacts DEF Results
<1>7. ~Playing(p)' /\ reported[p] = None
  BY <1>2, <1>5, <1>6 DEF Playing, Engaged
<1>8. ResultsAgree'
  <2>1. reported'[q] # None =>
          /\ reported'[p] = "win" => reported'[q] = "lost"
          /\ reported'[p] = "draw" => reported'[q] \in {"draw", "lost"}
    BY <1>5
  <2>2. /\ reported'[q] = "win" => reported'[p] = "lost"
        /\ reported'[q] = "draw" => reported'[p] \in {"draw", "lost"}
    BY <1>5
  <2> QED  BY <1>1, <2>1, <2>2 DEF ResultsAgree
<1> QED  BY <1>1, <1>3, <1>4, <1>5, <1>7, <1>8, LeavesGame

LEMMA GameGiveUp == ASSUME Inv, GameInv, NEW p \in Peers, GiveUp(p) PROVE GameInv'
<1>1. PICK q \in Peers : q = Rival(p) /\ q # p
  BY RivalFacts
<1>2. /\ status[p] = "on_match" /\ Finish(p, "lost", Written(p, End))
      /\ UNCHANGED <<invitation, match, early>>
  BY DEF GiveUp
<1>3. End \in Messages /\ "lost" \in Results
  BY DEF Messages, Results
<1>4. Written(p, End) \in [Peers -> Seq(Messages)]
  BY <1>2, <1>3, WrittenFacts
<1>5. Written(p, End)[q] \in {inbox[q], Append(inbox[q], End)}
  BY <1>1 DEF Written, Inv, Types
<1> QED  BY <1>1, <1>2, <1>3, <1>4, <1>5, GameFinish

\* The play that p reads makes its board that of the game.
LEMMA Received ==
    ASSUME Inv, GameInv, NEW p \in Peers, NEW q \in Peers, q = Rival(p),
           status[p] = "on_match", inbox[p] # <<>>, Head(inbox[p]).type = "SEND"
    PROVE  /\ ~early /\ match.mover = p
           /\ setPlay(board[p], Head(inbox[p]).cell, Opposite(clientPiece[p])) = match.board
           /\ checkWin(match.board) = Ruling(match.board)
           /\ Ruling(match.board) \in {"In_Progress", "Draw", Winner(match.piece[q])}
           /\ Tail(inbox[p]) = <<>> \/ (Tail(inbox[p]) = <<End>> /\ reported[q] = "lost")
           /\ IF GoesOn THEN reported[q] \in {None, "lost"}
              ELSE reported[q] = IF Ruling(match.board) = "Draw" THEN "draw" ELSE "win"
           /\ clientPiece[p] = match.piece[p] /\ match.piece[p] \in Pieces
           /\ match.piece[q] = Opposite(match.piece[p])
<1>1. Types /\ Engaged(p, q) /\ InGame(p, q) /\ Sides
  BY DEF Inv, GameInv
<1>2. End.type # "SEND"
  BY DEF End
<1>3. PlayToRead(p, q)
  BY <1>1, <1>2, Lengths DEF InGame, UpToDate
<1>4. PICK c \in Cells :
        /\ inbox[p] = <<Send(c)>> \/ (inbox[p] = <<Send(c), End>> /\ reported[q] = "lost")
        /\ ~early /\ ~isTurn[p] /\ match.mover = p
        /\ board[p][c] = "Empty" /\ Ruling(board[p]) = "In_Progress"
        /\ match.board = [board[p] EXCEPT ![c] = match.piece[q]]
        /\ IF GoesOn THEN reported[q] \in {None, "lost"}
           ELSE reported[q] = IF Ruling(match.board) = "Draw" THEN "draw" ELSE "win"
  BY <1>3 DEF PlayToRead
<1>5. match.mover # None /\ clientPiece[p] = match.piece[p]
  BY <1>1 DEF Engaged, Playing
<1>6. /\ match.piece[p] \in Pieces /\ match.piece[q] \in Pieces
      /\ match.piece[q] = Opposite(match.piece[p])
  BY <1>1, <1>5 DEF Sides
<1>7. /\ Head(<<Send(c)>>) = Send(c) /\ Head(<<Send(c), End>>) = Send(c)
      /\ Tail(<<Send(c)>>) = <<>> /\ Tail(<<Send(c), End>>) = <<End>>
  BY Lengths, Twos
<1>8. /\ Head(inbox[p]) = Send(c)
      /\ Tail(inbox[p]) = <<>> \/ (Tail(inbox[p]) = <<End>> /\ reported[q] = "lost")
  BY <1>4, <1>7
<1>9. setPlay(board[p], c, Opposite(clientPiece[p])) = match.board
  BY <1>4, <1>5, <1>6 DEF setPlay
<1>10. /\ checkWin(match.board) = Ruling(match.board)
       /\ Ruling(match.board) \in {"In_Progress", "Draw", Winner(match.piece[q])}
  <2>1. board[p] \in Boards
    BY <1>1 DEF Types
  <2>2. PICK b : b = board[p]
    OBVIOUS
  <2>3. /\ checkWin([b EXCEPT ![c] = match.piece[q]]) = Ruling([b EXCEPT ![c] = match.piece[q]])
        /\ Ruling([b EXCEPT ![c] = match.piece[q]]) \in
              {"In_Progress", "Draw", Winner(match.piece[q])}
    BY <1>4, <1>6, <2>1, <2>2, PlayDecides
  <2> QED  BY <1>4, <2>2, <2>3
<1>11. Send(c).cell = c
  BY DEF Send
<1> QED  BY <1>4, <1>5, <1>6, <1>8, <1>9, <1>10, <1>11

LEMMA ResultIs ==
    ASSUME NEW x \in Pieces
    PROVE  /\ Result("Draw", x) = "draw"
           /\ Result(Winner(x), x) = "win" /\ Result(Winner(Opposite(x)), x) = "lost"
           /\ Winner(x) # Winner(Opposite(x)) /\ Winner(x) \notin {"Draw", "In_Progress"}
           /\ Opposite(x) \in Pieces /\ Opposite(x) # x /\ Opposite(Opposite(x)) = x
BY DEF Result, Winner, Opposite, Pieces

\* p reads a play, and the game goes on.
LEMMA GameReadPlay ==
    ASSUME Inv, GameInv, NEW p \in Peers, NEW q \in Peers, q = Rival(p),
           status[p] = "on_match", inbox[p] # <<>>, Head(inbox[p]).type = "SEND",
           GoesOn,
           board' = [board EXCEPT ![p] = match.board],
           isTurn' = [isTurn EXCEPT ![p] = TRUE],
           inbox' = [inbox EXCEPT ![p] = Tail(@)],
           UNCHANGED <<status, clientPiece, sock, left, reported, invitation, match, early>>
    PROVE  GameInv'
<1>1. /\ q # p /\ Rival(p) = q /\ Rival(q) = p
      /\ \A r \in Peers : r = p \/ r = q
  BY RivalFacts
<1>2. /\ Types /\ Invited /\ Engaged(p, q) /\ InGame(p, q) /\ Engaged(q, p)
      /\ InGame(q, p) /\ Sides /\ OneWinner /\ Pending /\ ResultsAgree
  BY <1>1 DEF GameInv, Inv
<1>3. Sides' /\ OneWinner' /\ ResultsAgree'
  BY <1>2 DEF Sides, OneWinner, ResultsAgree
<1>4. /\ inbox'[p] = Tail(inbox[p]) /\ inbox'[q] = inbox[q]
      /\ board'[p] = match.board /\ board'[q] = board[q]
      /\ isTurn'[p] /\ isTurn'[q] = isTurn[q]
  BY <1>1, <1>2 DEF Types
<1>5. Pending'
  <2>1. invitation # None => inbox[Rival(invitation.to)] = <<>> /\ invitation.to \in Peers
    BY <1>2 DEF Pending, Types
  <2>2. invitation # None => invitation.to = p
    BY <1>1, <2>1
  <2>3. invitation = None
    BY <1>2, <2>2 DEF Invited
  <2> QED  BY <2>3 DEF Pending
<1>6. Engaged(p, q)' /\ Engaged(q, p)'
  BY <1>2, <1>4 DEF Engaged, Playing
<1>7. InGame(p, q)'
  <2>1. /\ ~early /\ match.mover = p /\ reported[q] \in {None, "lost"}
        /\ Tail(inbox[p]) = <<>> \/ (Tail(inbox[p]) = <<End>> /\ reported[q] = "lost")
    BY Received
  <2> QED  BY <1>4, <2>1 DEF InGame, UpToDate, GoesOn
<1>8. InGame(q, p)'
  <2>1. UpToDate(q, p)' <=> UpToDate(q, p)
    BY <1>4 DEF UpToDate, GoesOn
  <2>2. match.mover = p
    BY Received
  <2>3. ~PlayToRead(q, p)
    BY <1>1, <2>2 DEF PlayToRead
  <2> QED  BY <1>2, <2>1, <2>3 DEF InGame
<1>9. \A r \in Peers : Engaged(r, Rival(r))' /\ InGame(r, Rival(r))'
  BY <1>1, <1>6, <1>7, <1>8
<1> QED  BY <1>3, <1>5, <1>9 DEF GameInv

\* What p knows when the connection ends or the rival gives up.
LEMMA RivalIsOut ==
    ASSUME Inv, GameInv, NEW p \in Peers, NEW q \in Peers, q = Rival(p),
           status[p] = "on_match",
           \/ inbox[p] # <<>> /\ Head(inbox[p]).type = "END"
           \/ inbox[p] = <<>> /\ sock[p] \in {"fin", "broken"}
    PROVE  /\ status[q] # "on_match"
           /\ reported[q] = "lost" \/ (inbox[p] = <<>> /\ reported[q] = None)
<1>1. Types /\ Engaged(p, q) /\ InGame(p, q) /\ Engaged(q, p)
  BY RivalFacts DEF Inv, GameInv
<1>2. ASSUME NEW c, NEW s, s = <<Send(c)>> \/ s = <<Send(c), End>>
      PROVE  s # <<>> /\ Head(s).type # "END"
  BY <1>2, Lengths, Twos DEF Send
<1>3. UpToDate(p, q)
  <2>1. ASSUME PlayToRead(p, q) PROVE FALSE
    <3>1. PICK c \in Cells : inbox[p] = <<Send(c)>> \/ inbox[p] = <<Send(c), End>>
      BY <2>1 DEF PlayToRead
    <3> QED  BY <1>2, <3>1
  <2> QED  BY <1>1, <2>1 DEF InGame
<1>4. reported[q] = "lost" \/ (inbox[p] = <<>> /\ reported[q] = None)
  BY <1>3 DEF UpToDate
<1>5. status[q] # "on_match"
  <2>1. "lost" # None
    BY NoneFacts DEF Results
  <2>2. CASE reported[q] = "lost"
    BY <1>1, <2>1, <2>2 DEF Engaged, Playing
  <2>3. CASE inbox[p] = <<>> /\ sock[p] \in {"fin", "broken"}
    BY <1>1, <2>3 DEF Engaged
  <2> QED  BY <1>3, <2>2, <2>3 DEF UpToDate
<1> QED  BY <1>4, <1>5

LEMMA GameReadPeer ==
    ASSUME Inv, GameInv, NEW p \in Peers, ReadPeer(p) PROVE GameInv'
<1>1. PICK q \in Peers : q = Rival(p) /\ q # p
  BY RivalFacts
<1>2. UNCHANGED <<invitation, match, early>>
  BY DEF ReadPeer
<1>3. Types /\ Descriptors(p) /\ inbox \in [Peers -> Seq(Messages)]
  BY DEF Inv, Types
<1>4. clientConnFd[p] = "conn" => status[p] = "on_match"
  BY <1>3 DEF Descriptors
<1>5. "fail" \in Results /\ "win" \in Results
  BY DEF Results
<1>6. CASE ReadFails(p)
  BY <1>2, <1>6, GameDie DEF ReadFails
<1>7. CASE ConnectionLost(p)
  <2>1. /\ Finish(p, "fail", inbox) /\ status[p] = "on_match"
        /\ inbox[p] = <<>> /\ sock[p] \in {"fin", "broken"}
    BY <1>4, <1>7 DEF ConnectionLost
  <2>2. status[q] # "on_match" /\ reported[q] \in {None, "lost"}
    BY <1>1, <2>1, RivalIsOut
  <2>3. reported[q] # "win" /\ reported[q] # "draw"
    BY <2>2, NoneFacts DEF Results
  <2> QED  BY <1>1, <1>2, <1>3, <1>5, <2>1, <2>2, <2>3, GameFinish
<1>8. CASE ReadMessage(p)
  <2>1. status[p] = "on_match" /\ inbox[p] # <<>>
    BY <1>4, <1>8 DEF ReadMessage
  <2>2. PICK m, rest, outcome :
          /\ m = Head(inbox[p]) /\ rest = [inbox EXCEPT ![p] = Tail(@)]
          /\ outcome = checkWin(setPlay(board[p], m.cell, Opposite(clientPiece[p])))
    OBVIOUS
  <2>3. rest \in [Peers -> Seq(Messages)] /\ rest[q] = inbox[q]
    <3>1. inbox[p] \in Seq(Messages)
      BY <1>3
    <3>2. Tail(inbox[p]) \in Seq(Messages)
      BY <2>1, <3>1, Lengths
    <3> QED  BY <1>1, <1>3, <2>2, <3>2
  <2>4. CASE m.type = "SEND"
    <3>1. /\ setPlay(board[p], m.cell, Opposite(clientPiece[p])) = match.board
          /\ outcome = Ruling(match.board)
          /\ outcome \in {"In_Progress", "Draw", Winner(match.piece[q])}
          /\ IF GoesOn THEN reported[q] \in {None, "lost"}
             ELSE reported[q] = IF Ruling(match.board) = "Draw" THEN "draw" ELSE "win"
          /\ clientPiece[p] = match.piece[p] /\ match.piece[p] \in Pieces
          /\ match.piece[q] = Opposite(match.piece[p])
      BY <1>1, <2>1, <2>2, <2>4, Received
    <3>2. CASE outcome = "In_Progress"
      <4>1. /\ board' = [board EXCEPT ![p] = match.board]
            /\ isTurn' = [isTurn EXCEPT ![p] = TRUE]
            /\ inbox' = [inbox EXCEPT ![p] = Tail(@)]
            /\ UNCHANGED <<status, clientPiece, sock, left, reported>>
        BY <1>8, <2>2, <2>4, <3>1, <3>2 DEF ReadMessage
      <4> QED  BY <1>1, <1>2, <2>1, <2>2, <2>4, <3>1, <3>2, <4>1, GameReadPlay DEF GoesOn
    <3>3. CASE outcome # "In_Progress"
      <4>1. PICK result : result = Result(outcome, clientPiece[p])
        OBVIOUS
      <4>2. Finish(p, result, rest)
        BY <1>8, <2>2, <2>4, <3>3, <4>1 DEF ReadMessage
      <4>3. \/ outcome = "Draw" /\ result = "draw" /\ reported[q] = "draw"
            \/ result = "lost" /\ reported[q] = "win"
        <5>1. Winner(match.piece[q]) # "Draw"
          BY <3>1, ResultIs
        <5> QED  BY <3>1, <3>3, <4>1, <5>1, ResultIs DEF GoesOn
      <4>4. status[q] # "on_match"
        <5>1. reported[q] # None /\ Engaged(q, p)
          BY <1>1, <4>3, NoneFacts, RivalFacts DEF Results, GameInv
        <5> QED  BY <5>1 DEF Engaged, Playing
      <4>5. result \in Results
        BY <4>3 DEF Results
      <4> QED  BY <1>1, <1>2, <2>1, <2>3, <4>2, <4>3, <4>4, <4>5, GameFinish
    <3> QED  BY <3>2, <3>3
  <2>5. CASE m.type = "END"
    <3>1. status[q] # "on_match" /\ reported[q] = "lost"
      BY <1>1, <2>1, <2>2, <2>5, RivalIsOut
    <3>2. Finish(p, "win", rest)
      BY <1>8, <2>2, <2>5 DEF ReadMessage
    <3> QED  BY <1>1, <1>2, <1>5, <2>1, <2>3, <3>1, <3>2, GameFinish
  <2> QED  BY <1>8, <2>2, <2>4, <2>5 DEF ReadMessage
<1> QED  BY <1>6, <1>7, <1>8 DEF ReadPeer

\* A play of p goes to the one board and passes the turn.
LEMMA Played ==
    ASSUME Inv, GameInv, NEW p \in Peers, NEW q \in Peers, q = Rival(p),
           NEW cell \in Cells, status[p] = "on_match", MayPlay(p, cell),
           match'.board = [match.board EXCEPT ![cell] = clientPiece[p]],
           match'.piece = match.piece, match'.mover = q
    PROVE  /\ match.board[cell] = "Empty"
           /\ match'.board = [match.board EXCEPT ![cell] = match.piece[p]]
           /\ match'.piece = match.piece /\ match'.mover = q
           /\ setPlay(board[p], cell, clientPiece[p]) = match'.board
           /\ checkWin(match'.board) = Ruling(match'.board)
           /\ Ruling(match'.board) \in {"In_Progress", "Draw", Winner(match.piece[p])}
           /\ Sides' /\ OneWinner'
<1>1. Types /\ Sides /\ match \in MatchStates
  BY DEF Inv, GameInv, Types
<1>2. isTurn[p] /\ board[p][cell] = "Empty"
  BY DEF MayPlay, canSetPlay
<1>3. /\ GoesOn /\ board[p] = match.board /\ clientPiece[p] = match.piece[p]
      /\ match.piece[p] \in Pieces /\ match.mover = p
  BY <1>2, OnTurn
<1>4. /\ match'.board = [match.board EXCEPT ![cell] = match.piece[p]]
      /\ match'.piece = match.piece /\ match'.mover = q
  BY <1>3
<1>5. setPlay(board[p], cell, clientPiece[p]) = match'.board
  BY <1>2, <1>3, <1>4 DEF setPlay
<1>6. PICK b \in Boards : b = match.board
  BY <1>1 DEF MatchStates
<1>7. /\ checkWin([b EXCEPT ![cell] = match.piece[p]])
            = Ruling([b EXCEPT ![cell] = match.piece[p]])
      /\ Ruling([b EXCEPT ![cell] = match.piece[p]]) \in
            {"In_Progress", "Draw", Winner(match.piece[p])}
      /\ ~(/\ HasLine([b EXCEPT ![cell] = match.piece[p]], "X")
           /\ HasLine([b EXCEPT ![cell] = match.piece[p]], "O"))
  BY <1>3, <1>6, PlayDecides DEF GoesOn
<1>8. match'.board = [b EXCEPT ![cell] = match.piece[p]]
  BY <1>4, <1>6
<1>9. OneWinner'
  BY <1>7, <1>8 DEF OneWinner
<1>10. Sides'
  <2>1. match.mover # None
    BY <1>3, NoneFacts
  <2> QED  BY <1>1, <1>4, <2>1 DEF Sides
<1>11. /\ checkWin(match'.board) = Ruling(match'.board)
       /\ Ruling(match'.board) \in {"In_Progress", "Draw", Winner(match.piece[p])}
  BY <1>7, <1>8
<1>12. match.board[cell] = "Empty"
  BY <1>2, <1>3
<1> QED  BY <1>4, <1>5, <1>9, <1>10, <1>11, <1>12

\* A play reaches a rival that is on the match, unless the connection has not
\* been accepted.
LEMMA Delivered ==
    ASSUME Inv, GameInv, NEW p \in Peers, NEW q \in Peers, q = Rival(p),
           status[p] = "on_match", isTurn[p], NEW cell \in Cells
    PROVE  /\ Written(p, Send(cell))[p] = inbox[p]
           /\ clientConnFd[p] = "none" => Written(p, Send(cell)) = inbox
           /\ status[q] = "on_match" /\ clientConnFd[p] # "none" =>
                 Written(p, Send(cell))[q] = <<Send(cell)>>
<1>1. /\ q # p /\ inbox \in [Peers -> Seq(Messages)]
      /\ clientConnFd[p] \in {"none", "conn"}
  BY RivalFacts DEF Inv, Types
<1>2. status[q] = "on_match" => sock[p] = "open" /\ inbox[q] = <<>>
  BY OnTurn
<1>3. /\ Written(p, Send(cell))[p] = inbox[p]
      /\ clientConnFd[p] = "none" => Written(p, Send(cell)) = inbox
  BY <1>1 DEF Written
<1>4. ASSUME status[q] = "on_match", clientConnFd[p] # "none"
      PROVE  Written(p, Send(cell))[q] = <<Send(cell)>>
  <2>1. Written(p, Send(cell)) = [inbox EXCEPT ![q] = Append(inbox[q], Send(cell))]
    BY <1>1, <1>2, <1>4 DEF Written
  <2> QED  BY <1>1, <1>2, <1>4, <2>1, Lengths
<1> QED  BY <1>3, <1>4

LEMMA GamePlay ==
    ASSUME Inv, GameInv, NEW p \in Peers, NEW q \in Peers, q = Rival(p),
           NEW cell \in Cells, status[p] = "on_match", MayPlay(p, cell),
           match'.board = [match.board EXCEPT ![cell] = clientPiece[p]],
           match'.piece = match.piece, match'.mover = q,
           early' = (early \/ clientConnFd[p] = "none"),
           GoesOn',
           board' = [board EXCEPT ![p] = match'.board],
           isTurn' = [isTurn EXCEPT ![p] = FALSE],
           inbox' = Written(p, Send(cell)), sock' = AfterWrite(p),
           UNCHANGED <<status, clientPiece, left, reported, invitation>>
    PROVE  GameInv'
<1>1. /\ q # p /\ Rival(p) = q /\ Rival(q) = p
      /\ \A r \in Peers : r = p \/ r = q
  BY RivalFacts
<1>2. /\ Types /\ Invited /\ Engaged(p, q) /\ InGame(p, q) /\ Engaged(q, p)
      /\ Pending /\ ResultsAgree
  BY <1>1 DEF GameInv, Inv
<1>3. isTurn[p]
  BY DEF MayPlay
<1>4. /\ match.board[cell] = "Empty"
      /\ match'.board = [match.board EXCEPT ![cell] = match.piece[p]]
      /\ match'.piece = match.piece /\ match'.mover = q
      /\ Sides' /\ OneWinner'
  BY Played
<1>5. /\ ~early /\ GoesOn /\ match.mover = p
      /\ reported[p] = None /\ p \notin left /\ reported[q] \in {None, "lost"}
      /\ inbox[p] = <<>> \/ (inbox[p] = <<End>> /\ reported[q] = "lost")
      /\ status[q] = "on_match" =>
           /\ sock[p] = "open" /\ inbox[q] = <<>>
           /\ ~isTurn[q] /\ board[q] = match.board
  BY <1>3, OnTurn
<1>6. /\ inbox'[p] = inbox[p]
      /\ clientConnFd[p] = "none" => inbox' = inbox
      /\ status[q] = "on_match" /\ clientConnFd[p] # "none" => inbox'[q] = <<Send(cell)>>
  BY <1>3, Delivered
<1>7. /\ board'[p] = match'.board /\ board'[q] = board[q]
      /\ ~isTurn'[p] /\ isTurn'[q] = isTurn[q]
      /\ early' <=> clientConnFd[p] = "none"
  BY <1>1, <1>2, <1>5 DEF Types
<1>8. p # None /\ q # None
  BY NoneFacts
<1>9. ResultsAgree'
  BY <1>2 DEF ResultsAgree
<1>10. Pending'
  <2> SUFFICES ASSUME invitation # None PROVE Pending'
    BY DEF Pending
  <2>1. invitation.to \in Peers /\ status[invitation.to] \in {"waiting", "gone"}
    BY <1>2 DEF Types, Invited
  <2>2. invitation.to = q
    BY <1>1, <2>1
  <2>3. clientConnFd[p] = "none" /\ ~invitation.first
    BY <1>1, <1>2, <1>3, <2>2 DEF Invited
  <2>4. inbox[p] = <<>> /\ invitation.piece = match.piece[q]
    BY <1>1, <1>2, <2>2 DEF Pending
  <2>5. early'
    BY <1>7, <2>3
  <2> QED  BY <1>1, <1>4, <1>6, <1>8, <2>2, <2>3, <2>4, <2>5 DEF Pending
<1>11. Engaged(p, q)' /\ Engaged(q, p)'
  <2>1. (Playing(p)' <=> Playing(p)) /\ (Playing(q)' <=> Playing(q))
    BY <1>4, <1>5, <1>8 DEF Playing
  <2>2. status[p] = "on_match" /\ status[q] = "on_match" => sock' = sock
    BY <1>5 DEF AfterWrite
  <2> QED  BY <1>2, <1>4, <1>7, <2>1, <2>2 DEF Engaged
<1>12. InGame(p, q)'
  BY <1>1, <1>4, <1>5, <1>6, <1>7 DEF InGame, UpToDate
<1>13. InGame(q, p)'
  <2> SUFFICES ASSUME status[q] = "on_match" PROVE (UpToDate(q, p) \/ PlayToRead(q, p))'
    BY DEF InGame
  <2>1. CASE clientConnFd[p] = "none"
    <3>1. early' /\ ~isTurn'[q] /\ inbox'[q] = <<>> /\ reported'[p] = None
      BY <1>5, <1>6, <1>7, <2>1
    <3> QED  BY <3>1 DEF UpToDate
  <2>2. CASE clientConnFd[p] # "none"
    <3>1. /\ inbox'[q] = <<Send(cell)>> /\ ~early' /\ ~isTurn'[q] /\ match'.mover = q
          /\ reported'[p] = None
      BY <1>4, <1>5, <1>6, <1>7, <2>2
    <3>2. /\ board'[q][cell] = "Empty" /\ Ruling(board'[q]) = "In_Progress"
          /\ match'.board = [board'[q] EXCEPT ![cell] = match'.piece[p]]
      BY <1>4, <1>5, <1>7 DEF GoesOn
    <3> QED  BY <3>1, <3>2 DEF PlayToRead
  <2> QED  BY <2>1, <2>2
<1>14. \A r \in Peers : Engaged(r, Rival(r))' /\ InGame(r, Rival(r))'
  BY <1>1, <1>11, <1>12, <1>13
<1> QED  BY <1>4, <1>9, <1>10, <1>14 DEF GameInv

\* The play that ends the game.
LEMMA GameFinalPlay ==
    ASSUME Inv, GameInv, NEW p \in Peers, NEW q \in Peers, q = Rival(p),
           NEW cell \in Cells, status[p] = "on_match", MayPlay(p, cell),
           match'.board = [match.board EXCEPT ![cell] = clientPiece[p]],
           match'.piece = match.piece, match'.mover = q,
           early' = (early \/ clientConnFd[p] = "none"),
           ~GoesOn',
           Finish(p, Result(Ruling(match'.board), clientPiece[p]), Written(p, Send(cell))),
           UNCHANGED invitation
    PROVE  GameInv' /\ clientConnFd[p] = "conn"
<1>1. /\ q # p /\ Rival(p) = q /\ Rival(q) = p
      /\ \A r \in Peers : r = p \/ r = q
  BY RivalFacts
<1>2. /\ Types /\ Invited /\ Engaged(p, q) /\ Engaged(q, p) /\ Descriptors(p)
      /\ Pending /\ ResultsAgree
  BY <1>1 DEF GameInv, Inv
<1>3. isTurn[p]
  BY DEF MayPlay
<1>4. /\ match.board[cell] = "Empty"
      /\ match'.board = [match.board EXCEPT ![cell] = match.piece[p]]
      /\ match'.piece = match.piece /\ match'.mover = q
      /\ setPlay(board[p], cell, clientPiece[p]) = match'.board
      /\ checkWin(match'.board) = Ruling(match'.board)
      /\ Ruling(match'.board) \in {"In_Progress", "Draw", Winner(match.piece[p])}
      /\ Sides' /\ OneWinner'
  BY Played
<1>5. /\ ~early /\ GoesOn /\ match.mover = p
      /\ clientPiece[p] = match.piece[p] /\ match.piece[p] \in Pieces
      /\ reported[p] = None /\ p \notin left /\ reported[q] \in {None, "lost"}
      /\ status[q] = "on_match" => ~isTurn[q] /\ board[q] = match.board
  BY <1>3, OnTurn
<1>6. PICK result : result = Result(Ruling(match'.board), clientPiece[p])
  OBVIOUS
<1>7. \/ Ruling(match'.board) = "Draw" /\ result = "draw"
      \/ Ruling(match'.board) # "Draw" /\ result = "win"
  BY <1>4, <1>5, <1>6, ResultIs DEF GoesOn
<1>8. clientConnFd[p] = "conn"
  <2>1. ~FewMarks(board[p])
    <3>1. board[p] \in Boards /\ clientPiece[p] \in Marks
      BY <1>2 DEF Types
    <3> QED  BY <1>4, <3>1, TwoMarksGoOn DEF GoesOn
  <2>2. clientConnFd[p] \in {"none", "conn"}
    BY <1>2 DEF Types
  <2> QED  BY <1>2, <1>3, <2>1, <2>2 DEF Descriptors
<1>9. invitation = None
  <2> SUFFICES ASSUME invitation # None PROVE FALSE
    OBVIOUS
  <2>1. invitation.to \in Peers /\ status[invitation.to] \in {"waiting", "gone"}
    BY <1>2 DEF Types, Invited
  <2> QED  BY <1>1, <1>2, <1>8, <2>1 DEF Invited
<1>10. /\ Close(p, Written(p, Send(cell)))
       /\ status' = [status EXCEPT ![p] = "logged"]
       /\ board' = [board EXCEPT ![p] = NewBoard]
       /\ isTurn' = [isTurn EXCEPT ![p] = FALSE]
       /\ clientPiece' = [clientPiece EXCEPT ![p] = "Empty"]
       /\ reported' = [reported EXCEPT ![p] = result]
       /\ left' = left
  BY <1>6 DEF Finish, EndGame
<1>11. inbox'[q] = Written(p, Send(cell))[q]
  <2>1. Written(p, Send(cell)) \in [Peers -> Seq(Messages)]
    BY WrittenFacts DEF Messages
  <2> QED  BY <1>1, <1>2, <1>10, <2>1, Closed
<1>12. /\ status'[p] = "logged" /\ status'[q] = status[q]
       /\ board'[q] = board[q] /\ isTurn'[q] = isTurn[q]
       /\ clientPiece'[q] = clientPiece[q]
       /\ reported'[p] = result /\ reported'[q] = reported[q]
       /\ ~early'
  BY <1>1, <1>2, <1>5, <1>8, <1>10 DEF Types
<1>13. result \in {"win", "draw"} /\ None \notin {"win", "draw", "lost"} /\ q # None /\ p # None
  BY <1>7, NoneFacts DEF Results
<1>14. ResultsAgree'
  <2>1. reported'[q] # None => reported'[q] = "lost"
    BY <1>5, <1>12
  <2>2. reported'[q] # "win" /\ reported'[q] # "draw"
    BY <1>13, <2>1
  <2> QED  BY <1>1, <2>1, <2>2 DEF ResultsAgree
<1>15. Engaged(p, q)' /\ InGame(p, q)'
  BY <1>12, <1>13 DEF Engaged, InGame, Playing
<1>16. Engaged(q, p)'
  <2>1. Playing(q)' <=> Playing(q)
    BY <1>4, <1>5, <1>10, <1>12, <1>13 DEF Playing
  <2>2. status[q] # "waiting"
    BY <1>2, <1>9 DEF Engaged
  <2> QED  BY <1>2, <1>4, <1>12, <2>1, <2>2 DEF Engaged
<1>17. InGame(q, p)'
  <2> SUFFICES ASSUME status[q] = "on_match" PROVE PlayToRead(q, p)'
    BY <1>12 DEF InGame
  <2>1. inbox'[q] = <<Send(cell)>>
    BY <1>3, <1>8, <1>11, Delivered
  <2>2. ~early' /\ ~isTurn'[q] /\ match'.mover = q
    BY <1>4, <1>5, <1>12
  <2>3. /\ board'[q][cell] = "Empty" /\ Ruling(board'[q]) = "In_Progress"
        /\ match'.board = [board'[q] EXCEPT ![cell] = match'.piece[p]]
    BY <1>4, <1>5, <1>12 DEF GoesOn
  <2>4. reported'[p] = IF Ruling(match'.board) = "Draw" THEN "draw" ELSE "win"
    BY <1>7, <1>12
  <2> QED  BY <2>1, <2>2, <2>3, <2>4 DEF PlayToRead
<1>18. Pending'
  BY <1>9 DEF Pending
<1>19. \A r \in Peers : Engaged(r, Rival(r))' /\ InGame(r, Rival(r))'
  BY <1>1, <1>15, <1>16, <1>17
<1> QED  BY <1>4, <1>8, <1>14, <1>18, <1>19 DEF GameInv

LEMMA GameMakePlay ==
    ASSUME Inv, GameInv, NEW p \in Peers, NEW cell \in Typed, MakePlay(p, cell)
    PROVE  GameInv'
<1>1. PICK q \in Peers : q = Rival(p)
  BY RivalFacts
<1>2. /\ status[p] = "on_match" /\ MayPlay(p, cell) /\ cell \in Cells
      /\ match' = [match EXCEPT !.board[cell] = clientPiece[p], !.mover = q]
      /\ early' = (early \/ clientConnFd[p] = "none")
      /\ UNCHANGED invitation
  BY <1>1, PeersAssumption DEF MakePlay
<1>3. /\ match'.board = [match.board EXCEPT ![cell] = clientPiece[p]]
      /\ match'.piece = match.piece /\ match'.mover = q
  BY <1>2 DEF Inv, Types, MatchStates
<1>4. /\ setPlay(board[p], cell, clientPiece[p]) = match'.board
      /\ checkWin(match'.board) = Ruling(match'.board)
  BY <1>1, <1>2, <1>3, Played
<1>5. CASE GoesOn'
  <2>1. /\ board' = [board EXCEPT ![p] = match'.board]
        /\ isTurn' = [isTurn EXCEPT ![p] = FALSE]
        /\ inbox' = Written(p, Send(cell)) /\ sock' = AfterWrite(p)
        /\ UNCHANGED <<status, clientPiece, left, reported>>
    BY <1>4, <1>5 DEF MakePlay, GoesOn
  <2> QED  BY <1>1, <1>2, <1>3, <1>5, <2>1, GamePlay
<1>6. CASE ~GoesOn'
  <2>1. Finish(p, Result(Ruling(match'.board), clientPiece[p]), Written(p, Send(cell)))
    BY <1>4, <1>6 DEF MakePlay, GoesOn
  <2> QED  BY <1>1, <1>2, <1>3, <1>6, <2>1, GameFinalPlay
<1> QED  BY <1>5, <1>6

LEMMA GameInvite ==
    ASSUME Inv, GameInv, NEW i \in Peers, Invite(i), FreshStart PROVE GameInv'
<1>1. PICK j \in Peers : /\ j = Rival(i) /\ j # i /\ Rival(j) = i
                         /\ \A r \in Peers : r = i \/ r = j
  BY RivalFacts
<1>2. /\ Types /\ status[i] = "logged" /\ status[j] = "logged" /\ DrawLots(i)
      /\ status' = [status EXCEPT ![i] = "on_match", ![j] = "waiting"]
      /\ inbox' = [inbox EXCEPT ![i] = <<>>]
      /\ left' = {} /\ reported' = [p \in Peers |-> None] /\ early' = FALSE
      /\ matches' = matches + 1 /\ board' = board
  BY <1>1 DEF Invite, Inv
<1>3. PICK x \in Pieces, first \in Peers :
        /\ clientPiece' = [clientPiece EXCEPT ![i] = x]
        /\ isTurn' = [isTurn EXCEPT ![i] = (first = i)]
        /\ invitation' = [to |-> j, piece |-> Opposite(x), first |-> (first = j)]
        /\ match' = [board |-> NewBoard,
                     piece |-> [p \in Peers |-> IF p = i THEN x ELSE Opposite(x)],
                     mover |-> first]
  BY <1>1, <1>2 DEF DrawLots
<1>4. \A p \in Peers : board[p] = NewBoard
  <2>1. matches' # matches
    BY <1>2, PeersAssumption DEF Types
  <2> QED  BY <2>1 DEF FreshStart
<1>5. Opposite(x) \in Pieces /\ Opposite(Opposite(x)) = x /\ first # None
  BY ResultIs, NoneFacts
<1>6. /\ status'[i] = "on_match" /\ status'[j] = "waiting"
      /\ clientPiece'[i] = x /\ isTurn'[i] = (first = i)
      /\ inbox'[i] = <<>> /\ reported'[i] = None /\ reported'[j] = None
  BY <1>1, <1>2, <1>3 DEF Types
<1>7. /\ match'.board = NewBoard /\ match'.mover = first
      /\ match'.piece[i] = x /\ match'.piece[j] = Opposite(x)
  BY <1>1, <1>3
<1>8. GoesOn' /\ OneWinner'
  BY <1>7, NewBoardGoesOn DEF GoesOn, OneWinner
<1>9. Sides'
  BY <1>1, <1>5, <1>7 DEF Sides
<1>10. /\ invitation'.to = j /\ invitation'.piece = Opposite(x)
       /\ invitation'.first <=> first = j
  BY <1>3
<1>11. Pending'
  BY <1>1, <1>2, <1>5, <1>6, <1>7, <1>8, <1>10 DEF Pending
<1>12. ResultsAgree'
  BY <1>1, <1>6, NoneFacts DEF ResultsAgree
<1>13. Engaged(i, j)' /\ Engaged(j, i)'
  <2>1. Playing(i)' /\ Playing(j)'
    BY <1>2, <1>5, <1>6, <1>7 DEF Playing
  <2>2. invitation' # None
    <3>1. invitation' \in [to : Peers, piece : Pieces, first : BOOLEAN]
      BY <1>1, <1>3, <1>5
    <3> QED  BY <3>1, PeersAssumption
  <2> QED  BY <1>2, <1>4, <1>6, <1>7, <1>10, <2>1, <2>2 DEF Engaged
<1>14. InGame(i, j)' /\ InGame(j, i)'
  BY <1>2, <1>4, <1>6, <1>7, <1>8 DEF InGame, UpToDate
<1>15. \A r \in Peers : Engaged(r, Rival(r))' /\ InGame(r, Rival(r))'
  BY <1>1, <1>13, <1>14
<1> QED  BY <1>8, <1>9, <1>11, <1>12, <1>15 DEF GameInv

LEMMA GameConnect == ASSUME Inv, GameInv, NEW j \in Peers, Connect(j) PROVE GameInv'
<1>1. PICK i \in Peers : /\ i = Rival(j) /\ i # j /\ Rival(i) = j
                         /\ \A r \in Peers : r = i \/ r = j
  BY RivalFacts
<1>2. /\ Types /\ Descriptors(i) /\ Engaged(i, j) /\ InGame(i, j)
      /\ Engaged(j, i) /\ Sides /\ OneWinner /\ Pending /\ ResultsAgree
  BY <1>1 DEF GameInv, Inv
<1>3. /\ status[j] = "waiting" /\ invitation # None /\ invitation.to = j
      /\ invitation' = None
      /\ UNCHANGED <<board, match, reported, early>>
  BY DEF Connect
<1>4. Sides' /\ OneWinner' /\ Pending' /\ ResultsAgree'
  BY <1>2, <1>3 DEF Sides, OneWinner, Pending, ResultsAgree
<1>5. CASE /\ pollFd[i] = "listener"
           /\ JoinMatch(j)
           /\ sock' = [p \in Peers |-> "open"]
           /\ inbox' = [p \in Peers |-> <<>>]
           /\ UNCHANGED left
  <2>1. /\ status' = [status EXCEPT ![j] = "on_match"]
        /\ clientPiece' = [clientPiece EXCEPT ![j] = invitation.piece]
        /\ isTurn' = [isTurn EXCEPT ![j] = invitation.first]
    BY <1>5 DEF JoinMatch
  <2>2. /\ status'[j] = "on_match" /\ status'[i] = status[i]
        /\ clientPiece'[j] = invitation.piece /\ clientPiece'[i] = clientPiece[i]
        /\ isTurn'[j] = invitation.first /\ isTurn'[i] = isTurn[i]
        /\ sock'[i] = "open" /\ sock'[j] = "open"
        /\ inbox'[i] = <<>> /\ inbox'[j] = <<>>
    BY <1>1, <1>2, <1>5, <2>1 DEF Types
  <2>3. status[i] = "on_match"
    BY <1>2, <1>5 DEF Descriptors
  <2>4. /\ GoesOn /\ invitation.piece = match.piece[j] /\ inbox[i] = <<>>
        /\ IF early THEN ~invitation.first
           ELSE match.board = NewBoard /\ (invitation.first <=> match.mover = j)
    BY <1>1, <1>2, <1>3 DEF Pending
  <2>5. board[j] = NewBoard /\ reported[i] = None
    BY <1>2, <1>3, <2>3 DEF Engaged, Playing
  <2>6. Engaged(i, j)' /\ Engaged(j, i)'
    <3>1. (Playing(i)' <=> Playing(i)) /\ (Playing(j)' <=> Playing(j))
      BY <1>3, <1>5 DEF Playing
    <3> QED  BY <1>2, <1>3, <2>2, <2>3, <2>4, <3>1 DEF Engaged
  <2>7. InGame(j, i)'
    BY <1>3, <2>2, <2>4, <2>5 DEF InGame, UpToDate, GoesOn
  <2>8. InGame(i, j)'
    <3>1. UpToDate(i, j)
      BY <1>2, <2>3, <2>4, Lengths, Twos DEF InGame, PlayToRead
    <3> QED  BY <1>3, <2>2, <3>1 DEF InGame, UpToDate, GoesOn
  <2>9. \A r \in Peers : Engaged(r, Rival(r))' /\ InGame(r, Rival(r))'
    BY <1>1, <2>6, <2>7, <2>8
  <2> QED  BY <1>4, <2>9 DEF GameInv
<1>6. CASE /\ status' = [status EXCEPT ![j] = "gone"]
           /\ LeaveMatch(j)
           /\ UNCHANGED <<clientPiece, isTurn, sock, inbox>>
  <2>1. status'[j] = "gone" /\ status'[i] = status[i]
    BY <1>1, <1>2, <1>6 DEF Types
  <2>2. ~Playing(j)' /\ (i \in left' <=> i \in left)
    BY <1>1, <1>3, <1>6 DEF LeaveMatch, Playing
  <2>3. Engaged(j, i)' /\ InGame(j, i)'
    BY <2>1, <2>2 DEF Engaged, InGame
  <2>4. Engaged(i, j)'
    <3>1. status[i] # "waiting"
      BY <1>1, <1>2, <1>3 DEF Engaged
    <3>2. Playing(i)' <=> Playing(i)
      BY <1>3, <2>2 DEF Playing
    <3> QED  BY <1>2, <1>3, <1>6, <2>1, <3>1, <3>2 DEF Engaged
  <2>5. InGame(i, j)'
    <3> SUFFICES ASSUME status[i] = "on_match" PROVE UpToDate(i, j)'
      BY <2>1 DEF InGame
    <3>1. inbox[i] = <<>>
      BY <1>1, <1>2, <1>3 DEF Pending
    <3>2. UpToDate(i, j)
      BY <1>2, <3>1, Lengths, Twos DEF InGame, PlayToRead
    <3> QED  BY <1>3, <1>6, <3>2 DEF UpToDate, GoesOn
  <2>6. \A r \in Peers : Engaged(r, Rival(r))' /\ InGame(r, Rival(r))'
    BY <1>1, <2>3, <2>4, <2>5
  <2> QED  BY <1>4, <2>6 DEF GameInv
<1> QED  BY <1>1, <1>5, <1>6 DEF Connect, socketVars

LEMMA GameAccept == ASSUME Inv, GameInv, NEW i \in Peers, Accept(i) PROVE GameInv'
<1>1. PICK q \in Peers : /\ q = Rival(i) /\ q # i /\ Rival(q) = i
                         /\ \A r \in Peers : r = i \/ r = q
  BY RivalFacts
<1>2. /\ Types /\ Engaged(i, q) /\ InGame(i, q)
      /\ Engaged(q, i) /\ InGame(q, i) /\ ResultsAgree
  BY <1>1 DEF GameInv, Inv
<1>3. UNCHANGED <<board, isTurn, clientPiece, sock, inbox, invitation, match, reported,
                  early>>
  BY DEF Accept, socketVars
<1>4. CASE UNCHANGED <<status, left>>
  BY <1>3, <1>4, SameGame
<1>5. CASE status' = [status EXCEPT ![i] = "logged"] /\ LeaveMatch(i)
  <2>1. status'[i] = "logged" /\ status'[q] = status[q]
    BY <1>1, <1>2, <1>5 DEF Types
  <2>2. ~Playing(i)' /\ (q \in left' <=> q \in left)
    BY <1>1, <1>3, <1>5 DEF LeaveMatch, Playing
  <2>3. ResultsAgree'
    BY <1>2, <1>3 DEF ResultsAgree
  <2> QED  BY <1>1, <1>3, <2>1, <2>2, <2>3, LeavesGame
<1> QED  BY <1>4, <1>5 DEF Accept

LEMMA NextGame == Inv /\ GameInv /\ [Next]_vars /\ [FreshStart]_vars => GameInv'
<1> SUFFICES ASSUME Inv, GameInv, [Next]_vars, [FreshStart]_vars PROVE GameInv'
  OBVIOUS
<1>1. CASE UNCHANGED vars
  <2>1. UNCHANGED <<status, board, isTurn, clientPiece, sock, inbox, invitation, match,
                    left, reported, early>>
    BY <1>1 DEF vars, clientVars, mainVars, socketVars, historyVars
  <2> QED  BY <2>1, SameGame
<1>2. CASE FreshStart /\ ~UNCHANGED vars
  <2>1. ASSUME NEW p \in Peers, Kill(p) \/ WriteFails(p) PROVE GameInv'
    BY <2>1, GameDie DEF Kill, WriteFails
  <2>2. ASSUME NEW p \in Peers,
               \/ Invite(p) \/ Connect(p) \/ Accept(p)
               \/ \E cell \in Typed : MakePlay(p, cell)
               \/ GiveUp(p) \/ WriteFails(p) \/ ReadPeer(p) \/ Kill(p)
        PROVE  GameInv'
    BY <1>2, <2>1, <2>2, GameInvite, GameConnect, GameAccept, GameMakePlay, GameGiveUp,
       GameReadPeer
  <2> QED  BY <1>2, <2>2, Zenon DEF Next
<1> QED  BY <1>1, <1>2

-----------------------------------------------------------------------------
(***************************************************************************)
(* What the game invariant says of the properties.                         *)
(***************************************************************************)

LEMMA GameBoards == Inv /\ GameInv => BoardsAgree
<1> SUFFICES ASSUME Inv, GameInv, NEW p \in Peers, status[p] = "on_match", ~early
             PROVE  Seen(p) = match.board /\ (isTurn[p] <=> match.mover = p /\ ~Unread(p))
  BY DEF BoardsAgree
<1>1. PICK q \in Peers : q = Rival(p)
  BY RivalFacts
<1>2. Engaged(p, q) /\ InGame(p, q) /\ Sides /\ board[p] \in Boards
  BY <1>1 DEF GameInv, Inv, Types
<1>3. End.type = "END" /\ \A c, d : Send(c).type = "SEND" /\ (Send(c) = Send(d) => c = d)
  <2>1. \A c : Send(c).type = "SEND" /\ Send(c).cell = c
    BY DEF Send
  <2> QED  BY <2>1 DEF End
<1>4. CASE UpToDate(p, q)
  <2>1. inbox[p] = <<>> \/ inbox[p] = <<End>>
    BY <1>4 DEF UpToDate
  <2>2. \A k \in DOMAIN inbox[p] : inbox[p][k] = End
    BY <2>1
  <2>3. ~Unread(p) /\ Unplayed(p) = {}
    BY <1>3, <2>2 DEF Unread, Unplayed
  <2>4. Seen(p) = board[p]
    BY <1>2, <2>3 DEF Seen, Boards
  <2> QED  BY <1>4, <2>3, <2>4 DEF UpToDate
<1>5. CASE PlayToRead(p, q)
  <2>1. PICK c \in Cells :
          /\ inbox[p] = <<Send(c)>> \/ inbox[p] = <<Send(c), End>>
          /\ ~isTurn[p] /\ board[p][c] = "Empty"
          /\ match.board = [board[p] EXCEPT ![c] = match.piece[q]]
    BY <1>5 DEF PlayToRead
  <2>2. /\ 1 \in DOMAIN inbox[p] /\ inbox[p][1] = Send(c)
        /\ \A k \in DOMAIN inbox[p] : inbox[p][k] \in {Send(c), End}
    BY <2>1
  <2>3. Unread(p)
    BY <1>3, <2>2 DEF Unread
  <2>4. Unplayed(p) = {c}
    BY <1>3, <2>2 DEF Unplayed
  <2>5. match.piece[q] = Opposite(clientPiece[p])
    BY <1>1, <1>2 DEF Engaged, Playing, Sides
  <2>6. Seen(p) = [board[p] EXCEPT ![c] = Opposite(clientPiece[p])]
    BY <1>2, <2>1, <2>4 DEF Seen, Boards
  <2> QED  BY <2>1, <2>3, <2>5, <2>6
<1> QED  BY <1>2, <1>4, <1>5 DEF InGame

LEMMA GameRuled == Inv /\ GameInv => CheckWinIsRight
<1> SUFFICES ASSUME Inv, GameInv PROVE checkWin(match.board) = Ruling(match.board)
  BY DEF CheckWinIsRight
<1>1. match.board \in Boards /\ ~(HasLine(match.board, "X") /\ HasLine(match.board, "O"))
  BY DEF Inv, Types, MatchStates, GameInv, OneWinner
<1> QED  BY <1>1, CheckWinFollowsTheRules

-----------------------------------------------------------------------------
(***************************************************************************)
(* The steps of the referee.                                               *)
(***************************************************************************)

LEMMA RefereeInit == Init => Game!Init
BY RefereeRules DEF Init, NoMatch, Game!Init

LEMMA RefereePlaying == \A p : Game!Playing(p) <=> Playing(p)
BY DEF Game!Playing, Playing

LEMMA RefereeBegin ==
    ASSUME Inv, GameInv, NEW i \in Peers, Invite(i) PROVE Game!Begin
<1>1. PICK j \in Peers : /\ j = Rival(i) /\ j # i /\ Rival(j) = i
                         /\ \A r \in Peers : r = i \/ r = j
  BY RivalFacts
<1>2. /\ \A p \in Peers : status[p] = "logged"
      /\ DrawLots(i) /\ left' = {} /\ reported' = [p \in Peers |-> None]
  BY DEF Invite
<1>3. PICK x \in Pieces, first \in Peers :
        match' = [board |-> NewBoard,
                  piece |-> [p \in Peers |-> IF p = i THEN x ELSE Opposite(x)],
                  mover |-> first]
  BY <1>2 DEF DrawLots
<1>4. \A p \in Peers : ~Playing(p)
  BY <1>2 DEF GameInv, Engaged
<1>5. Opposite(x) \in Pieces /\ Opposite(x) # x
  BY ResultIs
<1>6. /\ match'.board = NewBoard /\ match'.mover \in Peers
      /\ match'.piece \in [Peers -> Pieces]
      /\ match'.piece[i] = x /\ match'.piece[j] = Opposite(x)
  BY <1>1, <1>3, <1>5
<1>7. \A p \in Peers : match'.piece[p] # match'.piece[Rival(p)]
  BY <1>1, <1>5, <1>6
<1> QED  BY <1>2, <1>4, <1>6, <1>7, RefereeRules, RefereePlaying DEF Game!Begin

LEMMA RefereeVanish ==
    ASSUME NEW p \in Peers, LeaveMatch(p), UNCHANGED <<match, reported>>
    PROVE  Game!Next \/ UNCHANGED Game!vars
<1>1. CASE Playing(p)
  <2>1. Game!Vanish(p)
    BY <1>1, RefereePlaying DEF Game!Vanish, LeaveMatch
  <2> QED  BY <2>1 DEF Game!Next
<1>2. CASE ~Playing(p)
  BY <1>2 DEF LeaveMatch, Game!vars
<1> QED  BY <1>1, <1>2

\* On a match, a player plays: its report can be one of the referee's steps.
LEMMA RefereePlays ==
    ASSUME GameInv, NEW p \in Peers, status[p] = "on_match"
    PROVE  Game!Playing(p)
BY RefereePlaying DEF GameInv, Engaged

LEMMA RefereeMove ==
    ASSUME Inv, GameInv, NEW p \in Peers, NEW cell \in Typed, MakePlay(p, cell)
    PROVE  Game!Move(p)
<1>1. PICK q \in Peers : q = Rival(p)
  BY RivalFacts
<1>2. /\ status[p] = "on_match" /\ MayPlay(p, cell) /\ cell \in Cells
      /\ match' = [match EXCEPT !.board[cell] = clientPiece[p], !.mover = q]
  BY <1>1, PeersAssumption DEF MakePlay
<1>3. /\ match'.board = [match.board EXCEPT ![cell] = clientPiece[p]]
      /\ match'.piece = match.piece /\ match'.mover = q
  BY <1>2 DEF Inv, Types, MatchStates
<1>4. /\ setPlay(board[p], cell, clientPiece[p]) = match'.board
      /\ checkWin(match'.board) = Ruling(match'.board)
      /\ match.board[cell] = "Empty"
      /\ match'.board = [match.board EXCEPT ![cell] = match.piece[p]]
  BY <1>1, <1>2, <1>3, Played
<1>5. Ruling(match.board) = "In_Progress" /\ match.mover = p /\ clientPiece[p] = match.piece[p]
  <2>1. isTurn[p]
    BY <1>2 DEF MayPlay
  <2> QED  BY <1>1, <1>2, <2>1, OnTurn DEF GoesOn
<1>6. Game!Verdict(p, match'.board) = Result(Ruling(match'.board), clientPiece[p])
  BY <1>5, RefereeRules DEF Game!Verdict, Result
<1>7. /\ left' = left
      /\ reported' = IF Ruling(match'.board) = "In_Progress" THEN reported
                     ELSE [reported EXCEPT ![p] = Result(Ruling(match'.board), clientPiece[p])]
  BY <1>2, <1>4 DEF MakePlay, Finish
<1> QED  BY <1>1, <1>2, <1>3, <1>4, <1>5, <1>6, <1>7, RefereeRules, RefereePlays
         DEF Game!Move

LEMMA RefereeRead ==
    ASSUME Inv, GameInv, NEW p \in Peers, ReadPeer(p)
    PROVE  Game!Next \/ UNCHANGED Game!vars
<1>1. PICK q \in Peers : q = Rival(p) /\ q # p
  BY RivalFacts
<1>2. match' = match
  BY DEF ReadPeer
<1>3. Types /\ Invited /\ Descriptors(p) /\ Engaged(q, p)
  BY <1>1, RivalFacts DEF Inv, GameInv
<1>4. clientConnFd[p] = "conn" => status[p] = "on_match"
  BY <1>3 DEF Descriptors
<1>5. ASSUME NEW result \in {"win", "fail"}, NEW box, status[p] = "on_match",
             Finish(p, result, box),
             (q \in left /\ result = "fail") \/ reported[q] = "lost"
      PROVE  Game!Next
  <2>1. reported' = [reported EXCEPT ![p] = result] /\ left' = left
    BY <1>5 DEF Finish
  <2>2. Game!Stay(p)
    BY <1>1, <1>2, <1>5, <2>1, RefereePlays, RefereeRules DEF Game!Stay
  <2> QED  BY <2>2 DEF Game!Next
<1>6. CASE ReadFails(p)
  BY <1>2, <1>6, RefereeVanish DEF ReadFails, Die
<1>7. CASE ConnectionLost(p)
  <2>1. /\ Finish(p, "fail", inbox) /\ status[p] = "on_match"
        /\ inbox[p] = <<>> /\ sock[p] \in {"fin", "broken"}
    BY <1>4, <1>7 DEF ConnectionLost
  <2>2. status[q] # "on_match" /\ reported[q] \in {None, "lost"}
    BY <1>1, <2>1, RivalIsOut
  <2>3. status[q] # "waiting"
    <3> SUFFICES ASSUME status[q] = "waiting" PROVE FALSE
      OBVIOUS
    <3>1. invitation # None /\ invitation.to = q /\ Rival(q) = p
      BY <1>1, <1>3, RivalFacts DEF Engaged
    <3> QED  BY <1>3, <2>1, <3>1 DEF Invited
  <2>4. match.mover # None
    BY <2>1, RefereePlays DEF Game!Playing
  <2>5. q \in left \/ reported[q] = "lost"
    BY <1>3, <2>2, <2>3, <2>4 DEF Engaged, Playing
  <2> QED  BY <1>5, <2>1, <2>5
<1>8. CASE ReadMessage(p)
  <2>1. status[p] = "on_match" /\ inbox[p] # <<>>
    BY <1>4, <1>8 DEF ReadMessage
  <2>2. PICK m, rest, outcome :
          /\ m = Head(inbox[p]) /\ rest = [inbox EXCEPT ![p] = Tail(@)]
          /\ outcome = checkWin(setPlay(board[p], m.cell, Opposite(clientPiece[p])))
    OBVIOUS
  <2>3. CASE m.type = "SEND"
    <3>1. outcome = Ruling(match.board) /\ clientPiece[p] = match.piece[p]
      BY <1>1, <2>1, <2>2, <2>3, Received
    <3>2. CASE outcome = "In_Progress"
      <4>1. UNCHANGED <<left, reported>>
        BY <1>8, <2>2, <2>3, <3>2 DEF ReadMessage
      <4> QED  BY <1>2, <4>1 DEF Game!vars
    <3>3. CASE outcome # "In_Progress"
      <4>1. Finish(p, Result(outcome, clientPiece[p]), rest)
        BY <1>8, <2>2, <2>3, <3>3 DEF ReadMessage
      <4>2. /\ reported' = [reported EXCEPT ![p] = Result(outcome, clientPiece[p])]
            /\ left' = left
        BY <4>1 DEF Finish
      <4>3. Game!Verdict(p, match.board) = Result(outcome, clientPiece[p])
        BY <3>1, RefereeRules DEF Game!Verdict, Result
      <4>4. Game!Learn(p)
        BY <1>2, <2>1, <3>1, <3>3, <4>2, <4>3, RefereePlays, RefereeRules DEF Game!Learn
      <4> QED  BY <4>4 DEF Game!Next
    <3> QED  BY <3>2, <3>3
  <2>4. CASE m.type = "END"
    <3>1. reported[q] = "lost"
      BY <1>1, <2>1, <2>2, <2>4, RivalIsOut
    <3>2. Finish(p, "win", rest)
      BY <1>8, <2>2, <2>4 DEF ReadMessage
    <3> QED  BY <1>5, <2>1, <3>1, <3>2
  <2> QED  BY <1>8, <2>2, <2>3, <2>4 DEF ReadMessage
<1> QED  BY <1>6, <1>7, <1>8 DEF ReadPeer

LEMMA RefereeStep == Inv /\ GameInv /\ [Next]_vars => [Game!Next]_Game!vars
<1> SUFFICES ASSUME Inv, GameInv, [Next]_vars PROVE Game!Next \/ UNCHANGED Game!vars
  OBVIOUS
<1>1. CASE UNCHANGED vars
  BY <1>1 DEF vars, historyVars, Game!vars
<1>2. ASSUME NEW p \in Peers, Invite(p) PROVE Game!Next
  BY <1>2, RefereeBegin DEF Game!Next
<1>3. ASSUME NEW p \in Peers, Connect(p) PROVE Game!Next \/ UNCHANGED Game!vars
  <2>1. UNCHANGED <<match, reported>> /\ (LeaveMatch(p) \/ left' = left)
    BY <1>3 DEF Connect
  <2> QED  BY <2>1, RefereeVanish DEF Game!vars
<1>4. ASSUME NEW p \in Peers, Accept(p) PROVE Game!Next \/ UNCHANGED Game!vars
  <2>1. UNCHANGED <<match, reported>> /\ (LeaveMatch(p) \/ left' = left)
    BY <1>4 DEF Accept
  <2> QED  BY <2>1, RefereeVanish DEF Game!vars
<1>5. ASSUME NEW p \in Peers, NEW cell \in Typed, MakePlay(p, cell) PROVE Game!Next
  BY <1>5, RefereeMove DEF Game!Next
<1>6. ASSUME NEW p \in Peers, GiveUp(p) PROVE Game!Next
  <2>1. /\ status[p] = "on_match" /\ reported' = [reported EXCEPT ![p] = "lost"]
        /\ left' = left /\ match' = match
    BY <1>6 DEF GiveUp, Finish
  <2>2. Game!GiveUp(p)
    BY <2>1, RefereePlays DEF Game!GiveUp
  <2> QED  BY <2>2 DEF Game!Next
<1>7. ASSUME NEW p \in Peers, WriteFails(p) \/ Kill(p)
      PROVE  Game!Next \/ UNCHANGED Game!vars
  BY <1>7, RefereeVanish DEF WriteFails, Kill, Die
<1>8. ASSUME NEW p \in Peers, ReadPeer(p) PROVE Game!Next \/ UNCHANGED Game!vars
  BY <1>8, RefereeRead
<1> QED  BY <1>1, <1>2, <1>3, <1>4, <1>5, <1>6, <1>7, <1>8 DEF Next

-----------------------------------------------------------------------------
(***************************************************************************)
(* The first two matches begin on fresh boards.                            *)
(***************************************************************************)

\* An accept can fail only for an inviter of an earlier match that is invited
\* in a later one, and only then a board is left behind.
Leftovers(p) ==
    /\ isAcceptingConn[p] => matches >= 1
    /\ isAcceptingConn[p] /\ (status[p] = "waiting" \/ pollFd[p] = "conn") => matches >= 2
    /\ status[p] \in {"logged", "waiting"} /\ board[p] # NewBoard => matches >= 2

LeftoversInv == \A p \in Peers : Leftovers(p)

LEMMA InitLeftovers == Init => LeftoversInv
BY DEF Init, LeftoversInv, Leftovers

\* p keeps its board or plays, and is not invited.
LEMMA SameLeftovers ==
    ASSUME NEW p, Leftovers(p), matches' = matches,
           isAcceptingConn'[p] => isAcceptingConn[p],
           isAcceptingConn'[p] /\ pollFd'[p] = "conn" =>
              pollFd[p] = "conn" \/ status[p] = "waiting",
           status'[p] = "waiting" => status[p] = "waiting",
           \/ status'[p] \in {"on_match", "gone"} \/ board'[p] = NewBoard
           \/ status'[p] = status[p] /\ board'[p] = board[p]
    PROVE  Leftovers(p)'
BY DEF Leftovers

LEMMA LeftoversClosed ==
    ASSUME Inv, LeftoversInv, NEW p \in Peers, NEW box \in [Peers -> Seq(Messages)],
           Close(p, box), UNCHANGED <<isAcceptingConn, matches>>,
           \/ status' = [status EXCEPT ![p] = "gone"] /\ board' = board
           \/ /\ status' = [status EXCEPT ![p] = "logged"]
              /\ board' = [board EXCEPT ![p] = NewBoard]
    PROVE  LeftoversInv'
<1> SUFFICES ASSUME NEW r \in Peers PROVE Leftovers(r)'
  BY DEF LeftoversInv
<1>1. /\ status \in [Peers -> {"logged", "waiting", "on_match", "gone"}]
      /\ board \in [Peers -> Boards] /\ pollFd \in [Peers -> {"none", "listener", "conn"}]
  BY DEF Inv, Types
<1>2. pollFd' = [pollFd EXCEPT ![p] = "none"] /\ Leftovers(r)
  BY DEF Close, LeftoversInv
<1>3. CASE r = p
  <2>1. pollFd'[r] = "none" /\ status'[r] \in {"gone", "logged"}
    BY <1>1, <1>2, <1>3
  <2>2. status'[r] = "gone" \/ board'[r] = NewBoard
    BY <1>1, <1>3
  <2> QED  BY <1>2, <2>1, <2>2, SameLeftovers
<1>4. CASE r # p
  <2>1. pollFd'[r] = pollFd[r] /\ status'[r] = status[r] /\ board'[r] = board[r]
    BY <1>1, <1>2, <1>4
  <2> QED  BY <1>2, <2>1, SameLeftovers
<1> QED  BY <1>3, <1>4

LEMMA NextLeftovers == Inv /\ LeftoversInv /\ [Next]_vars => LeftoversInv'
<1> SUFFICES ASSUME Inv, LeftoversInv, [Next]_vars PROVE LeftoversInv'
  OBVIOUS
<1>1. /\ status \in [Peers -> {"logged", "waiting", "on_match", "gone"}]
      /\ board \in [Peers -> Boards] /\ inbox \in [Peers -> Seq(Messages)]
      /\ pollFd \in [Peers -> {"none", "listener", "conn"}]
      /\ isAcceptingConn \in [Peers -> BOOLEAN] /\ matches \in Nat
  BY PeersAssumption DEF Inv, Types
<1>2. \A p \in Peers : Leftovers(p) /\ Descriptors(p)
  BY DEF Inv, LeftoversInv
<1>3. CASE UNCHANGED vars
  BY <1>2, <1>3 DEF vars, clientVars, mainVars, historyVars, LeftoversInv, Leftovers
<1>4. ASSUME NEW p \in Peers, Invite(p) PROVE LeftoversInv'
  <2>1. /\ \A r \in Peers : status[r] = "logged"
        /\ status' = [status EXCEPT ![p] = "on_match", ![Rival(p)] = "waiting"]
        /\ pollFd' = [pollFd EXCEPT ![p] = "listener"]
        /\ isAcceptingConn' = [isAcceptingConn EXCEPT ![p] = TRUE]
        /\ matches' = matches + 1 /\ board' = board
    BY <1>4 DEF Invite
  <2>2. Leftovers(p)'
    BY <1>1, <2>1, RivalFacts DEF Leftovers
  <2>3. Leftovers(Rival(p))'
    <3>1. /\ Leftovers(Rival(p)) /\ Rival(p) \in Peers /\ Rival(p) # p
      BY <1>2, RivalFacts
    <3>2. /\ isAcceptingConn'[Rival(p)] = isAcceptingConn[Rival(p)]
          /\ status[Rival(p)] = "logged"
      BY <1>1, <2>1, <3>1
    <3> QED  BY <1>1, <2>1, <3>1, <3>2 DEF Leftovers
  <2> QED  BY <2>2, <2>3, RivalFacts DEF LeftoversInv
<1>5. ASSUME NEW p \in Peers, Connect(p) PROVE LeftoversInv'
  <2> SUFFICES ASSUME NEW r \in Peers PROVE Leftovers(r)'
    BY DEF LeftoversInv
  <2>1. /\ status[p] = "waiting" /\ UNCHANGED <<board, isAcceptingConn, matches>>
        /\ \/ status' = [status EXCEPT ![p] = "on_match"]
           \/ status' = [status EXCEPT ![p] = "gone"]
        /\ pollFd' = [pollFd EXCEPT ![p] = "conn"] \/ pollFd' = pollFd
    BY <1>5 DEF Connect, JoinMatch
  <2>2. CASE r = p
    BY <1>1, <1>2, <2>1, <2>2, SameLeftovers
  <2>3. CASE r # p
    <3>1. pollFd'[r] = pollFd[r] /\ status'[r] = status[r]
      BY <1>1, <2>1, <2>3
    <3> QED  BY <1>2, <2>1, <3>1, SameLeftovers
  <2> QED  BY <2>2, <2>3
<1>6. ASSUME NEW p \in Peers, Accept(p) PROVE LeftoversInv'
  <2> SUFFICES ASSUME NEW r \in Peers PROVE Leftovers(r)'
    BY DEF LeftoversInv
  <2>1. /\ isAcceptingConn[p] /\ isAcceptingConn' = [isAcceptingConn EXCEPT ![p] = FALSE]
        /\ UNCHANGED <<board, matches>>
        /\ \/ /\ pollFd[p] = "listener" /\ status' = status
              /\ pollFd' = [pollFd EXCEPT ![p] = "conn"]
           \/ /\ pollFd[p] = "conn" /\ status' = [status EXCEPT ![p] = "logged"]
              /\ pollFd' = pollFd
    BY <1>6 DEF Accept
  <2>2. CASE r = p
    <3>1. ~isAcceptingConn'[p] /\ status'[p] \in {"logged", status[p]}
      BY <1>1, <2>1
    <3>2. pollFd[p] = "listener" => status[p] = "on_match" /\ status' = status
      BY <1>2, <2>1 DEF Descriptors
    <3>3. pollFd[p] = "conn" => matches >= 2
      BY <1>2, <2>1 DEF Leftovers
    <3> QED  BY <1>1, <2>1, <2>2, <3>1, <3>2, <3>3 DEF Leftovers
  <2>3. CASE r # p
    <3>1. /\ pollFd'[r] = pollFd[r] /\ status'[r] = status[r]
          /\ isAcceptingConn'[r] = isAcceptingConn[r]
      BY <1>1, <2>1, <2>3
    <3> QED  BY <1>2, <2>1, <3>1, SameLeftovers
  <2> QED  BY <2>2, <2>3
<1>7. ASSUME NEW p \in Peers, Die(p), matches' = matches PROVE LeftoversInv'
  BY <1>1, <1>7, LeftoversClosed DEF Die
<1>8. ASSUME NEW p \in Peers, NEW result, NEW box \in [Peers -> Seq(Messages)],
             status[p] = "on_match", Finish(p, result, box), matches' = matches
      PROVE  LeftoversInv'
  BY <1>8, LeftoversClosed DEF Finish, EndGame
<1>9. ASSUME NEW p \in Peers, status[p] = "on_match",
             NEW b, board' = [board EXCEPT ![p] = b],
             UNCHANGED <<status, pollFd, isAcceptingConn, matches>>
      PROVE  LeftoversInv'
  <2> SUFFICES ASSUME NEW r \in Peers PROVE Leftovers(r)'
    BY DEF LeftoversInv
  <2>1. status'[r] = "on_match" \/ board'[r] = board[r]
    BY <1>1, <1>9
  <2> QED  BY <1>2, <1>9, <2>1, SameLeftovers
<1>10. ASSUME NEW p \in Peers, NEW cell \in Typed, MakePlay(p, cell) PROVE LeftoversInv'
  <2>1. status[p] = "on_match" /\ matches' = matches /\ Send(cell) \in Messages
    BY <1>10, PeersAssumption DEF MakePlay, Messages
  <2>2. Written(p, Send(cell)) \in [Peers -> Seq(Messages)]
    BY <2>1, WrittenFacts
  <2>3. PICK played, outcome :
          /\ played = setPlay(board[p], cell, clientPiece[p])
          /\ outcome = Result(checkWin(played), clientPiece[p])
    OBVIOUS
  <2>4. \/ /\ board' = [board EXCEPT ![p] = played]
           /\ UNCHANGED <<status, pollFd, isAcceptingConn>>
        \/ Finish(p, outcome, Written(p, Send(cell)))
    BY <1>10, <2>3 DEF MakePlay, mainVars
  <2> QED  BY <1>8, <1>9, <2>1, <2>2, <2>4
<1>11. ASSUME NEW p \in Peers, GiveUp(p) PROVE LeftoversInv'
  <2>1. /\ status[p] = "on_match" /\ matches' = matches
        /\ Finish(p, "lost", Written(p, End))
    BY <1>11 DEF GiveUp
  <2>2. Written(p, End) \in [Peers -> Seq(Messages)]
    BY <2>1, WrittenFacts DEF Messages
  <2> QED  BY <1>8, <2>1, <2>2
<1>12. ASSUME NEW p \in Peers, ReadPeer(p) PROVE LeftoversInv'
  <2>1. matches' = matches
    BY <1>12 DEF ReadPeer
  <2>2. CASE ReadFails(p)
    BY <1>7, <2>1, <2>2 DEF ReadFails
  <2>3. CASE ReadMessage(p) \/ ConnectionLost(p)
    <3>1. status[p] = "on_match"
      BY <1>2, <2>3 DEF ReadMessage, ConnectionLost, Descriptors
    <3>2. PICK rest : rest = [inbox EXCEPT ![p] = Tail(@)]
      OBVIOUS
    <3>3. ReadMessage(p) => rest \in [Peers -> Seq(Messages)]
      <4>1. inbox[p] # <<>> => Tail(inbox[p]) \in Seq(Messages)
        BY <1>1, Lengths
      <4> QED  BY <1>1, <3>2, <4>1 DEF ReadMessage
    <3>4. \/ ConnectionLost(p) /\ \E result : Finish(p, result, inbox)
          \/ ReadMessage(p) /\ \E result : Finish(p, result, rest)
          \/ /\ \E b : board' = [board EXCEPT ![p] = b]
             /\ UNCHANGED <<status, pollFd, isAcceptingConn>>
      BY <2>3, <3>2 DEF ReadMessage, ConnectionLost, mainVars
    <3> QED  BY <1>1, <1>8, <1>9, <2>1, <3>1, <3>3, <3>4
  <2> QED  BY <1>12, <2>2, <2>3 DEF ReadPeer
<1>13. ASSUME NEW p \in Peers, WriteFails(p) \/ Kill(p) PROVE LeftoversInv'
  BY <1>7, <1>13 DEF WriteFails, Kill
<1> QED  BY <1>3, <1>4, <1>5, <1>6, <1>10, <1>11, <1>12, <1>13 DEF Next

\* A third match is not begun.
LEMMA TwoAreFresh ==
    ASSUME MaxMatches <= 2, Inv, LeftoversInv, [Next]_vars PROVE [FreshStart]_vars
<1> SUFFICES ASSUME matches' # matches, NEW r \in Peers PROVE board[r] = NewBoard
  BY DEF FreshStart
<1>1. PICK p \in Peers : Invite(p)
  <2>1. ASSUME NEW p \in Peers, ReadPeer(p) \/ (\E cell \in Typed : MakePlay(p, cell))
        PROVE  FALSE
    BY <2>1 DEF ReadPeer, MakePlay
  <2>2. ASSUME NEW p \in Peers,
               Connect(p) \/ Accept(p) \/ GiveUp(p) \/ WriteFails(p) \/ Kill(p)
        PROVE  FALSE
    BY <2>2 DEF Connect, Accept, GiveUp, WriteFails, Kill
  <2>3. ~UNCHANGED vars
    BY DEF vars, historyVars
  <2> QED  BY <2>1, <2>2, <2>3 DEF Next
<1>2. status[r] = "logged" /\ matches < MaxMatches
  BY <1>1 DEF Invite
<1>3. matches \in Nat /\ MaxMatches \in Nat
  BY PeersAssumption DEF Inv, Types
<1>4. Leftovers(r)
  BY DEF LeftoversInv
<1> QED  BY <1>2, <1>3, <1>4 DEF Leftovers

-----------------------------------------------------------------------------
(***************************************************************************)
(* One game, one outcome.                                                  *)
(***************************************************************************)

LEMMA GameInvariant == Spec /\ [][FreshStart]_vars => [](Inv /\ GameInv)
<1>1. Init => Inv /\ GameInv
  BY InitInv, InitGame
<1>2. Inv /\ GameInv /\ [Next]_vars /\ [FreshStart]_vars => (Inv /\ GameInv)'
  BY NextInv, NextGame
<1> QED  BY <1>1, <1>2, PTL DEF Spec

\* Of two matches in a row neither is begun with an old board: an accept fails
\* only in the second, for an inviter of the first that gave up unconnected.
LEMMA TwoMatchesFresh == MaxMatches <= 2 => (Spec => [][FreshStart]_vars)
<1> SUFFICES ASSUME MaxMatches <= 2 PROVE Spec => [][FreshStart]_vars
  OBVIOUS
<1>1. Init => Inv /\ LeftoversInv
  BY InitInv, InitLeftovers
<1>2. Inv /\ LeftoversInv /\ [Next]_vars => (Inv /\ LeftoversInv)'
  BY NextInv, NextLeftovers
<1>3. Inv /\ LeftoversInv /\ [Next]_vars => [FreshStart]_vars
  BY TwoAreFresh
<1> QED  BY <1>1, <1>2, <1>3, PTL DEF Spec

\* While both boards of every match are fresh at its start, the two clients see
\* one game (parseSend, parseClientMessage): what is on a board and what is on
\* its way to it make up the same game, and exactly the one it waits for is on
\* turn, however plays, give-ups and deaths cross.
THEOREM BoardsOfOneGame == Spec /\ [][FreshStart]_vars => []BoardsAgree
BY GameInvariant, GameBoards, PTL

\* The results that two clients send with FINISH are never those of two
\* different games.
THEOREM ResultsOfOneGame == Spec /\ [][FreshStart]_vars => []ResultsAgree
<1>1. Inv /\ GameInv => ResultsAgree
  BY DEF GameInv
<1> QED  BY <1>1, GameInvariant, PTL

\* No game goes on after a line, so checkWin is only asked about boards on which
\* it follows the rules (Tictactoe.cpp:44-86).
THEOREM CheckWinDecides == Spec /\ [][FreshStart]_vars => []CheckWinIsRight
BY GameInvariant, GameRuled, PTL

\* Two clients with boards of their own implement the referee's one game: all
\* moves are in turn and on empty positions, and every result reported to the
\* server is the referee's.
THEOREM MatchImplementsReferee == Spec /\ [][FreshStart]_vars => PlaysByTheRules
BY GameInvariant, RefereeInit, RefereeStep, PTL DEF Spec, PlaysByTheRules, Game!Spec

\* For two matches in a row all this holds of the clients as they are.
THEOREM TwoMatchesByTheRules ==
    MaxMatches <= 2 =>
        (Spec => PlaysByTheRules /\ [](BoardsAgree /\ ResultsAgree /\ CheckWinIsRight))
<1> SUFFICES ASSUME MaxMatches <= 2
             PROVE  Spec => PlaysByTheRules
                            /\ [](BoardsAgree /\ ResultsAgree /\ CheckWinIsRight)
  OBVIOUS
<1>1. Spec => [][FreshStart]_vars
  BY TwoMatchesFresh
<1> QED  BY <1>1, BoardsOfOneGame, ResultsOfOneGame, CheckWinDecides,
            MatchImplementsReferee, PTL
=============================================================================

-------------------------------- MODULE Match --------------------------------
(***************************************************************************)
(* Matches between two clients (client main.cpp with its parsers): who     *)
(* accepts an invitation connects to the one who sent it, then the two     *)
(* play on boards of their own, exchange SEND and END on that connection,  *)
(* and report START and FINISH to the server.                              *)
(*                                                                         *)
(* A match starts here where the inviter handles the acceptance; how the   *)
(* two agreed is not modelled.  Several matches follow each other, for     *)
(* what one leaves behind in a client is there in the next.                *)
(***************************************************************************)
EXTENDS Tictactoe, Sequences

CONSTANTS
    Peers,       \* the two clients
    None,        \* no client, no invitation, no result
    Typed,       \* bound: the positions that users play on
    MaxMatches,  \* bound: matches one after the other
    Kills        \* may a client process be killed?

ASSUME PeersAssumption ==
    /\ \E p, q \in Peers : p # q /\ Peers = {p, q}
    /\ None \notin Peers \cup {"win", "lost", "draw", "fail"}
    /\ None \notin [to : Peers, piece : Pieces, first : BOOLEAN]
    /\ Typed \subseteq Cells
    /\ MaxMatches \in Nat /\ Kills \in BOOLEAN

VARIABLES
    \* Client.hpp
    status,           \* "logged", "waiting", "on_match", "gone"
    board, isTurn, clientPiece,
    \* The locals of main
    clientConnFd,     \* "none" (-1, or not set yet) or "conn"
    pollFd,           \* what pfds[2] is: "none" (nfds is 2), "listener", "conn"
    isAcceptingConn,
    \* The connection between the two
    sock,             \* as each end sees it; "none": no connection
    inbox,            \* the messages each end has not read
    \* The BEGINRESPACK on its way from the inviter to the invited client
    invitation,
    \* History, read by the properties only
    match,            \* the one game: its board, the pieces, who is to move
    left, reported,   \* who left without a report, and the FINISH of the others
    started,          \* who has sent START
    early,            \* the inviter moved before the connection was accepted
    matches

clientVars  == <<status, board, isTurn, clientPiece>>
mainVars    == <<clientConnFd, pollFd, isAcceptingConn>>
socketVars  == <<sock, inbox>>
historyVars == <<match, left, reported, started, early, matches>>
vars == <<clientVars, mainVars, socketVars, invitation, historyVars>>

Rival(p) == CHOOSE q \in Peers : q # p

Send(cell) == [type |-> "SEND", cell |-> cell]
End        == [type |-> "END", cell |-> <<0, 0>>]
Messages   == {Send(cell) : cell \in Cells} \cup {End}
Results    == {"win", "lost", "draw", "fail"}

NoMatch == [board |-> NewBoard, piece |-> [p \in Peers |-> None], mover |-> None]

Init ==
    /\ status = [p \in Peers |-> "logged"]
    /\ board = [p \in Peers |-> NewBoard]
    /\ isTurn = [p \in Peers |-> FALSE]
    /\ clientPiece = [p \in Peers |-> "Empty"]
    /\ clientConnFd = [p \in Peers |-> "none"]
    /\ pollFd = [p \in Peers |-> "none"]
    /\ isAcceptingConn = [p \in Peers |-> FALSE]
    /\ sock = [p \in Peers |-> "none"]
    /\ inbox = [p \in Peers |-> <<>>]
    /\ invitation = None
    /\ match = NoMatch
    /\ left = {}
    /\ reported = [p \in Peers |-> None]
    /\ started = {}
    /\ early = FALSE
    /\ matches = 0

\* p is in the current match and has not come to its end.
Playing(p) == match.mover # None /\ reported[p] = None /\ p \notin left

-----------------------------------------------------------------------------
(***************************************************************************)
(* Beginning a match.                                                      *)
(***************************************************************************)

\* parseBeginResp: the inviter draws the pieces and the first player, and tells
\* the invited client.
DrawLots(i) ==
    LET j == Rival(i)
    IN  \E x \in Pieces, first \in Peers :
            /\ clientPiece' = [clientPiece EXCEPT ![i] = x]
            /\ isTurn' = [isTurn EXCEPT ![i] = (first = i)]
            /\ invitation' = [to |-> j, piece |-> Opposite(x), first |-> (first = j)]
            /\ match' = [board |-> NewBoard,
                         piece |-> [p \in Peers |-> IF p = i THEN x ELSE Opposite(x)],
                         mover |-> first]

\* The inviter handles BEGINRESP: it is on the match at once, listens, and
\* answers with BEGINRESPACK.  pfds[2] is overwritten: what it was is not looked
\* at any more.
Invite(i) ==
    /\ \A p \in Peers : status[p] = "logged"
    /\ invitation = None
    /\ matches < MaxMatches
    /\ DrawLots(i)
    /\ status' = [status EXCEPT ![i] = "on_match", ![Rival(i)] = "waiting"]
    /\ pollFd' = [pollFd EXCEPT ![i] = "listener"]
    /\ isAcceptingConn' = [isAcceptingConn EXCEPT ![i] = TRUE]
    /\ sock' = [sock EXCEPT ![i] = "none"]
    /\ inbox' = [inbox EXCEPT ![i] = <<>>]
    /\ left' = {}
    /\ reported' = [p \in Peers |-> None]
    /\ started' = {}
    /\ early' = FALSE
    /\ matches' = matches + 1
    /\ UNCHANGED <<board, clientConnFd>>

\* A process that ends leaves its match, and its sockets are closed.
LeaveMatch(p) == left' = IF Playing(p) THEN left \cup {p} ELSE left

\* parseBeginRespAck: the invited client is on the match.
JoinMatch(j) ==
    /\ status' = [status EXCEPT ![j] = "on_match"]
    /\ clientPiece' = [clientPiece EXCEPT ![j] = invitation.piece]
    /\ isTurn' = [isTurn EXCEPT ![j] = invitation.first]

\* The invited client handles BEGINRESPACK and connects to the inviter; if
\* nobody listens there any more, the client exits.
Connect(j) ==
    LET i == Rival(j)
    IN  /\ status[j] = "waiting"
        /\ invitation # None /\ invitation.to = j
        /\ invitation' = None
        /\ \/ /\ pollFd[i] = "listener"
              /\ JoinMatch(j)
              /\ clientConnFd' = [clientConnFd EXCEPT ![j] = "conn"]
              /\ pollFd' = [pollFd EXCEPT ![j] = "conn"]
              /\ sock' = [p \in Peers |-> "open"]
              /\ inbox' = [p \in Peers |-> <<>>]
              /\ started' = started \cup {j}
              /\ UNCHANGED left
           \/ /\ pollFd[i] # "listener"
              /\ status' = [status EXCEPT ![j] = "gone"]
              /\ LeaveMatch(j)
              /\ UNCHANGED <<clientPiece, isTurn, clientConnFd, pollFd,
                             socketVars, started>>
        /\ UNCHANGED <<board, isAcceptingConn, match, reported, early, matches>>

\* Mutant: the end of the connection does not wake the main loop.
ReadableMessages(p) == pollFd[p] # "none" /\ inbox[p] # <<>>

\* The main loop takes a readable pfds[2] for the listener as long as
\* isAcceptingConn is set; accept on a connection fails.
Readable(p) == pollFd[p] # "none" /\ (inbox[p] # <<>> \/ sock[p] \notin {"none", "open"})

Accept(i) ==
    /\ isAcceptingConn[i]
    /\ isAcceptingConn' = [isAcceptingConn EXCEPT ![i] = FALSE]
    /\ \/ /\ pollFd[i] = "listener" /\ sock[i] # "none"
          /\ clientConnFd' = [clientConnFd EXCEPT ![i] = "conn"]
          /\ pollFd' = [pollFd EXCEPT ![i] = "conn"]
          /\ started' = started \cup {i}
          /\ UNCHANGED <<status, left>>
       \/ /\ pollFd[i] = "conn" /\ Readable(i)
          /\ clientConnFd' = [clientConnFd EXCEPT ![i] = "none"]
          /\ status' = [status EXCEPT ![i] = "logged"]
          /\ LeaveMatch(i)
          /\ UNCHANGED <<pollFd, started>>
    /\ UNCHANGED <<board, isTurn, clientPiece, socketVars, invitation,
                   match, reported, early, matches>>

-----------------------------------------------------------------------------
(***************************************************************************)
(* Ending it.                                                              *)
(***************************************************************************)

\* The other end after p closes its end with the messages in box unread: a
\* listener resets the connections it has not accepted, and a connection is
\* reset if p leaves messages behind.
Hangup(p, box) ==
    IF pollFd[p] = "conn" /\ box[p] = <<>> THEN "fin" ELSE "reset"

\* p closes pfds[2].fd, when the messages in box are on the connection.
Close(p, box) ==
    /\ sock' = [sock EXCEPT ![p] = "none",
                            ![Rival(p)] = IF @ = "open" THEN Hangup(p, box) ELSE @]
    /\ inbox' = [box EXCEPT ![p] = <<>>]
    /\ pollFd' = [pollFd EXCEPT ![p] = "none"]
    /\ clientConnFd' = [clientConnFd EXCEPT ![p] = "none"]

\* Mutant: the board is not reset.
EndGameKeepBoard(p) ==
    /\ status' = [status EXCEPT ![p] = "logged"]
    /\ isTurn' = [isTurn EXCEPT ![p] = FALSE]
    /\ clientPiece' = [clientPiece EXCEPT ![p] = "Empty"]
    /\ UNCHANGED board

\* Client::endGame resets the game of a client on a match.
EndGame(p) ==
    IF status[p] = "on_match"
    THEN /\ status' = [status EXCEPT ![p] = "logged"]
         /\ board' = [board EXCEPT ![p] = NewBoard]
         /\ isTurn' = [isTurn EXCEPT ![p] = FALSE]
         /\ clientPiece' = [clientPiece EXCEPT ![p] = "Empty"]
    ELSE UNCHANGED clientVars

\* closingGame, with FINISH result sent to the server.
Finish(p, result, box) ==
    /\ Close(p, box)
    /\ EndGame(p)
    /\ reported' = [reported EXCEPT ![p] = result]
    /\ UNCHANGED <<isAcceptingConn, left>>

\* The process of p ends.
Die(p) ==
    /\ Close(p, inbox)
    /\ status' = [status EXCEPT ![p] = "gone"]
    /\ LeaveMatch(p)
    /\ UNCHANGED <<board, isTurn, clientPiece, isAcceptingConn, reported>>

Kill(p) ==
    /\ Kills
    /\ status[p] # "gone"
    /\ Die(p)
    /\ UNCHANGED <<invitation, match, started, early, matches>>

-----------------------------------------------------------------------------
(***************************************************************************)
(* Playing.                                                                *)
(***************************************************************************)

\* Mutants: a message is written twice; SEND goes to the wrong socket.
WrittenTwice(p, m) ==
    IF clientConnFd[p] = "conn" /\ sock[p] = "open"
    THEN [inbox EXCEPT ![Rival(p)] = @ \o <<m, m>>]
    ELSE inbox
WrittenAstray(p, m) ==
    IF clientConnFd[p] = "conn" /\ sock[p] = "open" /\ m.type # "SEND"
    THEN [inbox EXCEPT ![Rival(p)] = Append(@, m)]
    ELSE inbox

\* writeToSocket(clientConnFd, m): without a connection, and on one whose
\* other end is closed, the message is lost.
Written(p, m) ==
    IF clientConnFd[p] = "conn" /\ sock[p] = "open"
    THEN [inbox EXCEPT ![Rival(p)] = Append(@, m)]
    ELSE inbox

\* The connection after a write: one to a closed end breaks it, and on a
\* broken one the next write ends the process.
AfterWrite(p) ==
    IF clientConnFd[p] = "conn" /\ sock[p] \in {"fin", "reset"}
    THEN [sock EXCEPT ![p] = "broken"] ELSE sock

CanWrite(p) == ~(clientConnFd[p] = "conn" /\ sock[p] = "broken")

\* The user's command is written to a broken connection.
WriteFails(p) ==
    /\ status[p] = "on_match" /\ ~CanWrite(p)
    /\ Die(p)
    /\ UNCHANGED <<invitation, match, started, early, matches>>

\* Mutant: whose piece has won is not looked at.
ResultAnyPiece(outcome, piece) == IF outcome = "Draw" THEN "draw" ELSE "win"

\* The result of a game that has ended in outcome.
Result(outcome, piece) ==
    CASE outcome = "Draw"        -> "draw"
      [] outcome = Winner(piece) -> "win"
      [] OTHER                   -> "lost"

\* Mutant: the turn is not checked.
MayPlayAnyTurn(p, cell) == canSetPlay(board[p], cell)

\* What parseSend checks of a play: the turn, and that the position is empty.
MayPlay(p, cell) == isTurn[p] /\ canSetPlay(board[p], cell)

\* The user sends a play (parseSend).
MakePlay(p, cell) ==
    LET played  == setPlay(board[p], cell, clientPiece[p])
        outcome == checkWin(played)
        box     == Written(p, Send(cell))
    IN  /\ status[p] = "on_match" /\ CanWrite(p)
        /\ MayPlay(p, cell)
        /\ match' = [match EXCEPT !.board[cell] = clientPiece[p], !.mover = Rival(p)]
        /\ early' = (early \/ clientConnFd[p] = "none")
        /\ \/ /\ outcome = "In_Progress"
              /\ board' = [board EXCEPT ![p] = played]
              /\ isTurn' = [isTurn EXCEPT ![p] = FALSE]
              /\ inbox' = box
              /\ sock' = AfterWrite(p)
              /\ UNCHANGED <<status, clientPiece, mainVars, left, reported>>
           \/ /\ outcome # "In_Progress"
              /\ Finish(p, Result(outcome, clientPiece[p]), box)
        /\ UNCHANGED <<invitation, started, matches>>

\* The user gives up (parseEnd).
GiveUp(p) ==
    /\ status[p] = "on_match" /\ CanWrite(p)
    /\ Finish(p, "lost", Written(p, End))
    /\ UNCHANGED <<invitation, match, started, early, matches>>

\* parseClientMessage: a play of the rival, which may end the game, or END.
ReadMessage(p) ==
    LET m       == Head(inbox[p])
        rest    == [inbox EXCEPT ![p] = Tail(@)]
        played  == setPlay(board[p], m.cell, Opposite(clientPiece[p]))
        outcome == checkWin(played)
    IN  /\ clientConnFd[p] = "conn" /\ inbox[p] # <<>>
        /\ \/ /\ m.type = "SEND" /\ outcome = "In_Progress"
              /\ board' = [board EXCEPT ![p] = played]
              /\ isTurn' = [isTurn EXCEPT ![p] = TRUE]
              /\ inbox' = rest
              /\ UNCHANGED <<status, clientPiece, mainVars, sock, left, reported>>
           \/ /\ m.type = "SEND" /\ outcome # "In_Progress"
              /\ Finish(p, Result(outcome, clientPiece[p]), rest)
           \/ /\ m.type = "END"
              /\ Finish(p, "win", rest)

\* The connection has ended.
ConnectionLost(p) ==
    /\ clientConnFd[p] = "conn" /\ inbox[p] = <<>>
    /\ sock[p] \in {"fin", "broken"}
    /\ Finish(p, "fail", inbox)

\* read fails, after a reset or on the descriptor -1: commonRead then uses -1 as
\* the length of its data, and the process ends.
ReadFails(p) ==
    /\ \/ clientConnFd[p] = "none"
       \/ inbox[p] = <<>> /\ sock[p] = "reset"
    /\ Die(p)

\* The main loop reads from clientConnFd when pfds[2] is readable.
ReadPeer(p) ==
    /\ status[p] # "gone"
    /\ pollFd[p] = "conn" /\ ~isAcceptingConn[p]
    /\ Readable(p)
    /\ ReadMessage(p) \/ ConnectionLost(p) \/ ReadFails(p)
    /\ UNCHANGED <<invitation, match, started, early, matches>>

Next ==
    \E p \in Peers :
        \/ Invite(p)
        \/ Connect(p)
        \/ Accept(p)
        \/ \E cell \in Typed : MakePlay(p, cell)
        \/ GiveUp(p)
        \/ WriteFails(p)
        \/ ReadPeer(p)
        \/ Kill(p)

Spec == Init /\ [][Next]_vars

\* The main loop serves every readable descriptor; nothing is asked of users.
FairSpec ==
    /\ Spec
    /\ \A p \in Peers : WF_vars(Connect(p)) /\ WF_vars(Accept(p)) /\ WF_vars(ReadPeer(p))

-----------------------------------------------------------------------------
(***************************************************************************)
(* Properties.                                                             *)
(***************************************************************************)

\* The state has the types of the declarations (Client.hpp and the locals of
\* main); the rival's messages never pile up beyond one play and one END.
TypeOK ==
    /\ status \in [Peers -> {"logged", "waiting", "on_match", "gone"}]
    /\ board \in [Peers -> Boards]
    /\ isTurn \in [Peers -> BOOLEAN]
    /\ clientPiece \in [Peers -> Marks]
    /\ clientConnFd \in [Peers -> {"none", "conn"}]
    /\ pollFd \in [Peers -> {"none", "listener", "conn"}]
    /\ isAcceptingConn \in [Peers -> BOOLEAN]
    /\ sock \in [Peers -> {"none", "open", "fin", "reset", "broken"}]
    /\ \A p \in Peers : inbox[p] \in Seq(Messages) /\ Len(inbox[p]) <= 2
    /\ invitation = None
          \/ invitation \in [to : Peers, piece : Pieces, first : BOOLEAN]
    /\ match.board \in Boards /\ match.mover \in Peers \cup {None}
    /\ match.piece \in [Peers -> Pieces \cup {None}]
    /\ left \subseteq Peers /\ started \subseteq Peers
    /\ reported \in [Peers -> Results \cup {None}]
    /\ early \in BOOLEAN /\ matches \in 0..MaxMatches

\* The two boards, the connection between them and the reports to the server
\* together are one game played by the rules (parseSend on both sides, parseEnd,
\* closingGame): nobody moves out of turn or on a taken position of the other's
\* board, and each FINISH tells how the one game ended.
Game == INSTANCE Referee
    WITH board <- match.board, piece <- match.piece, mover <- match.mover
PlaysByTheRules == Game!Spec

\* The plays of the rival that p has not read yet, and the board of p after them.
Unplayed(p) ==
    {c \in Cells : \E k \in DOMAIN inbox[p] : inbox[p][k] = Send(c)}

Seen(p) ==
    [c \in Cells |-> IF c \in Unplayed(p) /\ board[p][c] = "Empty"
                     THEN Opposite(clientPiece[p]) ELSE board[p][c]]

Unread(p) == \E k \in DOMAIN inbox[p] : inbox[p][k].type = "SEND"

\* On a connection, what a player sees and what is on the way to it make up the
\* game, and it takes its turn exactly when the rival's play has arrived
\* (receivePlay, setOnTurn, setOffTurn): the two boards cannot drift apart, and
\* the two players are never both on turn.
BoardsAgree ==
    \A p \in Peers :
        status[p] = "on_match" /\ sock[p] # "none" /\ ~early =>
            /\ Seen(p) = match.board
            /\ isTurn[p] <=> match.mover = p /\ ~Unread(p)

\* The results that two players report of one match can be those of one match
\* (the server adds two points for each win and one for each draw): a win of
\* one goes with a defeat of the other, and a draw with a draw or, if the other
\* gave up before it saw the last play, a defeat.
ResultsAgree ==
    \A p \in Peers : reported[Rival(p)] # None =>
        /\ reported[p] = "win" => reported[Rival(p)] = "lost"
        /\ reported[p] = "draw" => reported[Rival(p)] \in {"draw", "lost"}

\* A client that reports points has reported the start of the match before (the
\* inviter may move and give up before anybody has connected, and the server
\* finds the enemy of a FINISH by what START said, mainThread.cpp:320,335).
PointsAfterStart ==
    \A p \in Peers : reported[p] \in {"win", "draw"} => p \in started

\* checkWin finds the winner by the rules on every board that a game reaches,
\* though it may stop at a diagonal of three empty positions.
CheckWinIsRight == checkWin(match.board) = Ruling(match.board)

\* Nobody stays on a match, over a connection, with a player who is not there
\* any more (END, the last play, or the end of the connection gets through).
MatchLetsGo ==
    \A p \in Peers :
        (status[p] = "on_match" /\ sock[p] # "none" /\ status[Rival(p)] # "on_match")
            ~> status[p] # "on_match"

\* A player whose turn it is gets to know it, or the match ends: the two do not
\* wait for each other (unless a play was made before the connection).
TurnComes ==
    \A p \in Peers :
        (Playing(p) /\ match.mover = p /\ ~early)
            ~> (isTurn[p] \/ ~Playing(p) \/ match.mover # p \/ early)
=============================================================================

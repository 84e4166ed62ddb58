----------------------------- MODULE Matchmaking -----------------------------
(***************************************************************************)
(* How two clients come to play together: invitations, answers,            *)
(* cancellations and their acknowledgements, relayed by the server's main  *)
(* thread (mainThread.cpp) between client shells (main.cpp and the         *)
(* parsers), up to the connection between the two and the server's table   *)
(* of who plays against whom.                                              *)
(*                                                                         *)
(* A player is at most one client, logged in under its own name.  Its      *)
(* socket and thread in either direction are one queue here (Session.tla   *)
(* has every hop); the main thread takes the requests of different clients *)
(* in any order.  The game itself is in Match.tla: a client leaves its     *)
(* match when it likes.  When the server stops, or blocks, everything      *)
(* stops: what the clients still do then, they could have done before.     *)
(***************************************************************************)
EXTENDS Integers, Sequences

CONSTANTS
    Players,   \* the clients and their usernames
    Stranger,  \* a username without a player
    NoOne,     \* the empty username ""
    MaxTyped,  \* bound: commands typed by all users together
    Kills      \* the statuses in which a client process may be killed

Names == Players \cup {Stranger}
Statuses == {"not_logged", "logged", "waiting", "on_match", "gone"}

ASSUME ConstantsAssumption ==
    /\ Stranger \notin Players /\ NoOne \notin Names
    /\ MaxTyped \in Nat
    /\ Kills \subseteq Statuses \ {"gone"}

VARIABLES
    client,         \* Client.hpp and the locals of main
    ports,          \* the number of ports listened on so far
    open, joined,   \* <<n, p>>: p holds an open end of port n, or connected to it
    toMain, fromMain,
    isOnline,       \* Player.hpp
    enemyUsername,
    server,         \* "up", or why it does not go on
    \* History
    fresh,          \* who has an invitation on the screen, not answered
    left,           \* <<n, p>>: p left the match of port n
    orderly,        \* nobody has cancelled, answered an invitation again, typed
                    \* before a login or logout was answered, or died waiting
    typed

sockets == <<ports, open, joined>>
table   == <<isOnline, enemyUsername>>
history == <<fresh, left, orderly, typed>>
vars == <<client, sockets, toMain, fromMain, table, server, history>>

Clients ==
    [status : Statuses,
     inviteTo : Names \cup {NoOne}, inviteFrom : Players \cup {NoOne},
     rival : Players \cup {NoOne},  \* rivalUsername
     accepting : BOOLEAN,           \* isAcceptingConn
     poll : {"none", "listener", "conn", "lost"},
                    \* what pfds[2] is; "lost": a connection, but clientConnFd
                    \* is -1 because accept failed on it
     port : Nat]                    \* the port pfds[2] belongs to

\* who is the other player, ok the answer ("accept") or the STATUS, port the
\* PORT line.
Msg(type, who, ok, port) == [type |-> type, who |-> who, ok |-> ok, port |-> port]
Plain(type, who) == Msg(type, who, TRUE, 0)

Requests == {"LOGIN", "LOGOUT", "EXIT", "CANCEL", "BEGINREQ", "BEGINRESP",
             "BEGINREQACK", "BEGINRESPACK", "START", "FINISH", "FAREWELL"}
Responses == {"LOGINACK", "LOGOUTACK", "EXITACK", "CANCEL", "BEGINREQ",
              "BEGINRESP", "BEGINREQACK", "BEGINRESPACK"}

Init ==
    /\ client = [p \in Players |->
                   [status |-> "logged", inviteTo |-> NoOne, inviteFrom |-> NoOne,
                    rival |-> NoOne, accepting |-> FALSE, poll |-> "none",
                    port |-> 0]]
    /\ ports = 0 /\ open = {} /\ joined = {}
    /\ toMain = [p \in Players |-> <<>>]
    /\ fromMain = [p \in Players |-> <<>>]
    /\ isOnline = Players
    /\ enemyUsername = [p \in Players |-> NoOne]
    /\ server = "up"
    /\ fresh = {} /\ left = {} /\ orderly = TRUE /\ typed = 0

\* What p writes to the server.
Send(p, messages) == toMain' = [toMain EXCEPT ![p] = @ \o messages]

-----------------------------------------------------------------------------
(***************************************************************************)
(* What users type (parseUserInput).                                       *)
(***************************************************************************)

\* p waits for the answer to a login, logout or exit.
Awaiting(p) ==
    \/ \E i \in DOMAIN toMain[p] : toMain[p][i].type \in {"LOGIN", "LOGOUT", "EXIT"}
    \/ \E i \in DOMAIN fromMain[p] :
          fromMain[p][i].type \in {"LOGINACK", "LOGOUTACK", "EXITACK"}

\* The user of p types something that is allowed in the statuses given.
Type(p, statuses, message, inOrder) ==
    /\ server = "up"
    /\ client[p].status \in statuses
    /\ orderly' = (orderly /\ inOrder /\ ~Awaiting(p))
    /\ typed < MaxTyped
    /\ typed' = typed + 1
    /\ Send(p, <<message>>)
    /\ UNCHANGED <<sockets, fromMain, table, server, left>>

\* Sent under the name of p.  The code sends loggedUsername, which is empty if a
\* LOGOUTACK and then a late "fail" have put p back to its prompt: a disorderly
\* case, in which the server ends (mainThread.cpp:240).
Begin(p, q) ==
    /\ Type(p, {"logged"}, Plain("BEGINREQ", q), TRUE)
    /\ client' = [client EXCEPT ![p].status = "waiting", ![p].inviteTo = q]
    /\ UNCHANGED fresh

\* Mutant: who accepts is not put to wait for the answer.
InviteStayLogged(p, accept) ==
    /\ client[p].inviteFrom # NoOne
    /\ Type(p, {"logged"}, Msg("BEGINRESP", client[p].inviteFrom, accept, 0),
            p \in fresh)
    /\ fresh' = fresh \ {p}
    /\ UNCHANGED client

\* invite accept, invite reject: after a rejection inviteFrom stays set.
Invite(p, accept) ==
    LET from == client[p].inviteFrom
    IN  /\ from # NoOne
        /\ Type(p, {"logged"}, Msg("BEGINRESP", from, accept, 0), p \in fresh)
        /\ client' = [client EXCEPT ![p].status = IF accept THEN "waiting" ELSE @]
        /\ fresh' = fresh \ {p}

Cancel(p) ==
    LET to == client[p].inviteTo
    IN  /\ to # NoOne
        /\ Type(p, {"waiting"}, Plain("CANCEL", to), FALSE)
        /\ client' = [client EXCEPT ![p].status = "logged", ![p].inviteTo = NoOne]
        /\ UNCHANGED fresh

\* login (with the right password), logout and exit change the client only when
\* they are answered.
Leave(p) ==
    /\ \/ Type(p, {"logged"}, Plain("LOGOUT", NoOne), TRUE)
       \/ Type(p, {"logged", "not_logged"}, Plain("EXIT", NoOne), TRUE)
       \/ Type(p, {"not_logged"}, Plain("LOGIN", NoOne), TRUE)
    /\ UNCHANGED <<client, fresh>>

-----------------------------------------------------------------------------
(***************************************************************************)
(* The main thread.                                                        *)
(***************************************************************************)

\* The request of p that the main thread takes next.
Request(p, types) ==
    /\ server = "up"
    /\ toMain[p] # <<>> /\ Head(toMain[p]).type \in types
    /\ toMain' = [toMain EXCEPT ![p] = Tail(@)]
    /\ UNCHANGED <<client, sockets, history>>

\* m is written to the pipe of p.  Once its client is gone it stays unread, and
\* the second write to the closed connection raises SIGPIPE.
Deliver(p, m) ==
    /\ fromMain' = [fromMain EXCEPT ![p] = Append(@, m)]
    /\ server' \in {"up"} \cup IF client[p].status = "gone" THEN {"sigpipe"} ELSE {}

\* Mutant: what nobody can receive is not answered.
RelayOrForget(p, m, otherwise) ==
    IF m.who \in isOnline THEN Deliver(m.who, [m EXCEPT !.who = p])
                          ELSE UNCHANGED <<fromMain, server>>

\* The request m of p goes on to the player it names, if that one is online.
Relay(p, m, otherwise) ==
    IF m.who \in isOnline THEN Deliver(m.who, [m EXCEPT !.who = p])
                          ELSE otherwise

MainBegin(p) ==
    LET m == Head(toMain[p])
        failed == IF m.type = "BEGINREQ" THEN "BEGINREQACK" ELSE "BEGINRESPACK"
    IN  /\ Request(p, {"BEGINREQ", "BEGINRESP"})
        /\ Relay(p, m, Deliver(p, Msg(failed, m.who, FALSE, 0)))
        /\ UNCHANGED table

\* Just repassing: for a player that is offline the pipe is -1.
MainBeginAck(p) ==
    /\ Request(p, {"BEGINREQACK", "BEGINRESPACK"})
    /\ Relay(p, Head(toMain[p]), UNCHANGED <<fromMain, server>>)
    /\ UNCHANGED table

\* Some requests are served by the USERNAME line, which the thread of a client
\* that has been logged out no longer adds: looking for it ends the process.
MainNoUsername(p) ==
    /\ Request(p, {"CANCEL", "START", "FINISH", "LOGOUT"})
    /\ p \notin isOnline
    /\ server' = "no_username"
    /\ UNCHANGED <<fromMain, table>>

\* A cancellation for nobody falls through to an answer that was never set; the
\* empty message ends the process in the thread that reads it.
MainCancel(p) ==
    /\ Request(p, {"CANCEL"})
    /\ Relay(p, Head(toMain[p]), server' = "empty_reply" /\ UNCHANGED fromMain)
    /\ UNCHANGED table

\* Mutant: FINISH leaves the match in the table.
StartOnly(p, m) ==
    IF m.type = "START" THEN [enemyUsername EXCEPT ![p] = m.who] ELSE enemyUsername

\* Player::startGame and Player::endGame
PlaysAgainst(p, m) ==
    IF m.type = "START" THEN [enemyUsername EXCEPT ![p] = m.who]
                        ELSE [enemyUsername EXCEPT ![p] = NoOne]

\* START looks its rival up without a check.
MainMatch(p) ==
    LET m == Head(toMain[p])
    IN  /\ Request(p, {"START", "FINISH"})
        /\ \/ /\ m.type = "FINISH" \/ m.who # NoOne
              /\ enemyUsername' = PlaysAgainst(p, m)
              /\ UNCHANGED <<isOnline, fromMain, server>>
           \/ /\ m.type = "START" /\ m.who = NoOne
              /\ server' = "no_rival"
              /\ UNCHANGED <<table, fromMain>>

MainSession(p) ==
    LET m == Head(toMain[p])
    IN  /\ Request(p, {"LOGIN", "LOGOUT", "EXIT", "FAREWELL"})
        /\ \/ /\ m.type = "LOGIN"
              /\ isOnline' = isOnline \cup {p}
              /\ Deliver(p, Msg("LOGINACK", p, p \notin isOnline, 0))
           \/ /\ m.type = "LOGOUT"
              /\ isOnline' = isOnline \ {p}
              /\ Deliver(p, Plain("LOGOUTACK", p))
           \/ /\ m.type = "EXIT"
              /\ Deliver(p, Plain("EXITACK", p))
              /\ UNCHANGED isOnline
           \/ /\ m.type = "FAREWELL"
              /\ isOnline' = isOnline \ {p}
              /\ UNCHANGED <<fromMain, server>>
        /\ UNCHANGED enemyUsername

\* The thread of a client that is gone may have ended before its requests are
\* served: the main thread skips one and keeps the mutex of the registry.
MainSkip(p) ==
    /\ client[p].status = "gone"
    /\ Request(p, Requests \ {"FAREWELL"})
    /\ server' = "blocked"
    /\ UNCHANGED <<fromMain, table>>

Main(p) ==
    \/ MainBegin(p) \/ MainBeginAck(p) \/ MainCancel(p)
    \/ MainMatch(p) \/ MainSession(p)
    \/ MainNoUsername(p) \/ MainSkip(p)

-----------------------------------------------------------------------------
(***************************************************************************)
(* What a client does with the messages of the server.                     *)
(***************************************************************************)

\* The next message of p, of the type given.
Reads(p, type) ==
    /\ server = "up"
    /\ client[p].status # "gone"
    /\ fromMain[p] # <<>> /\ Head(fromMain[p]).type = type
    /\ fromMain' = [fromMain EXCEPT ![p] = Tail(@)]
    /\ UNCHANGED <<table, orderly, typed>>

\* The process of p ends with the given requests on its way to the server.  If
\* it leaves messages unread its connection is reset, and the server's read of
\* it may end the server (Session.tla).
Ends(p, unread, requests) ==
    /\ client' = [client EXCEPT ![p].status = "gone", ![p].poll = "none"]
    /\ open' = {e \in open : e[2] # p}
    /\ Send(p, requests)
    /\ server' \in {server} \cup IF unread = <<>> THEN {} ELSE {"bad_read"}
    /\ UNCHANGED left

\* The process dies: its thread logs the user out, if it knows of one.
Dies(p, unread) ==
    /\ \E farewell \in {<<Plain("FAREWELL", NoOne)>>}
                        \cup IF client[p].status = "not_logged" THEN {<<>>} ELSE {} :
          Ends(p, unread, farewell)
    /\ UNCHANGED <<ports, joined, fresh>>

\* Mutant: only a match makes a player refuse invitations.
CanBeInvitedUnlessPlaying(p, by) == client[p].status # "on_match"

CanBeInvited(p, by) ==
    /\ client[p].status \notin {"waiting", "on_match"}
    /\ client[p].inviteFrom \in {NoOne, by}

ReadBeginReq(p) ==
    LET from == Head(fromMain[p]).who
        ok == CanBeInvited(p, from)
    IN  /\ Reads(p, "BEGINREQ")
        /\ Send(p, <<Msg("BEGINREQACK", from, ok, 0)>>)
        /\ \/ /\ ok
              /\ client' = [client EXCEPT ![p].inviteFrom = from]
              /\ fresh' = fresh \cup {p}
           \/ /\ ~ok
              /\ UNCHANGED <<client, fresh>>
        /\ UNCHANGED <<sockets, server, left>>

\* A failure puts p back to its prompt, whatever it does by now.
ReadBeginReqAck(p) ==
    /\ Reads(p, "BEGINREQACK")
    /\ \/ /\ Head(fromMain[p]).ok
          /\ UNCHANGED client
       \/ /\ ~Head(fromMain[p]).ok
          /\ client' = [client EXCEPT ![p].status = "logged", ![p].inviteTo = NoOne]
    /\ UNCHANGED <<sockets, toMain, server, fresh, left>>

IsAvailable(p, from) ==
    client[p].inviteTo = from /\ client[p].status = "waiting"

\* Mutant: a response that comes too late is not answered.
TooLateSilent(p, from) == UNCHANGED <<client, sockets, toMain>>

TooLate(p, from) ==
    /\ Send(p, <<Msg("BEGINRESPACK", from, FALSE, 0)>>)
    /\ UNCHANGED <<client, sockets>>

\* p listens on a port that nobody has used before.
createGameListingSocket(p) ==
    /\ ports' = ports + 1
    /\ open' = open \cup {<<ports', p>>}
    /\ UNCHANGED joined

\* The inviter is on the match, listens on a new port, and says where.  The
\* descriptor that pfds[2] may have held is never closed.
StartListening(p, from) ==
    /\ createGameListingSocket(p)
    /\ client' = [client EXCEPT
                    ![p] = [status |-> "on_match", inviteTo |-> NoOne,
                            inviteFrom |-> NoOne, rival |-> from,
                            accepting |-> TRUE, poll |-> "listener",
                            port |-> ports']]
    /\ Send(p, <<Msg("BEGINRESPACK", from, TRUE, ports')>>)

ReadBeginResp(p) ==
    LET m == Head(fromMain[p])
    IN  /\ Reads(p, "BEGINRESP")
        /\ \/ /\ ~IsAvailable(p, m.who)
              /\ TooLate(p, m.who)
           \/ /\ IsAvailable(p, m.who) /\ m.ok
              /\ StartListening(p, m.who)
           \/ /\ IsAvailable(p, m.who) /\ ~m.ok
              /\ client' = [client EXCEPT ![p].status = "logged",
                                         ![p].inviteTo = NoOne]
              /\ UNCHANGED <<sockets, toMain>>
        /\ UNCHANGED <<server, fresh, left>>

\* Mutant: the invited client waits for the inviter to connect.
JoinWithoutConnecting(p, from, port) ==
    /\ client' = [client EXCEPT ![p].status = "on_match", ![p].rival = from,
                                ![p].port = port]
    /\ UNCHANGED <<sockets, toMain, server, fresh, left>>

\* Nobody listens there any more: connectToServer ends the process.
ConnectionRefused(p, from, port) ==
    /\ <<port, from>> \notin open
    /\ Dies(p, Tail(fromMain[p]))

\* The invited client is on the match with whoever inviteFrom names by now, and
\* connects.
Join(p, from, port) ==
    \/ /\ <<port, from>> \in open
       /\ client' = [client EXCEPT
                       ![p] = [status |-> "on_match", inviteTo |-> NoOne,
                               inviteFrom |-> NoOne, rival |-> @.inviteFrom,
                               accepting |-> @.accepting, poll |-> "conn",
                               port |-> port]]
       /\ open' = open \cup {<<port, p>>}
       /\ joined' = joined \cup {<<port, p>>}
       /\ Send(p, <<Plain("START", client[p].inviteFrom)>>)
       /\ UNCHANGED <<ports, server, fresh, left>>
    \/ ConnectionRefused(p, from, port)

ReadBeginRespAck(p) ==
    LET m == Head(fromMain[p])
    IN  /\ Reads(p, "BEGINRESPACK")
        /\ \/ /\ m.ok
              /\ Join(p, m.who, m.port)
           \/ /\ ~m.ok
              /\ client' = [client EXCEPT ![p].status = "logged",
                                         ![p].inviteFrom = NoOne]
              /\ UNCHANGED <<sockets, toMain, server, fresh, left>>

ReadCancel(p) ==
    /\ Reads(p, "CANCEL")
    /\ client' = [client EXCEPT ![p].inviteFrom =
                     IF @ = Head(fromMain[p]).who THEN NoOne ELSE @]
    /\ UNCHANGED <<sockets, toMain, server, fresh, left>>

ReadSession(p) ==
    \/ /\ \/ /\ Reads(p, "LOGINACK")
             /\ client' = [client EXCEPT ![p].status =
                              IF Head(fromMain[p]).ok THEN "logged" ELSE @]
          \/ /\ Reads(p, "LOGOUTACK")
             /\ client' = [client EXCEPT ![p].status = "not_logged"]
       /\ UNCHANGED <<sockets, toMain, server, fresh, left>>
    \/ /\ Reads(p, "EXITACK")
       /\ Ends(p, Tail(fromMain[p]), <<>>)
       /\ UNCHANGED <<ports, joined, fresh>>

Receive(p) ==
    \/ ReadBeginReq(p) \/ ReadBeginReqAck(p) \/ ReadBeginResp(p)
    \/ ReadBeginRespAck(p) \/ ReadCancel(p) \/ ReadSession(p)

-----------------------------------------------------------------------------
(***************************************************************************)
(* The connection between the two, and the end of a match.                 *)
(***************************************************************************)

\* A step of p that is caused by pfds[2] or by its user, not by the server.
Alone(p) ==
    /\ server = "up"
    /\ client[p].status # "gone"
    /\ UNCHANGED <<fromMain, table, typed>>

\* Who else holds an end of the port, or has connected to it.
HasEnd(p, ends) == \E e \in ends : e[1] = client[p].port /\ e[2] # p

\* The other client has connected.
Accept(p) ==
    /\ Alone(p)
    /\ client[p].accepting /\ client[p].poll = "listener"
    /\ HasEnd(p, joined)
    /\ client' = [client EXCEPT ![p].accepting = FALSE, ![p].poll = "conn"]
    /\ Send(p, <<Plain("START", client[p].rival)>>)
    /\ UNCHANGED <<sockets, server, fresh, left, orderly>>

\* isAcceptingConn is left over from a match that ended before its connection:
\* accept is tried on a connection, and fails.
AcceptFails(p) ==
    /\ Alone(p)
    /\ client[p].accepting /\ client[p].poll = "conn"
    /\ client' = [client EXCEPT ![p].accepting = FALSE, ![p].poll = "lost",
                                ![p].status = "logged", ![p].rival = NoOne]
    /\ left' = left \cup {<<client[p].port, p>>}
    /\ UNCHANGED <<sockets, toMain, server, fresh, orderly>>

DiesAnyTime(p) ==
    /\ Dies(p, fromMain[p])
    /\ orderly' = (orderly /\ client[p].status # "waiting")

\* pfds[2] is still readable, and readSocket(-1) ends the process.
Crash(p) ==
    /\ Alone(p)
    /\ client[p].poll = "lost"
    /\ DiesAnyTime(p)

\* Mutant: nfds and pfds[2] are not reset.
closingGameKeepPoll(p) ==
    /\ client' = [client EXCEPT
                    ![p].status = IF @ = "on_match" THEN "logged" ELSE @,
                    ![p].rival = NoOne]
    /\ open' = open \ {<<client[p].port, p>>}
    /\ left' = left \cup {<<client[p].port, p>>}
    /\ UNCHANGED <<ports, joined>>

\* closingGame, and the endGame that does nothing unless p is on a match.  The
\* port is dropped also where the code closes only the accepted connection and
\* not the listener: nobody connects to a port twice.
closingGame(p) ==
    /\ client' = [client EXCEPT ![p] =
                    IF @.status = "on_match"
                    THEN [@ EXCEPT !.status = "logged", !.inviteTo = NoOne,
                                   !.inviteFrom = NoOne, !.rival = NoOne,
                                   !.poll = "none", !.port = 0]
                    ELSE [@ EXCEPT !.poll = "none", !.port = 0]]
    /\ open' = open \ {<<client[p].port, p>>}
    /\ left' = left \cup {<<client[p].port, p>>}
    /\ UNCHANGED <<ports, joined>>

\* The user gives up, or makes the last play.
EndMatch(p) ==
    /\ Alone(p)
    /\ client[p].status = "on_match"
    /\ closingGame(p)
    /\ Send(p, <<Plain("FINISH", NoOne)>>)
    /\ UNCHANGED <<server, fresh, orderly>>

\* The rival gave up, made the last play, or closed the connection; what was
\* not read at its end turns that into a reset, and the read ends the process.
RivalEnds(p) ==
    /\ Alone(p)
    /\ client[p].poll = "conn" /\ ~client[p].accepting
    /\ ~HasEnd(p, open)
    /\ UNCHANGED orderly
    /\ \/ /\ closingGame(p)
          /\ Send(p, <<Plain("FINISH", NoOne)>>)
          /\ UNCHANGED <<server, fresh>>
       \/ Dies(p, fromMain[p])

Kill(p) ==
    /\ Alone(p)
    /\ client[p].status \in Kills
    /\ DiesAnyTime(p)

Next ==
    \E p \in Players :
        \/ \E q \in Names : Begin(p, q)
        \/ \E accept \in BOOLEAN : Invite(p, accept)
        \/ Cancel(p) \/ Leave(p)
        \/ Main(p) \/ Receive(p)
        \/ Accept(p) \/ AcceptFails(p) \/ Crash(p)
        \/ EndMatch(p) \/ RivalEnds(p) \/ Kill(p)

Spec == Init /\ [][Next]_vars

-----------------------------------------------------------------------------
(***************************************************************************)
(* Properties.                                                             *)
(***************************************************************************)

MessagesOf(types) == [type : types, who : Names \cup {NoOne}, ok : BOOLEAN, port : Nat]

\* What p polls is an open descriptor (poll would report a closed one for ever),
\* of a port that has been listened on.
PollsOpenDescriptor(p) ==
    client[p].poll # "none" => <<client[p].port, p>> \in open

\* Types of all variables, and pfds[2] is open while it is polled.
TypeOK ==
    /\ client \in [Players -> Clients]
    /\ \A p \in Players : PollsOpenDescriptor(p)
    /\ ports \in Nat
    /\ open \cup joined \cup left \subseteq (0..ports) \X Players
    /\ toMain \in [Players -> Seq(MessagesOf(Requests))]
    /\ fromMain \in [Players -> Seq(MessagesOf(Responses))]
    /\ isOnline \subseteq Players
    /\ enemyUsername \in [Players -> Players \cup {NoOne}]
    /\ server \in {"up", "blocked", "sigpipe", "bad_read", "no_username",
                   "no_rival", "empty_reply"}
    /\ fresh \subseteq Players /\ orderly \in BOOLEAN
    /\ typed \in Nat

\* The messages of a queue, and those of p that reach q.
Elements(queue) == {queue[i] : i \in DOMAIN queue}
Underway(p, q) ==
    {m \in Elements(toMain[p]) : m.who = q} \cup
    {m \in Elements(fromMain[q]) : m.who = p}

\* p has told q that their match begins, and q has not read it.
Summons(p, q) ==
    {m \in Underway(p, q) : m.type = "BEGINRESPACK" /\ m.ok}

\* "Both sides agreed to start a match": whoever is on a match has a rival, and
\* this rival is on the same match, is told of it, has left it, or is gone.
MatchAgreement ==
    \A p \in Players : (orderly /\ client[p].status = "on_match") =>
        \E q \in Players :
            /\ q = client[p].rival
            /\ \/ /\ client[q].status = "on_match"
                  /\ client[q].rival = p /\ client[q].port = client[p].port
               \/ \E m \in Summons(p, q) : m.port = client[p].port
               \/ <<client[p].port, q>> \in left
               \/ client[q].status = "gone"

\* The server's table of who plays against whom (LIST shows it): once the server
\* has served all a client told it, it has the client's own rival while the
\* client is connected to it, and none when the client is back at its prompt.
TableKnowsMatches ==
    \A p \in Players : (server = "up" /\ toMain[p] = <<>>) =>
        /\ (client[p].status = "on_match" /\ client[p].poll = "conn"
              /\ ~client[p].accepting) => enemyUsername[p] = client[p].rival
        /\ (client[p].status \in {"logged", "waiting"} /\ client[p].poll = "none")
              => enemyUsername[p] = NoOne

\* The main thread looks up what a request names without a check (a USERNAME
\* line that is not there, the rival of START, an answer that was never set).
\* Who is logged out, on a match and invited changes while such requests are on
\* their way; yet as long as users are orderly it meets none it cannot serve.
OrderlyServed ==
    orderly => server \notin {"no_username", "no_rival", "empty_reply"}

-----------------------------------------------------------------------------
\* Whom p asks, accepts and plays with, as Pairing has it.  An acceptance counts
\* while it is on its way; a match counts for the invited client when it is told.
Asks(p) == IF client[p].status = "waiting" THEN client[p].inviteTo ELSE NoOne
Theirs(q, type) ==
    {p \in Players : \E m \in Underway(q, p) : m.type = type /\ m.ok}
Consents(q) ==
    IF Theirs(q, "BEGINRESP") = {} THEN NoOne
    ELSE CHOOSE p \in Theirs(q, "BEGINRESP") : TRUE
Partner(p) ==
    IF client[p].status = "on_match" THEN client[p].rival
    ELSE IF \E q \in Players : Summons(q, p) # {}
         THEN CHOOSE q \in Players : Summons(q, p) # {}
         ELSE NoOne

Promise == INSTANCE Pairing WITH
    asks     <- [p \in Players |-> Asks(p)],
    consents <- [p \in Players |-> Consents(p)],
    partner  <- [p \in Players |-> Partner(p)]

\* As long as users are orderly, the handshake pairs two players in one step.
ImplementsPairing ==
    /\ Promise!Init
    /\ [][orderly' => Promise!Next]_<<[p \in Players |-> Asks(p)],
                                     [p \in Players |-> Consents(p)],
                                     [p \in Players |-> Partner(p)]>>

-----------------------------------------------------------------------------
\* The main thread, the clients' reading of the server and their accept go on.
Fairness ==
    \A p \in Players :
        WF_vars(Main(p)) /\ WF_vars(Receive(p)) /\ WF_vars(Accept(p))

LiveSpec == Spec /\ Fairness

\* Who accepts an invitation cannot cancel any more: it does not wait for ever,
\* whatever the others do, unless the inviter or the server is gone, or it has
\* itself logged out before (it may accept until the logout is answered).
AcceptorAnswered ==
    \A p, q \in Players :
        (client[p].status = "waiting" /\ client[p].inviteTo = NoOne
          /\ client[p].inviteFrom = q)
        ~> (client[p].status # "waiting" \/ p \notin isOnline
              \/ client[q].status = "gone" \/ server # "up")

\* The acceptance of q is what p is waiting for, or q is on the match.
Committed(q, p) ==
    \/ /\ client[q].status = "waiting"
       /\ client[q].inviteTo = NoOne /\ client[q].inviteFrom = p
    \/ /\ client[q].status = "on_match"
       /\ client[q].rival = p /\ client[q].port = client[p].port

\* An inviter on a match does not listen for ever, as long as the other one is
\* committed to that match and has not logged out before.
InviterConnected ==
    \A p, q \in Players :
        (client[p].poll = "listener" /\ client[p].rival = q /\ Committed(q, p))
        ~> (client[p].poll # "listener" \/ ~Committed(q, p)
              \/ q \notin isOnline \/ server # "up")
=============================================================================

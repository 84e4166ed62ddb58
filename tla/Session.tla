------------------------------- MODULE Session -------------------------------
(***************************************************************************)
(* Login sessions of the game server: the client shells, their TCP         *)
(* connections, the client threads of the server (clientThread.cpp), the   *)
(* pipe that leads from all of them to the main thread, and the main       *)
(* thread (mainThread.cpp) with the registry of threads and the table of   *)
(* players.                                                                *)
(*                                                                         *)
(* A command typed in a shell travels                                      *)
(*   toServer[c] -> batch[c] -> mainPipe -> (main thread)                  *)
(*   -> threadPipe[c] -> toClient[c]                                       *)
(* and every hop is a step of its own, so that steps of the threads, the   *)
(* shells and the failures interleave freely.                              *)
(***************************************************************************)
EXTENDS Integers, Sequences

CONSTANTS
    Clients,      \* client slots: a thread id with its pipe and its socket
    Users,        \* the usernames people type
    Accounts,     \* the usernames that have a Player object
    NoUser,       \* the empty username ""
    NoClient,     \* no thread, no pipe (-1)
    MaxAsked,     \* bound: commands typed in one connection
    MaxPending,   \* bound: commands typed ahead of their answers
    MaxRuns,      \* bound: connections that use the same thread id in turn
    Kills         \* may a client process be killed?

ASSUME ConstantsAssumption ==
    /\ Accounts \subseteq Users
    /\ NoUser \notin Users
    /\ NoClient \notin Clients
    /\ MaxAsked \in Nat /\ MaxPending \in Nat /\ MaxRuns \in Nat
    /\ Kills \in BOOLEAN

VARIABLES
    \* The client process (Client.hpp)
    status,           \* "off", "not_logged", "logged", "gone"
    loggedUsername,   \* the user the client believes it is logged in as
    \* The TCP connection
    toServer, toClient,
    sock,             \* the connection as the server's end sees it
    \* The client thread (clientThread.cpp)
    threadState, batch, loggedUser, threadPipe,
    \* The main thread and what the threads share (mainThread.cpp, main.cpp)
    mainPipe,
    threadIdToPipe,   \* the registered threads
    mapMutexLeaked,   \* threadIdToPipeMutex is held and nobody will unlock it
    isOnline,         \* the players whose isOnline flag is set
    threadPipeWriter, \* Player::threadPipeWriter
    server,           \* "up", or what killed the server process
    \* History, read by the properties only
    asked, served, answered, runs

clientVars  == <<status, loggedUsername>>
socketVars  == <<toServer, toClient, sock>>
threadVars  == <<threadState, batch, loggedUser, threadPipe>>
playerVars  == <<isOnline, threadPipeWriter>>
historyVars == <<asked, served, answered, runs>>
vars == <<clientVars, socketVars, threadVars, mainPipe, threadIdToPipe,
          mapMutexLeaked, playerVars, server, historyVars>>

(***************************************************************************)
(* Messages.  A command names its place among the commands of its          *)
(* connection (n), which the program does not send: it is history, as is   *)
(* the n of the answer.  The password of a login is right or wrong.        *)
(* "list" stands for both read-only commands, list and leaders.            *)
(***************************************************************************)
Login(u, r) == [type |-> "LOGIN",  user |-> u,      right |-> r]
Logout      == [type |-> "LOGOUT", user |-> NoUser, right |-> FALSE]
List        == [type |-> "LIST",   user |-> NoUser, right |-> FALSE]
Exit        == [type |-> "EXIT",   user |-> NoUser, right |-> FALSE]

Commands == {Login(u, r) : u \in Users, r \in BOOLEAN} \cup {Logout, List, Exit}
Names    == Users \cup {NoUser}

Requests == [cmd : Commands, n : Nat]
Answers  == [type : {"LOGINACK", "LOGOUTACK", "LIST", "EXITACK"},
             user : Names, ok : BOOLEAN, n : Nat]

\* What a thread writes to the main pipe: the request, the USERNAME line it
\* adds (NoUser: none) and the THREAD_ID line (NoClient: none).
MainMessages == [cmd : Commands, n : Nat,
                 username : Names, threadId : Clients \cup {NoClient}]

-----------------------------------------------------------------------------

Init ==
    /\ status = [c \in Clients |-> "off"]
    /\ loggedUsername = [c \in Clients |-> NoUser]
    /\ toServer = [c \in Clients |-> <<>>]
    /\ toClient = [c \in Clients |-> <<>>]
    /\ sock = [c \in Clients |-> "open"]
    /\ threadState = [c \in Clients |-> "none"]
    /\ batch = [c \in Clients |-> <<>>]
    /\ loggedUser = [c \in Clients |-> NoUser]
    /\ threadPipe = [c \in Clients |-> <<>>]
    /\ mainPipe = <<>>
    /\ threadIdToPipe = {}
    /\ mapMutexLeaked = FALSE
    /\ isOnline = {}
    /\ threadPipeWriter = [u \in Accounts |-> NoClient]
    /\ server = "up"
    /\ asked = [c \in Clients |-> <<>>]
    /\ served = [c \in Clients |-> 0]
    /\ answered = [c \in Clients |-> 0]
    /\ runs = [c \in Clients |-> 0]

-----------------------------------------------------------------------------
(***************************************************************************)
(* The client process.                                                     *)
(***************************************************************************)

\* A client is started and connects; the server accepts and creates a thread.
\* A slot that served a connection may serve another: the id of a thread and
\* the numbers of its descriptors are free for reuse once it has ended.
Connect(c) ==
    /\ server = "up"
    /\ \/ status[c] = "off"
       \/ status[c] = "gone" /\ threadState[c] = "ended"
    /\ runs[c] < MaxRuns
    /\ status' = [status EXCEPT ![c] = "not_logged"]
    /\ loggedUsername' = [loggedUsername EXCEPT ![c] = NoUser]
    /\ toServer' = [toServer EXCEPT ![c] = <<>>]
    /\ toClient' = [toClient EXCEPT ![c] = <<>>]
    /\ sock' = [sock EXCEPT ![c] = "open"]
    /\ threadState' = [threadState EXCEPT ![c] = "start"]
    /\ asked' = [asked EXCEPT ![c] = <<>>]
    /\ served' = [served EXCEPT ![c] = 0]
    /\ answered' = [answered EXCEPT ![c] = 0]
    /\ runs' = [runs EXCEPT ![c] = @ + 1]
    /\ UNCHANGED <<batch, loggedUser, threadPipe, mainPipe, threadIdToPipe,
                   mapMutexLeaked, playerVars, server>>

\* MessageTypes: the commands each status allows.
Allowed(cmd, st) ==
    CASE cmd.type = "LOGIN"            -> st = "not_logged"
      [] cmd.type \in {"LOGOUT", "LIST"} -> st = "logged"
      [] cmd.type = "EXIT"             -> st \in {"not_logged", "logged"}

\* The user types a command; the shell does not wait for earlier answers.
Type(c, cmd) ==
    /\ server = "up"
    /\ Allowed(cmd, status[c])
    /\ Len(asked[c]) < MaxAsked
    /\ Len(asked[c]) < answered[c] + MaxPending
    /\ asked' = [asked EXCEPT ![c] = Append(@, cmd)]
    /\ toServer' = [toServer EXCEPT
                      ![c] = Append(@, [cmd |-> cmd, n |-> Len(asked[c]) + 1])]
    /\ UNCHANGED <<clientVars, toClient, sock, threadVars, mainPipe,
                   threadIdToPipe, mapMutexLeaked, playerVars, server,
                   served, answered, runs>>

\* How the server's end sees a client that closes its end: a reset if answers
\* were left unread, else an orderly end of stream.
Hangup(left) == IF left = <<>> THEN "fin" ELSE "reset"

\* ParserServerMessage on the next answer, and what main.cpp does after it.
Receive(c) ==
    LET m == Head(toClient[c])
    IN  /\ status[c] \in {"not_logged", "logged"}
        /\ toClient[c] # <<>>
        /\ toClient' = [toClient EXCEPT ![c] = Tail(@)]
        /\ answered' = [answered EXCEPT ![c] = @ + 1]
        /\ \/ /\ m.type = "LOGINACK" /\ m.ok
              /\ status' = [status EXCEPT ![c] = "logged"]
              /\ loggedUsername' = [loggedUsername EXCEPT ![c] = m.user]
              /\ sock' = sock
           \/ /\ m.type = "LOGOUTACK"
              /\ status' = [status EXCEPT ![c] = "not_logged"]
              /\ loggedUsername' = [loggedUsername EXCEPT ![c] = NoUser]
              /\ sock' = sock
           \/ /\ m.type = "EXITACK"
              /\ status' = [status EXCEPT ![c] = "gone"]
              /\ sock' = [sock EXCEPT ![c] = Hangup(Tail(toClient[c]))]
              /\ UNCHANGED loggedUsername
           \/ /\ m.type = "LIST" \/ (m.type = "LOGINACK" /\ ~m.ok)
              /\ UNCHANGED <<clientVars, sock>>
        /\ UNCHANGED <<toServer, threadVars, mainPipe, threadIdToPipe,
                       mapMutexLeaked, playerVars, server, asked, served, runs>>

\* The client process dies (closed terminal, kill -9), whatever it waits for.
Kill(c) ==
    /\ Kills
    /\ status[c] \in {"not_logged", "logged"}
    /\ status' = [status EXCEPT ![c] = "gone"]
    /\ sock' = [sock EXCEPT ![c] = Hangup(toClient[c])]
    /\ toClient' = [toClient EXCEPT ![c] = <<>>]
    /\ UNCHANGED <<loggedUsername, toServer, threadVars, mainPipe,
                   threadIdToPipe, mapMutexLeaked, playerVars, server,
                   historyVars>>

\* The connection has ended on the server's side: the main loop is over.
ServerLost(c) ==
    /\ status[c] \in {"not_logged", "logged"}
    /\ server # "up"
    /\ toClient[c] = <<>>
    /\ status' = [status EXCEPT ![c] = "gone"]
    /\ UNCHANGED <<loggedUsername, socketVars, threadVars, mainPipe,
                   threadIdToPipe, mapMutexLeaked, playerVars, server,
                   historyVars>>

-----------------------------------------------------------------------------
(***************************************************************************)
(* The client threads.  The critical sections of pipeWriterMutex and of    *)
(* threadIdToPipeMutex are single steps; mapMutexLeaked says that the      *)
(* second mutex cannot be had any more.                                    *)
(***************************************************************************)

ThreadStart(c) ==
    /\ server = "up"
    /\ threadState[c] = "start"
    /\ ~mapMutexLeaked
    /\ threadIdToPipe' = threadIdToPipe \cup {c}
    /\ threadState' = [threadState EXCEPT ![c] = "poll"]
    /\ batch' = [batch EXCEPT ![c] = <<>>]
    /\ loggedUser' = [loggedUser EXCEPT ![c] = NoUser]
    /\ threadPipe' = [threadPipe EXCEPT ![c] = <<>>]
    /\ UNCHANGED <<clientVars, socketVars, mainPipe, mapMutexLeaked,
                   playerVars, server, historyVars>>

\* Mutant: the thread forgets to note who has logged in.
NoteAnswerLogoutOnly(c, m) == IF m.type = "LOGOUTACK" THEN NoUser ELSE loggedUser[c]

\* loggedUser after the thread has passed answer m: STATUS is not looked at.
NoteAnswer(c, m) ==
    CASE m.type = "LOGINACK"  -> m.user
      [] m.type = "LOGOUTACK" -> NoUser
      [] OTHER                -> loggedUser[c]

\* Mutant: an interrupted write is given up.
WriteToSocketOrGiveUp(c, m) ==
    /\ toClient' \in {toClient, [toClient EXCEPT ![c] = Append(@, m)]}
    /\ UNCHANGED <<sock, server>>

\* writeToSocket: the first write to a closed peer is lost and makes the peer
\* send a reset; once that is back, a write raises SIGPIPE, which kills the
\* process.
WriteToSocket(c, m) ==
    \/ /\ sock[c] = "open"
       /\ toClient' = [toClient EXCEPT ![c] = Append(@, m)]
       /\ UNCHANGED <<sock, server>>
    \/ /\ sock[c] # "open"
       /\ sock' = [sock EXCEPT ![c] = "broken"]
       /\ UNCHANGED <<toClient, server>>
    \/ /\ sock[c] = "broken"
       /\ server' = "sigpipe"
       /\ UNCHANGED <<toClient, sock>>

\* Messages on the pipe come first.  After EXITACK the loop ends, but messages
\* read from the pipe together with it are still passed on ("leaving").
ThreadReadPipe(c) ==
    LET m == Head(threadPipe[c])
    IN  /\ server = "up"
        /\ threadState[c] \in {"poll", "leaving"}
        /\ threadPipe[c] # <<>>
        /\ threadPipe' = [threadPipe EXCEPT ![c] = Tail(@)]
        /\ loggedUser' = [loggedUser EXCEPT ![c] = NoteAnswer(c, m)]
        /\ threadState' = [threadState EXCEPT
                             ![c] = IF m.type = "EXITACK" THEN "leaving" ELSE @]
        /\ WriteToSocket(c, m)
        /\ UNCHANGED <<clientVars, toServer, batch, mainPipe, threadIdToPipe,
                       mapMutexLeaked, playerVars, historyVars>>

\* readSocket returns one or more whole messages.
ThreadReadSocket(c) ==
    /\ server = "up"
    /\ threadState[c] = "poll"
    /\ threadPipe[c] = <<>>
    /\ \E k \in 1..Len(toServer[c]) :
         /\ batch' = [batch EXCEPT ![c] = SubSeq(toServer[c], 1, k)]
         /\ toServer' = [toServer EXCEPT ![c] = SubSeq(@, k + 1, Len(@))]
    /\ threadState' = [threadState EXCEPT ![c] = "forward"]
    /\ UNCHANGED <<clientVars, toClient, sock, loggedUser, threadPipe, mainPipe,
                   threadIdToPipe, mapMutexLeaked, playerVars, server,
                   historyVars>>

\* A LOGIN carries its username itself (and its first line is not USERNAME);
\* every message gets the USERNAME line of the logged user, if there is one.
ThreadForward(c) ==
    LET m == Head(batch[c])
    IN  /\ server = "up"
        /\ threadState[c] = "forward"
        /\ batch[c] # <<>>
        /\ mainPipe' = Append(mainPipe,
                              [cmd |-> m.cmd, n |-> m.n,
                               username |-> loggedUser[c], threadId |-> c])
        /\ batch' = [batch EXCEPT ![c] = Tail(@)]
        /\ threadState' = [threadState EXCEPT
                             ![c] = IF Len(batch[c]) = 1 THEN "poll" ELSE @]
        /\ UNCHANGED <<clientVars, socketVars, loggedUser, threadPipe,
                       threadIdToPipe, mapMutexLeaked, playerVars, server,
                       historyVars>>

\* readSocket finds the connection closed.  After an orderly end of stream the
\* thread is done; a reset makes read return -1, which commonRead adds to an
\* unsigned count and uses as the length of the data.
ThreadReadEnd(c) ==
    /\ server = "up"
    /\ threadState[c] = "poll"
    /\ threadPipe[c] = <<>> /\ toServer[c] = <<>>
    /\ \/ /\ sock[c] \in {"fin", "broken"}
          /\ threadState' = [threadState EXCEPT ![c] = "farewell"]
          /\ server' = server
       \/ /\ sock[c] = "reset"
          /\ server' = "bad_read"
          /\ threadState' = threadState
    /\ UNCHANGED <<clientVars, socketVars, batch, loggedUser, threadPipe,
                   mainPipe, threadIdToPipe, mapMutexLeaked, playerVars,
                   historyVars>>

\* The thread logs its user out; TERMINATED, which is only logged, is left out.
ThreadFarewell(c) ==
    /\ server = "up"
    /\ threadState[c] = "farewell"
    /\ mainPipe' = IF loggedUser[c] = NoUser THEN mainPipe
                   ELSE Append(mainPipe, [cmd |-> Logout, n |-> 0,
                                          username |-> loggedUser[c],
                                          threadId |-> NoClient])
    /\ threadState' = [threadState EXCEPT ![c] = "closing"]
    /\ UNCHANGED <<clientVars, socketVars, batch, loggedUser, threadPipe,
                   threadIdToPipe, mapMutexLeaked, playerVars, server,
                   historyVars>>

ThreadClose(c) ==
    /\ server = "up"
    /\ threadState[c] \in {"leaving", "closing"}
    /\ ~mapMutexLeaked
    /\ threadIdToPipe' = threadIdToPipe \ {c}
    /\ threadPipe' = [threadPipe EXCEPT ![c] = <<>>]
    /\ threadState' = [threadState EXCEPT ![c] = "ended"]
    /\ UNCHANGED <<clientVars, socketVars, batch, loggedUser, mainPipe,
                   mapMutexLeaked, playerVars, server, historyVars>>

Thread(c) ==
    \/ ThreadStart(c)
    \/ ThreadReadPipe(c)
    \/ ThreadReadSocket(c)
    \/ ThreadForward(c)
    \/ ThreadReadEnd(c)
    \/ ThreadFarewell(c)
    \/ ThreadClose(c)

-----------------------------------------------------------------------------
(***************************************************************************)
(* The main thread.                                                        *)
(***************************************************************************)

Take(m) ==
    /\ server = "up"
    /\ mainPipe' = Tail(mainPipe)

\* m names its thread, and the thread is registered.
TakeFromThread(m) ==
    /\ Take(m)
    /\ m.threadId \in threadIdToPipe
    /\ ~mapMutexLeaked

\* Mutant: the response goes to the thread of the player, not of the message.
ReplyToPlayer(m, type, user, ok) ==
    LET c == IF m.username \in Accounts /\ threadPipeWriter[m.username] # NoClient
             THEN threadPipeWriter[m.username] ELSE m.threadId
    IN  /\ threadPipe' = [threadPipe EXCEPT ![c] =
                            Append(@, [type |-> type, user |-> user,
                                       ok |-> ok, n |-> m.n])]
        /\ served' = [served EXCEPT ![m.threadId] = @ + 1]

\* Mutant: a command that fails is not answered.
ReplyIfOk(m, type, user, ok) ==
    /\ threadPipe' = [threadPipe EXCEPT ![m.threadId] =
                        IF ok THEN Append(@, [type |-> type, user |-> user,
                                              ok |-> ok, n |-> m.n])
                        ELSE @]
    /\ served' = [served EXCEPT ![m.threadId] = @ + 1]

\* The response goes to the thread whose id the message carries.  The lookup of
\* its pipe (mainThread.cpp:91-97) and the write (371-374) are one step: a thread
\* that ends in between is the same as one that ends after the write, as long as
\* the number of its pipe is not given to another connection in that moment.
Reply(m, type, user, ok) ==
    /\ threadPipe' = [threadPipe EXCEPT ![m.threadId] =
                        Append(@, [type |-> type, user |-> user,
                                   ok |-> ok, n |-> m.n])]
    /\ served' = [served EXCEPT ![m.threadId] = @ + 1]

\* A message whose thread has ended is skipped, with the mutex locked.
MainSkip(m) ==
    /\ Take(m)
    /\ m.threadId # NoClient /\ m.threadId \notin threadIdToPipe
    /\ ~mapMutexLeaked
    /\ mapMutexLeaked' = TRUE
    /\ UNCHANGED <<clientVars, socketVars, threadVars, threadIdToPipe,
                   playerVars, server, historyVars>>

\* Mutants: a check of LOGIN is missing.
CanLoginUnknown(cmd) == cmd.right /\ cmd.user \notin isOnline
CanLoginAnyPassword(cmd) == cmd.user \in Accounts \ isOnline
CanLoginAgain(cmd) == cmd.user \in Accounts /\ cmd.right

CanLogin(cmd) ==
    /\ cmd.user \in Accounts
    /\ cmd.right
    /\ cmd.user \notin isOnline

MainLogin(m) ==
    /\ TakeFromThread(m)
    /\ m.cmd.type = "LOGIN"
    /\ Reply(m, "LOGINACK", m.cmd.user, CanLogin(m.cmd))
    /\ \/ /\ CanLogin(m.cmd)
          /\ isOnline' = isOnline \cup {m.cmd.user}
          /\ threadPipeWriter' = [threadPipeWriter EXCEPT
                                    ![m.cmd.user] = m.threadId]
       \/ /\ ~CanLogin(m.cmd)
          /\ UNCHANGED playerVars
    /\ UNCHANGED <<clientVars, socketVars, threadState, batch, loggedUser,
                   threadIdToPipe, mapMutexLeaked, server,
                   asked, answered, runs>>

\* Mutant: the pipe of the player stays set.
DeactivateKeepPipe(u) ==
    /\ isOnline' = isOnline \ {u}
    /\ UNCHANGED threadPipeWriter

\* Player::deactivate
Deactivate(u) ==
    /\ isOnline' = isOnline \ {u}
    /\ threadPipeWriter' = [threadPipeWriter EXCEPT ![u] = NoClient]

\* The player is looked up without a check: a message with no USERNAME line
\* or with the name of no player ends the process.
LogoutFault(m) == IF m.username = NoUser THEN "no_username" ELSE "no_account"

MainLogout(m) ==
    /\ TakeFromThread(m)
    /\ m.cmd.type = "LOGOUT"
    /\ \/ /\ m.username \in Accounts
          /\ Deactivate(m.username)
          /\ Reply(m, "LOGOUTACK", m.username, TRUE)
          /\ server' = server
       \/ /\ m.username \notin Accounts
          /\ server' = LogoutFault(m)
          /\ UNCHANGED <<playerVars, threadPipe, served>>
    /\ UNCHANGED <<clientVars, socketVars, threadState, batch, loggedUser,
                   threadIdToPipe, mapMutexLeaked, asked, answered, runs>>

\* The LOGOUT a thread writes when it ends names no thread: no response.
MainFarewell(m) ==
    /\ Take(m)
    /\ m.threadId = NoClient
    /\ \/ /\ m.username \in Accounts
          /\ Deactivate(m.username)
          /\ server' = server
       \/ /\ m.username \notin Accounts
          /\ server' = LogoutFault(m)
          /\ UNCHANGED playerVars
    /\ UNCHANGED <<clientVars, socketVars, threadVars, threadIdToPipe,
                   mapMutexLeaked, historyVars>>

MainList(m) ==
    /\ TakeFromThread(m)
    /\ m.cmd.type = "LIST"
    /\ Reply(m, "LIST", NoUser, TRUE)
    /\ UNCHANGED <<clientVars, socketVars, threadState, batch, loggedUser,
                   threadIdToPipe, mapMutexLeaked, playerVars, server,
                   asked, answered, runs>>

\* EXIT is logged and acknowledged; the player is not deactivated.
MainExit(m) ==
    /\ TakeFromThread(m)
    /\ m.cmd.type = "EXIT"
    /\ Reply(m, "EXITACK", NoUser, TRUE)
    /\ UNCHANGED <<clientVars, socketVars, threadState, batch, loggedUser,
                   threadIdToPipe, mapMutexLeaked, playerVars, server,
                   asked, answered, runs>>

Main ==
    /\ mainPipe # <<>>
    /\ LET m == Head(mainPipe)
       IN  \/ MainSkip(m)
           \/ MainLogin(m)
           \/ MainLogout(m)
           \/ MainFarewell(m)
           \/ MainList(m)
           \/ MainExit(m)

-----------------------------------------------------------------------------

Next ==
    \/ \E c \in Clients :
          \/ Connect(c)
          \/ \E cmd \in Commands : Type(c, cmd)
          \/ Receive(c)
          \/ Kill(c)
          \/ ServerLost(c)
          \/ Thread(c)
    \/ Main

Spec == Init /\ [][Next]_vars

\* The threads and the processes run as long as they have something to do;
\* nobody has to start a client, type or kill one.
Fairness ==
    /\ \A c \in Clients : WF_vars(Thread(c))
    /\ \A c \in Clients : WF_vars(Receive(c) \/ ServerLost(c))
    /\ WF_vars(Main)

FairSpec == Spec /\ Fairness

-----------------------------------------------------------------------------
(***************************************************************************)
(* Properties.                                                             *)
(***************************************************************************)

\* Every variable has its type: the states of Client.hpp, of the client
\* threads and of the main thread.
TypeOK ==
    /\ status \in [Clients -> {"off", "not_logged", "logged", "gone"}]
    /\ loggedUsername \in [Clients -> Names]
    /\ toServer \in [Clients -> Seq(Requests)]
    /\ toClient \in [Clients -> Seq(Answers)]
    /\ sock \in [Clients -> {"open", "fin", "reset", "broken"}]
    /\ threadState \in [Clients -> {"none", "start", "poll", "forward",
                                    "leaving", "farewell", "closing", "ended"}]
    /\ batch \in [Clients -> Seq(Requests)]
    /\ loggedUser \in [Clients -> Names]
    /\ threadPipe \in [Clients -> Seq(Answers)]
    /\ mainPipe \in Seq(MainMessages)
    /\ threadIdToPipe \in SUBSET Clients
    /\ mapMutexLeaked \in BOOLEAN
    /\ isOnline \in SUBSET Accounts
    /\ threadPipeWriter \in [Accounts -> Clients \cup {NoClient}]
    /\ server \in {"up", "sigpipe", "bad_read", "no_account", "no_username"}
    /\ asked \in [Clients -> Seq(Commands)]
    /\ served \in [Clients -> Nat]
    /\ answered \in [Clients -> Nat]
    /\ runs \in [Clients -> Nat]

InShell(c) == status[c] \in {"not_logged", "logged"}

\* Every command of c has been answered.
Idle(c) == answered[c] = Len(asked[c])

\* m is an answer the command deserves.
Fits(m, cmd) ==
    CASE cmd.type = "LOGIN"  -> /\ m.type = "LOGINACK"
                                /\ m.user = cmd.user
                                /\ m.ok => cmd.right /\ cmd.user \in Accounts
      [] cmd.type = "LOGOUT" -> m.type = "LOGOUTACK"
      [] cmd.type = "LIST"   -> m.type = "LIST"
      [] cmd.type = "EXIT"   -> m.type = "EXITACK"

\* m answers one of the commands of c.
Proper(c, m) == m.n \in 1..Len(asked[c]) /\ Fits(m, asked[c][m.n])

\* The answers on their way to the shell of c are those to its commands after
\* the last one answered.
Delivered(c) ==
    InShell(c) =>
        \A i \in 1..Len(toClient[c]) :
            Proper(c, toClient[c][i]) /\ toClient[c][i].n = answered[c] + i

\* The answers a client reads are, in order and without gap or repetition, the
\* answers to the commands it sent, although nothing in a message says which
\* command it answers and its thread, the main thread and the other clients
\* interleave: the client pairs them by position (parseServerMessage).
AnswersInOrder == \A c \in Clients : Delivered(c)

(***************************************************************************)
(* Why the answers stay in order, when a thread id is used once: the       *)
(* commands of c are numbered without gap along their way, and so are the  *)
(* answers on their way back.                                              *)
(***************************************************************************)

\* r is one of the commands of c.
Genuine(c, r) == r.n \in 1..Len(asked[c]) /\ r.cmd = asked[c][r.n]

\* The number of commands of c that its thread has written to the main pipe.
Forwarded(c) == Len(asked[c]) - Len(toServer[c]) - Len(batch[c])

\* Commands on the connection and in the thread are the last ones asked.
CommandsInOrder(c) ==
    /\ \A i \in 1..Len(toServer[c]) :
          /\ Genuine(c, toServer[c][i])
          /\ toServer[c][i].n = Forwarded(c) + Len(batch[c]) + i
    /\ \A i \in 1..Len(batch[c]) :
          Genuine(c, batch[c][i]) /\ batch[c][i].n = Forwarded(c) + i
    /\ served[c] <= Forwarded(c)

\* The main thread has skipped no command, and has not failed in one.
NoneSkipped == ~mapMutexLeaked /\ server = "up"

\* The main pipe holds the forwarded commands that are not served, in order;
\* all of them as long as the main thread has skipped none.
MainPipeInOrder(c) ==
    /\ \A i \in 1..Len(mainPipe) : mainPipe[i].threadId = c =>
          /\ Genuine(c, mainPipe[i])
          /\ mainPipe[i].n \in served[c] + 1 .. Forwarded(c)
    /\ \A i, j \in 1..Len(mainPipe) :
          i < j /\ mainPipe[i].threadId = c /\ mainPipe[j].threadId = c
              => mainPipe[i].n < mainPipe[j].n
    /\ NoneSkipped =>
          \A k \in served[c] + 1 .. Forwarded(c) :
              \E i \in 1..Len(mainPipe) :
                  mainPipe[i].threadId = c /\ mainPipe[i].n = k

\* The pipe of the thread holds the last answers, in order.
RepliesInOrder(c) ==
    /\ Len(threadPipe[c]) <= served[c]
    /\ \A i \in 1..Len(threadPipe[c]) :
          /\ Proper(c, threadPipe[c][i])
          /\ threadPipe[c][i].n = served[c] - Len(threadPipe[c]) + i

\* While the shell and the thread run, no answer is lost between them.
NothingLost(c) ==
    InShell(c) =>
        /\ sock[c] = "open"
        /\ threadState[c] \in {"start", "poll", "forward", "leaving"} =>
              answered[c] + Len(toClient[c]) = served[c] - Len(threadPipe[c])

\* A slot that has not been used is empty, and a thread holds commands only
\* while it forwards them.
ThreadLife(c) ==
    /\ status[c] # "off" => runs[c] >= 1
    /\ status[c] = "off" => /\ threadState[c] = "none"
                            /\ asked[c] = <<>> /\ served[c] = 0
    /\ threadState[c] # "forward" => batch[c] = <<>>
    /\ threadState[c] \in {"none", "start"} =>
          threadPipe[c] = <<>> /\ c \notin threadIdToPipe

ClientInv(c) ==
    /\ CommandsInOrder(c)
    /\ MainPipeInOrder(c)
    /\ RepliesInOrder(c)
    /\ NothingLost(c)
    /\ ThreadLife(c)
    /\ Delivered(c)

OrderInv == \A c \in Clients : ClientInv(c)

\* What a shell that waits for nothing says of its session, its thread and the
\* main thread say too: the player is online, reachable through that thread,
\* and the thread will log it out.  So no user is logged in twice.
SessionAgreement ==
    server = "up" =>
        \A c \in Clients : status[c] = "logged" /\ Idle(c) =>
            LET u == loggedUsername[c]
            IN  /\ u \in isOnline
                /\ threadPipeWriter[u] = c
                /\ loggedUser[c] = u

\* The server does not stop, and does not stop serving, while the clients
\* wait for answers and leave by exit only.
ServerServes == server = "up" /\ ~mapMutexLeaked

\* No more answers can be expected by c.
Excused(c) == status[c] = "gone" \/ mapMutexLeaked \/ server # "up"

\* Every command is answered in the end (readPipe, readSocket and the two
\* loops), unless the client leaves or the main thread cannot go on.
EveryCommandAnswered ==
    \A c \in Clients : \A k \in 1..MaxAsked :
        Len(asked[c]) >= k ~> answered[c] >= k \/ Excused(c)

\* The client died while it waited for nothing, before it asked to exit, and
\* the player is still the one it was logged in as.
Orphaned(c, u) ==
    /\ status[c] = "gone" /\ loggedUsername[c] = u /\ Idle(c)
    /\ \A k \in 1..Len(asked[c]) : asked[c][k] # Exit
    /\ u \in isOnline /\ threadPipeWriter[u] = c

\* The user of a shell that dies while it waits for nothing is logged out in
\* the end by its thread (clientThread.cpp:75), unless the main thread cannot
\* go on.
SessionReleased ==
    \A c \in Clients : \A u \in Accounts :
        Orphaned(c, u) ~> threadPipeWriter[u] # c \/ mapMutexLeaked \/ server # "up"

(***************************************************************************)
(* What the comments say and the code does not do.                         *)
(***************************************************************************)

\* mainThread.cpp:87: a message whose thread is unknown is ignored, and the
\* main thread goes on with the next.
IgnoringIsHarmless == ~mapMutexLeaked

\* Communication.hpp:10: reading from a severed connection returns the
\* messages that could be gathered; it does not end the server.
ReadReportsSevered == server # "bad_read"
=============================================================================

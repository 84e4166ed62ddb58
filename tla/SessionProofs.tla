--------------------------- MODULE SessionProofs ---------------------------
(***************************************************************************)
(* Theorems about Session, for every set of clients, users and accounts    *)
(* and all bounds: its type invariant, and the pairing of the answers with *)
(* the commands by position.                                               *)
(***************************************************************************)
EXTENDS Session, TLAPS

-----------------------------------------------------------------------------
(***************************************************************************)
(* Sequences.                                                              *)
(***************************************************************************)

LEMMA TailType ==
    ASSUME NEW S, NEW s \in Seq(S), s # <<>>
    PROVE  /\ Head(s) \in S
           /\ Tail(s) \in Seq(S)
           /\ Len(s) \in Nat \ {0} /\ Len(Tail(s)) = Len(s) - 1
           /\ Head(s) = s[1]
           /\ \A i \in 1..Len(Tail(s)) : Tail(s)[i] = s[i + 1]
OBVIOUS

LEMMA EmptyType ==
    ASSUME NEW S, NEW s \in Seq(S), Len(s) = 0
    PROVE  s = <<>>
OBVIOUS

LEMMA AppendType ==
    ASSUME NEW S, NEW s \in Seq(S), NEW e \in S
    PROVE  /\ Append(s, e) \in Seq(S)
           /\ Len(s) \in Nat /\ Len(Append(s, e)) = Len(s) + 1
           /\ \A i \in 1..Len(s) : Append(s, e)[i] = s[i]
           /\ Append(s, e)[Len(s) + 1] = e
OBVIOUS

LEMMA SplitType ==
    ASSUME NEW S, NEW s \in Seq(S), NEW k \in 1..Len(s)
    PROVE  /\ Len(s) \in Nat
           /\ SubSeq(s, 1, k) \in Seq(S)
           /\ Len(SubSeq(s, 1, k)) = k
           /\ \A i \in 1..k : SubSeq(s, 1, k)[i] = s[i]
           /\ SubSeq(s, k + 1, Len(s)) \in Seq(S)
           /\ Len(SubSeq(s, k + 1, Len(s))) = Len(s) - k
           /\ \A i \in 1..(Len(s) - k) : SubSeq(s, k + 1, Len(s))[i] = s[k + i]
OBVIOUS

-----------------------------------------------------------------------------
(***************************************************************************)
(* The type invariant.                                                     *)
(***************************************************************************)

LEMMA ClientTypes ==
    ASSUME TypeOK, NEW c \in Clients,
           \/ Connect(c) \/ \E cmd \in Commands : Type(c, cmd)
           \/ Receive(c) \/ Kill(c) \/ ServerLost(c)
    PROVE  TypeOK'
<1>1. CASE Connect(c)
  <2>1. /\ status' \in [Clients -> {"off", "not_logged", "logged", "gone"}]
        /\ loggedUsername' \in [Clients -> Names]
    BY <1>1 DEF TypeOK, Connect, Names
  <2>2. /\ toServer' \in [Clients -> Seq(Requests)]
        /\ toClient' \in [Clients -> Seq(Answers)]
        /\ sock' \in [Clients -> {"open", "fin", "reset", "broken"}]
    BY <1>1 DEF TypeOK, Connect
  <2>3. threadState' \in [Clients -> {"none", "start", "poll", "forward",
                                      "leaving", "farewell", "closing", "ended"}]
    BY <1>1 DEF TypeOK, Connect
  <2>4. /\ asked' \in [Clients -> Seq(Commands)]
        /\ served' \in [Clients -> Nat]
        /\ answered' \in [Clients -> Nat]
        /\ runs' \in [Clients -> Nat]
    BY <1>1 DEF TypeOK, Connect
  <2> QED
    BY <1>1, <2>1, <2>2, <2>3, <2>4 DEF TypeOK, Connect, playerVars
<1>2. ASSUME NEW cmd \in Commands, Type(c, cmd)
      PROVE  TypeOK'
  <2>1. [cmd |-> cmd, n |-> Len(asked[c]) + 1] \in Requests
    BY DEF TypeOK, Requests
  <2>2. /\ toServer' \in [Clients -> Seq(Requests)]
        /\ asked' \in [Clients -> Seq(Commands)]
    BY <1>2, <2>1 DEF TypeOK, Type
  <2> QED
    BY <1>2, <2>2 DEF TypeOK, Type, clientVars, threadVars, playerVars
<1>3. CASE Receive(c)
  <2>1. Head(toClient[c]) \in Answers /\ Tail(toClient[c]) \in Seq(Answers)
    BY <1>3, TailType DEF TypeOK, Receive
  <2>2. Head(toClient[c]).user \in Names
    BY <2>1 DEF Answers
  <2>3. /\ toClient' \in [Clients -> Seq(Answers)]
        /\ answered' \in [Clients -> Nat]
    BY <1>3, <2>1 DEF TypeOK, Receive
  <2>4. /\ status' \in [Clients -> {"off", "not_logged", "logged", "gone"}]
        /\ loggedUsername' \in [Clients -> Names]
        /\ sock' \in [Clients -> {"open", "fin", "reset", "broken"}]
    BY <1>3, <2>2 DEF TypeOK, Receive, Hangup, Names, clientVars
  <2> QED
    BY <1>3, <2>3, <2>4 DEF TypeOK, Receive, threadVars, playerVars
<1>4. CASE Kill(c)
  <2>1. /\ status' \in [Clients -> {"off", "not_logged", "logged", "gone"}]
        /\ sock' \in [Clients -> {"open", "fin", "reset", "broken"}]
        /\ toClient' \in [Clients -> Seq(Answers)]
    BY <1>4 DEF TypeOK, Kill, Hangup
  <2> QED
    BY <1>4, <2>1 DEF TypeOK, Kill, threadVars, playerVars, historyVars
<1>5. CASE ServerLost(c)
  BY <1>5 DEF TypeOK, ServerLost, socketVars, threadVars, playerVars, historyVars
<1> QED
  BY <1>1, <1>2, <1>3, <1>4, <1>5

LEMMA WriteTypes ==
    ASSUME TypeOK, NEW c \in Clients, NEW m \in Answers, WriteToSocket(c, m)
    PROVE  /\ toClient' \in [Clients -> Seq(Answers)]
           /\ sock' \in [Clients -> {"open", "fin", "reset", "broken"}]
           /\ server' \in {"up", "sigpipe", "bad_read", "no_account", "no_username"}
<1>1. Append(toClient[c], m) \in Seq(Answers)
  BY AppendType DEF TypeOK
<1> QED
  BY <1>1 DEF TypeOK, WriteToSocket

LEMMA ThreadTypes ==
    ASSUME TypeOK, NEW c \in Clients, Thread(c)
    PROVE  TypeOK'
<1> DEFINE ThreadStates == {"none", "start", "poll", "forward",
                            "leaving", "farewell", "closing", "ended"}
<1>1. CASE ThreadStart(c)
  <2>1. /\ threadState' \in [Clients -> ThreadStates]
        /\ batch' \in [Clients -> Seq(Requests)]
        /\ loggedUser' \in [Clients -> Names]
        /\ threadPipe' \in [Clients -> Seq(Answers)]
        /\ threadIdToPipe' \in SUBSET Clients
    BY <1>1 DEF TypeOK, ThreadStart, Names
  <2> QED
    BY <1>1, <2>1 DEF TypeOK, ThreadStart, clientVars, socketVars, playerVars, historyVars
<1>2. CASE ThreadReadPipe(c)
  <2>1. Head(threadPipe[c]) \in Answers /\ Tail(threadPipe[c]) \in Seq(Answers)
    BY <1>2, TailType DEF TypeOK, ThreadReadPipe
  <2>2. NoteAnswer(c, Head(threadPipe[c])) \in Names
    BY <2>1 DEF TypeOK, NoteAnswer, Answers, Names
  <2>3. /\ threadPipe' \in [Clients -> Seq(Answers)]
        /\ loggedUser' \in [Clients -> Names]
        /\ threadState' \in [Clients -> ThreadStates]
    BY <1>2, <2>1, <2>2 DEF TypeOK, ThreadReadPipe
  <2>4. WriteToSocket(c, Head(threadPipe[c]))
    BY <1>2 DEF ThreadReadPipe
  <2>5. /\ toClient' \in [Clients -> Seq(Answers)]
        /\ sock' \in [Clients -> {"open", "fin", "reset", "broken"}]
        /\ server' \in {"up", "sigpipe", "bad_read", "no_account", "no_username"}
    BY <2>1, <2>4, WriteTypes
  <2> QED
    BY <1>2, <2>3, <2>5 DEF TypeOK, ThreadReadPipe, clientVars, playerVars, historyVars
<1>3. CASE ThreadReadSocket(c)
  <2>1. /\ batch' \in [Clients -> Seq(Requests)]
        /\ toServer' \in [Clients -> Seq(Requests)]
    BY <1>3, SplitType DEF TypeOK, ThreadReadSocket
  <2>2. threadState' \in [Clients -> ThreadStates]
    BY <1>3 DEF TypeOK, ThreadReadSocket
  <2> QED
    BY <1>3, <2>1, <2>2 DEF TypeOK, ThreadReadSocket, clientVars, playerVars, historyVars
<1>4. CASE ThreadForward(c)
  <2> DEFINE m == [cmd |-> Head(batch[c]).cmd, n |-> Head(batch[c]).n,
                   username |-> loggedUser[c], threadId |-> c]
  <2>1. Head(batch[c]) \in Requests /\ Tail(batch[c]) \in Seq(Requests)
    BY <1>4, TailType DEF TypeOK, ThreadForward
  <2>2. m \in MainMessages
    BY <2>1 DEF TypeOK, MainMessages, Requests
  <2>3. mainPipe' \in Seq(MainMessages)
    BY <1>4, <2>2 DEF TypeOK, ThreadForward
  <2>4. /\ batch' \in [Clients -> Seq(Requests)]
        /\ threadState' \in [Clients -> ThreadStates]
    BY <1>4, <2>1 DEF TypeOK, ThreadForward
  <2> QED
    BY <1>4, <2>3, <2>4 DEF TypeOK, ThreadForward, clientVars, socketVars, playerVars, historyVars
<1>5. CASE ThreadReadEnd(c)
  <2>1. /\ threadState' \in [Clients -> ThreadStates]
        /\ server' \in {"up", "sigpipe", "bad_read", "no_account", "no_username"}
    BY <1>5 DEF TypeOK, ThreadReadEnd
  <2> QED
    BY <1>5, <2>1 DEF TypeOK, ThreadReadEnd, clientVars, socketVars, playerVars, historyVars
<1>6. CASE ThreadFarewell(c)
  <2> DEFINE m == [cmd |-> Logout, n |-> 0,
                   username |-> loggedUser[c], threadId |-> NoClient]
  <2>1. m \in MainMessages
    BY DEF TypeOK, MainMessages, Commands
  <2>2. mainPipe' \in Seq(MainMessages)
    BY <1>6, <2>1 DEF TypeOK, ThreadFarewell
  <2>3. threadState' \in [Clients -> ThreadStates]
    BY <1>6 DEF TypeOK, ThreadFarewell
  <2> QED
    BY <1>6, <2>2, <2>3 DEF TypeOK, ThreadFarewell, clientVars, socketVars, playerVars, historyVars
<1>7. CASE ThreadClose(c)
  <2>1. /\ threadState' \in [Clients -> ThreadStates]
        /\ threadPipe' \in [Clients -> Seq(Answers)]
        /\ threadIdToPipe' \in SUBSET Clients
    BY <1>7 DEF TypeOK, ThreadClose
  <2> QED
    BY <1>7, <2>1 DEF TypeOK, ThreadClose, clientVars, socketVars, playerVars, historyVars
<1> QED
  BY <1>1, <1>2, <1>3, <1>4, <1>5, <1>6, <1>7 DEF Thread

LEMMA CommandParts ==
    ASSUME NEW cmd \in Commands
    PROVE  /\ cmd.user \in Names /\ cmd.right \in BOOLEAN
           /\ cmd.type \in {"LOGIN", "LOGOUT", "LIST", "EXIT"}
<1>1. CASE cmd \in {Login(u, r) : u \in Users, r \in BOOLEAN}
  <2>1. PICK u \in Users, r \in BOOLEAN : cmd = Login(u, r)
    BY <1>1
  <2> QED
    BY <2>1 DEF Login, Names
<1>2. CASE cmd \in {Logout, List, Exit}
  <2>1. /\ cmd.user = NoUser /\ cmd.right = FALSE
        /\ cmd.type \in {"LOGOUT", "LIST", "EXIT"}
    BY <1>2 DEF Logout, List, Exit
  <2> QED
    BY <2>1 DEF Names
<1> QED
  BY <1>1, <1>2 DEF Commands

LEMMA MessageParts ==
    ASSUME NEW m \in MainMessages
    PROVE  /\ m.cmd \in Commands /\ m.username \in Names
           /\ m.cmd.user \in Names /\ m.cmd.right \in BOOLEAN
BY CommandParts DEF MainMessages

LEMMA ReplyTypes ==
    ASSUME TypeOK, NEW m \in MainMessages, m.threadId \in Clients,
           NEW type \in {"LOGINACK", "LOGOUTACK", "LIST", "EXITACK"},
           NEW u \in Names, NEW ok \in BOOLEAN, Reply(m, type, u, ok)
    PROVE  /\ threadPipe' \in [Clients -> Seq(Answers)]
           /\ served' \in [Clients -> Nat]
<1>1. [type |-> type, user |-> u, ok |-> ok, n |-> m.n] \in Answers
  BY DEF Answers, MainMessages
<1> QED
  BY <1>1 DEF TypeOK, Reply

LEMMA MainTypes ==
    ASSUME TypeOK, Main
    PROVE  TypeOK'
<1> DEFINE m == Head(mainPipe)
<1>1. m \in MainMessages /\ Tail(mainPipe) \in Seq(MainMessages)
  BY TailType DEF TypeOK, Main
<1>2. /\ m.cmd \in Commands /\ m.username \in Names
      /\ m.cmd.user \in Names /\ m.cmd.right \in BOOLEAN
  BY <1>1, MessageParts
<1>3. NoUser \in Names /\ NoUser \notin Accounts /\ NoClient \notin Clients
  BY ConstantsAssumption DEF Names
<1> HIDE DEF m
<1>4. CASE MainSkip(m)
  <2>1. mainPipe' \in Seq(MainMessages)
    BY <1>1, <1>4 DEF MainSkip, Take, m
  <2> QED
    BY <1>4, <2>1 DEF TypeOK, MainSkip, clientVars, socketVars, threadVars, playerVars, historyVars
<1>5. CASE MainLogin(m)
  <2>1. mainPipe' \in Seq(MainMessages) /\ m.threadId \in Clients
    BY <1>1, <1>5 DEF TypeOK, MainLogin, TakeFromThread, Take, m
  <2>2. threadPipe' \in [Clients -> Seq(Answers)] /\ served' \in [Clients -> Nat]
    <3>1. CanLogin(m.cmd) \in BOOLEAN
      BY <1>2 DEF CanLogin
    <3>2. Reply(m, "LOGINACK", m.cmd.user, CanLogin(m.cmd))
      BY <1>5 DEF MainLogin
    <3> QED
      BY <1>1, <1>2, <2>1, <3>1, <3>2, ReplyTypes
  <2>3. /\ isOnline' \in SUBSET Accounts
        /\ threadPipeWriter' \in [Accounts -> Clients \cup {NoClient}]
    BY <1>5, <2>1 DEF TypeOK, MainLogin, CanLogin, playerVars
  <2> QED
    BY <1>5, <2>1, <2>2, <2>3 DEF TypeOK, MainLogin, clientVars, socketVars
<1>6. CASE MainLogout(m)
  <2>1. mainPipe' \in Seq(MainMessages) /\ m.threadId \in Clients
    BY <1>1, <1>6 DEF TypeOK, MainLogout, TakeFromThread, Take, m
  <2>2. threadPipe' \in [Clients -> Seq(Answers)] /\ served' \in [Clients -> Nat]
    <3>1. CASE Reply(m, "LOGOUTACK", m.username, TRUE)
      BY <1>1, <1>2, <2>1, <3>1, ReplyTypes
    <3>2. CASE UNCHANGED <<threadPipe, served>>
      BY <3>2 DEF TypeOK
    <3> QED
      BY <1>6, <3>1, <3>2 DEF MainLogout
  <2>3. /\ isOnline' \in SUBSET Accounts
        /\ threadPipeWriter' \in [Accounts -> Clients \cup {NoClient}]
        /\ server' \in {"up", "sigpipe", "bad_read", "no_account", "no_username"}
    BY <1>6 DEF TypeOK, MainLogout, Deactivate, LogoutFault, playerVars
  <2> QED
    BY <1>6, <2>1, <2>2, <2>3 DEF TypeOK, MainLogout, clientVars, socketVars
<1>7. CASE MainFarewell(m)
  <2>1. mainPipe' \in Seq(MainMessages)
    BY <1>1, <1>7 DEF MainFarewell, Take, m
  <2>2. /\ isOnline' \in SUBSET Accounts
        /\ threadPipeWriter' \in [Accounts -> Clients \cup {NoClient}]
        /\ server' \in {"up", "sigpipe", "bad_read", "no_account", "no_username"}
    BY <1>7 DEF TypeOK, MainFarewell, Deactivate, LogoutFault, playerVars
  <2> QED
    BY <1>7, <2>1, <2>2 DEF TypeOK, MainFarewell, clientVars, socketVars, threadVars, historyVars
<1>8. CASE MainList(m)
  <2>1. mainPipe' \in Seq(MainMessages) /\ m.threadId \in Clients
    BY <1>1, <1>8 DEF TypeOK, MainList, TakeFromThread, Take, m
  <2>2. threadPipe' \in [Clients -> Seq(Answers)] /\ served' \in [Clients -> Nat]
    BY <1>1, <1>3, <1>8, <2>1, ReplyTypes DEF MainList
  <2> QED
    BY <1>8, <2>1, <2>2 DEF TypeOK, MainList, clientVars, socketVars, playerVars
<1>9. CASE MainExit(m)
  <2>1. mainPipe' \in Seq(MainMessages) /\ m.threadId \in Clients
    BY <1>1, <1>9 DEF TypeOK, MainExit, TakeFromThread, Take, m
  <2>2. threadPipe' \in [Clients -> Seq(Answers)] /\ served' \in [Clients -> Nat]
    BY <1>1, <1>3, <1>9, <2>1, ReplyTypes DEF MainExit
  <2> QED
    BY <1>9, <2>1, <2>2 DEF TypeOK, MainExit, clientVars, socketVars, playerVars
<1> QED
  BY <1>4, <1>5, <1>6, <1>7, <1>8, <1>9 DEF Main, m

LEMMA TypesInit == Init => TypeOK
<1> SUFFICES ASSUME Init PROVE TypeOK
  OBVIOUS
<1>1. /\ status \in [Clients -> {"off", "not_logged", "logged", "gone"}]
      /\ loggedUsername \in [Clients -> Names]
      /\ loggedUser \in [Clients -> Names]
      /\ threadPipeWriter \in [Accounts -> Clients \cup {NoClient}]
  BY DEF Init, Names
<1>2. /\ toServer \in [Clients -> Seq(Requests)]
      /\ batch \in [Clients -> Seq(Requests)]
      /\ toClient \in [Clients -> Seq(Answers)]
      /\ threadPipe \in [Clients -> Seq(Answers)]
      /\ asked \in [Clients -> Seq(Commands)]
  BY DEF Init
<1>3. mainPipe \in Seq(MainMessages)
  BY DEF Init
<1>4. /\ sock \in [Clients -> {"open", "fin", "reset", "broken"}]
      /\ threadState \in [Clients -> {"none", "start", "poll", "forward",
                                      "leaving", "farewell", "closing", "ended"}]
      /\ served \in [Clients -> Nat]
      /\ answered \in [Clients -> Nat]
      /\ runs \in [Clients -> Nat]
  BY DEF Init
<1>5. /\ threadIdToPipe \in SUBSET Clients
      /\ mapMutexLeaked \in BOOLEAN
      /\ isOnline \in SUBSET Accounts
      /\ server \in {"up", "sigpipe", "bad_read", "no_account", "no_username"}
  BY DEF Init
<1> QED
  BY <1>1, <1>2, <1>3, <1>4, <1>5 DEF TypeOK

LEMMA TypesStep == TypeOK /\ [Next]_vars => TypeOK'
<1> SUFFICES ASSUME TypeOK, [Next]_vars
             PROVE  TypeOK'
  OBVIOUS
<1>1. CASE UNCHANGED vars
  BY <1>1 DEF TypeOK, vars, clientVars, socketVars, threadVars, playerVars, historyVars
<1>2. CASE Next
  BY <1>2, ClientTypes, ThreadTypes, MainTypes DEF Next
<1> QED
  BY <1>1, <1>2

\* Every variable of the clients, the threads and the main thread keeps its
\* type, whatever the bounds.
THEOREM Typing == Spec => []TypeOK
BY TypesInit, TypesStep, PTL DEF Spec

-----------------------------------------------------------------------------
(***************************************************************************)
(* The answers stay in order.  Each part of ClientInv depends on a few     *)
(* variables only: it holds after a step that leaves those alone.          *)
(***************************************************************************)

LEMMA CommandsFrame ==
    ASSUME NEW d \in Clients, CommandsInOrder(d),
           asked'[d] = asked[d], toServer'[d] = toServer[d],
           batch'[d] = batch[d], served'[d] = served[d]
    PROVE  CommandsInOrder(d)' /\ Forwarded(d)' = Forwarded(d)
BY DEF CommandsInOrder, Forwarded, Genuine

LEMMA MainPipeFrame ==
    ASSUME NEW d \in Clients, MainPipeInOrder(d), Forwarded(d)' = Forwarded(d),
           asked'[d] = asked[d], served'[d] = served[d], mainPipe' = mainPipe,
           (NoneSkipped' => NoneSkipped)
    PROVE  MainPipeInOrder(d)'
BY DEF MainPipeInOrder, Genuine

LEMMA RepliesFrame ==
    ASSUME NEW d \in Clients, RepliesInOrder(d),
           asked'[d] = asked[d], served'[d] = served[d],
           threadPipe'[d] = threadPipe[d]
    PROVE  RepliesInOrder(d)'
BY DEF RepliesInOrder, Proper, Fits

LEMMA DeliveredFrame ==
    ASSUME NEW d \in Clients, Delivered(d),
           asked'[d] = asked[d], answered'[d] = answered[d],
           toClient'[d] = toClient[d], status'[d] = status[d]
    PROVE  Delivered(d)'
BY DEF Delivered, InShell, Proper, Fits

\* A step of c that writes nothing to the main pipe does not touch d.
LEMMA OtherClient ==
    ASSUME TypeOK, OrderInv, NEW c \in Clients, NEW d \in Clients \ {c},
           \/ Connect(c) \/ \E cmd \in Commands : Type(c, cmd)
           \/ Receive(c) \/ Kill(c) \/ ServerLost(c)
           \/ ThreadStart(c) \/ ThreadReadPipe(c) \/ ThreadReadSocket(c)
           \/ ThreadReadEnd(c) \/ ThreadClose(c)
    PROVE  ClientInv(d)'
<1>1. ClientInv(d)
  BY DEF OrderInv
<1>2. /\ status'[d] = status[d] /\ toServer'[d] = toServer[d]
      /\ toClient'[d] = toClient[d] /\ sock'[d] = sock[d]
      /\ threadState'[d] = threadState[d] /\ batch'[d] = batch[d]
      /\ threadPipe'[d] = threadPipe[d] /\ asked'[d] = asked[d]
      /\ served'[d] = served[d] /\ answered'[d] = answered[d]
      /\ runs'[d] = runs[d] /\ mainPipe' = mainPipe
      /\ (NoneSkipped' => NoneSkipped)
      /\ d \in threadIdToPipe' <=> d \in threadIdToPipe
  <2>1. CASE Connect(c)
    BY <2>1 DEF TypeOK, Connect, NoneSkipped
  <2>2. CASE \E cmd \in Commands : Type(c, cmd)
    BY <2>2 DEF TypeOK, Type, clientVars, threadVars, NoneSkipped
  <2>3. CASE Receive(c)
    BY <2>3 DEF TypeOK, Receive, clientVars, threadVars, NoneSkipped
  <2>4. CASE Kill(c) \/ ServerLost(c)
    BY <2>4 DEF TypeOK, Kill, ServerLost, threadVars, socketVars, historyVars,
                NoneSkipped
  <2>5. CASE ThreadStart(c) \/ ThreadClose(c)
    BY <2>5 DEF TypeOK, ThreadStart, ThreadClose, clientVars, socketVars, historyVars,
                NoneSkipped
  <2>6. CASE ThreadReadPipe(c)
    BY <2>6 DEF TypeOK, ThreadReadPipe, WriteToSocket, clientVars, historyVars,
                NoneSkipped
  <2>7. CASE ThreadReadSocket(c)
    BY <2>7 DEF TypeOK, ThreadReadSocket, clientVars, historyVars, NoneSkipped
  <2>8. CASE ThreadReadEnd(c)
    BY <2>8 DEF TypeOK, ThreadReadEnd, clientVars, socketVars, historyVars, NoneSkipped
  <2> QED
    BY <2>1, <2>2, <2>3, <2>4, <2>5, <2>6, <2>7, <2>8
<1>3. CommandsInOrder(d)' /\ MainPipeInOrder(d)'
  BY <1>1, <1>2, CommandsFrame, MainPipeFrame DEF ClientInv
<1>4. RepliesInOrder(d)' /\ Delivered(d)'
  BY <1>1, <1>2, RepliesFrame, DeliveredFrame DEF ClientInv
<1>5. NothingLost(d)' /\ ThreadLife(d)'
  BY <1>1, <1>2 DEF ClientInv, NothingLost, ThreadLife, InShell
<1> QED
  BY <1>3, <1>4, <1>5 DEF ClientInv

\* The lengths and counters of c are natural numbers.
LEMMA Counters ==
    ASSUME TypeOK, NEW c \in Clients
    PROVE  /\ Len(asked[c]) \in Nat /\ Len(toServer[c]) \in Nat
           /\ Len(batch[c]) \in Nat /\ Len(toClient[c]) \in Nat
           /\ Len(threadPipe[c]) \in Nat /\ Len(mainPipe) \in Nat
           /\ served[c] \in Nat /\ answered[c] \in Nat /\ runs[c] \in Nat
           /\ asked[c] \in Seq(Commands)
           /\ toServer[c] \in Seq(Requests) /\ batch[c] \in Seq(Requests)
           /\ toClient[c] \in Seq(Answers) /\ threadPipe[c] \in Seq(Answers)
           /\ Forwarded(c) \in Int /\ Forwarded(c) <= Len(asked[c])
BY DEF TypeOK, Forwarded

LEMMA ConnectInv ==
    ASSUME TypeOK, OrderInv, MaxRuns = 1, NEW c \in Clients, Connect(c)
    PROVE  ClientInv(c)'
<1>1. ClientInv(c)
  BY DEF OrderInv
<1>2. /\ status[c] = "off" /\ threadState[c] = "none"
      /\ asked[c] = <<>> /\ served[c] = 0 /\ runs[c] = 0
  BY <1>1, Counters DEF Connect, ClientInv, ThreadLife
<1>3. batch[c] = <<>> /\ threadPipe[c] = <<>> /\ c \notin threadIdToPipe
  BY <1>1, <1>2 DEF ClientInv, ThreadLife
<1>4. /\ status'[c] = "not_logged" /\ threadState'[c] = "start"
      /\ sock'[c] = "open" /\ runs'[c] = 1
      /\ toServer'[c] = <<>> /\ toClient'[c] = <<>> /\ asked'[c] = <<>>
      /\ served'[c] = 0 /\ answered'[c] = 0
      /\ UNCHANGED <<batch, threadPipe, mainPipe, threadIdToPipe>>
      /\ (NoneSkipped' => NoneSkipped)
  BY <1>2 DEF TypeOK, Connect, NoneSkipped
<1>5. toServer[c] = <<>> /\ Forwarded(c) = 0 /\ Forwarded(c)' = 0
  BY <1>1, <1>2, <1>3, <1>4, Counters DEF ClientInv, CommandsInOrder, Forwarded
<1>6. CommandsInOrder(c)'
  BY <1>3, <1>4, <1>5 DEF CommandsInOrder
<1>7. MainPipeInOrder(c)'
  BY <1>1, <1>2, <1>4, <1>5, MainPipeFrame DEF ClientInv
<1>8. RepliesInOrder(c)'
  BY <1>3, <1>4 DEF RepliesInOrder
<1>9. NothingLost(c)' /\ ThreadLife(c)' /\ Delivered(c)'
  BY <1>3, <1>4 DEF NothingLost, ThreadLife, Delivered
<1> QED
  BY <1>6, <1>7, <1>8, <1>9 DEF ClientInv

LEMMA TypeCommandInv ==
    ASSUME TypeOK, OrderInv, NEW c \in Clients, NEW cmd \in Commands, Type(c, cmd)
    PROVE  ClientInv(c)'
<1>0. PICK k, r : k = Len(asked[c]) + 1 /\ r = [cmd |-> cmd, n |-> k]
  OBVIOUS
<1>1. /\ CommandsInOrder(c) /\ MainPipeInOrder(c) /\ RepliesInOrder(c)
      /\ NothingLost(c) /\ ThreadLife(c) /\ Delivered(c)
  BY DEF OrderInv, ClientInv
<1>2. /\ Len(asked[c]) \in Nat /\ Len(toServer[c]) \in Nat
      /\ Len(batch[c]) \in Nat /\ Len(toClient[c]) \in Nat
      /\ Len(threadPipe[c]) \in Nat /\ served[c] \in Nat /\ answered[c] \in Nat
      /\ Forwarded(c) \in Int /\ Forwarded(c) <= Len(asked[c])
      /\ served[c] <= Forwarded(c)
  BY <1>1, Counters DEF CommandsInOrder
<1>3. /\ batch' = batch /\ served' = served /\ status' = status
      /\ answered' = answered /\ toClient' = toClient /\ sock' = sock
      /\ threadState' = threadState /\ threadPipe' = threadPipe
      /\ mainPipe' = mainPipe /\ (NoneSkipped' => NoneSkipped)
      /\ runs' = runs /\ threadIdToPipe' = threadIdToPipe
  BY DEF TypeOK, Type, clientVars, threadVars, NoneSkipped
<1>4. /\ Len(asked'[c]) = Len(asked[c]) + 1
      /\ \A i \in 1..Len(asked[c]) : asked'[c][i] = asked[c][i]
      /\ asked'[c][k] = cmd
  <2>1. asked'[c] = Append(asked[c], cmd)
    BY DEF TypeOK, Type
  <2> QED
    BY <1>0, <2>1, AppendType, Counters
<1>5. /\ Len(toServer'[c]) = Len(toServer[c]) + 1
      /\ \A i \in 1..Len(toServer[c]) : toServer'[c][i] = toServer[c][i]
      /\ toServer'[c][Len(toServer[c]) + 1] = r
  <2>1. r \in Requests
    BY <1>0, <1>2 DEF Requests
  <2>2. toServer'[c] = Append(toServer[c], r)
    BY <1>0 DEF TypeOK, Type
  <2> QED
    BY <2>1, <2>2, AppendType, Counters
<1>6. Forwarded(c)' = Forwarded(c)
  BY <1>2, <1>3, <1>4, <1>5 DEF Forwarded
<1>7. /\ \A q : Genuine(c, q) => Genuine(c, q)'
      /\ \A m : Proper(c, m) => Proper(c, m)'
      /\ Genuine(c, r)'
  <2>1. \A q : Genuine(c, q) => Genuine(c, q)'
    BY <1>2, <1>4 DEF Genuine
  <2>2. \A m : Proper(c, m) => Proper(c, m)'
    BY <1>2, <1>4 DEF Proper
  <2>3. r.n = k /\ r.cmd = cmd /\ k \in 1..Len(asked'[c])
    BY <1>0, <1>2, <1>4
  <2>4. Genuine(c, r)'
    BY <1>4, <2>3 DEF Genuine
  <2> QED
    BY <2>1, <2>2, <2>4
<1>8. CommandsInOrder(c)'
  <2>1. ASSUME NEW i \in 1..Len(toServer'[c])
        PROVE  /\ Genuine(c, toServer[c][i])'
               /\ toServer'[c][i].n = Forwarded(c)' + Len(batch'[c]) + i
    <3>1. CASE i \in 1..Len(toServer[c])
      <4>1. /\ Genuine(c, toServer[c][i])
            /\ toServer[c][i].n = Forwarded(c) + Len(batch[c]) + i
        BY <1>1, <3>1 DEF CommandsInOrder
      <4> QED
        BY <1>3, <1>5, <1>6, <1>7, <3>1, <4>1 DEF Genuine
    <3>2. CASE i = Len(toServer[c]) + 1
      <4>1. toServer'[c][i] = r
        BY <1>5, <3>2
      <4>2. r.n = Forwarded(c)' + Len(batch'[c]) + i
        <5>1. PICK a \in Nat, s \in Nat, b \in Nat :
                a = Len(asked[c]) /\ s = Len(toServer[c]) /\ b = Len(batch[c])
          BY <1>2
        <5>2. Forwarded(c) = a - s - b /\ k = a + 1 /\ i = s + 1
          BY <1>0, <3>2, <5>1 DEF Forwarded
        <5>3. k = Forwarded(c) + b + i
          BY <5>2
        <5> QED
          BY <1>0, <1>3, <1>6, <5>1, <5>3
      <4> QED
        BY <1>7, <4>1, <4>2 DEF Genuine
    <3> QED
      BY <1>2, <1>5, <3>1, <3>2
  <2>2. ASSUME NEW i \in 1..Len(batch[c])
        PROVE  Genuine(c, batch[c][i])' /\ batch[c][i].n = Forwarded(c)' + i
    <3>1. Genuine(c, batch[c][i]) /\ batch[c][i].n = Forwarded(c) + i
      BY <1>1 DEF CommandsInOrder
    <3> QED
      BY <1>3, <1>6, <1>7, <3>1 DEF Genuine
  <2> QED
    BY <1>2, <1>3, <1>6, <2>1, <2>2 DEF CommandsInOrder
<1>9. MainPipeInOrder(c)'
  <2>1. ASSUME NEW i \in 1..Len(mainPipe), mainPipe[i].threadId = c
        PROVE  Genuine(c, mainPipe[i])'
    <3>1. Genuine(c, mainPipe[i])
      BY <1>1, <2>1 DEF MainPipeInOrder
    <3> QED
      BY <1>3, <1>7, <3>1 DEF Genuine
  <2> QED
    BY <1>1, <1>3, <1>6, <2>1 DEF MainPipeInOrder
<1>10. RepliesInOrder(c)'
  <2>1. ASSUME NEW i \in 1..Len(threadPipe[c])
        PROVE  Proper(c, threadPipe[c][i])'
    <3>1. Proper(c, threadPipe[c][i])
      BY <1>1 DEF RepliesInOrder
    <3> QED
      BY <1>3, <1>7, <3>1 DEF Proper, Fits
  <2> QED
    BY <1>1, <1>3, <2>1 DEF RepliesInOrder
<1>11. Delivered(c)'
  <2>1. ASSUME InShell(c), NEW i \in 1..Len(toClient[c])
        PROVE  Proper(c, toClient[c][i])' /\ toClient[c][i].n = answered[c] + i
    <3>1. Proper(c, toClient[c][i]) /\ toClient[c][i].n = answered[c] + i
      BY <1>1, <2>1 DEF Delivered
    <3> QED
      BY <1>3, <1>7, <3>1 DEF Proper, Fits
  <2> QED
    BY <1>3, <2>1 DEF Delivered, InShell
<1>12. NothingLost(c)' /\ ThreadLife(c)'
  <2>1. status[c] # "off"
    BY CommandParts DEF Type, Allowed
  <2> QED
    BY <1>1, <1>3, <2>1 DEF NothingLost, ThreadLife, InShell
<1> QED
  BY <1>8, <1>9, <1>10, <1>11, <1>12 DEF ClientInv

LEMMA ShellInv ==
    ASSUME TypeOK, OrderInv, NEW c \in Clients,
           Receive(c) \/ Kill(c) \/ ServerLost(c)
    PROVE  ClientInv(c)'
<1>1. ClientInv(c)
  BY DEF OrderInv
<1>2. /\ status[c] # "off" /\ status'[c] # "off" /\ InShell(c)
      /\ UNCHANGED <<toServer, threadState, batch, threadPipe, mainPipe,
                     threadIdToPipe, asked, served, runs>>
      /\ (NoneSkipped' => NoneSkipped)
  BY DEF TypeOK, Receive, Kill, ServerLost, InShell, threadVars, socketVars,
         historyVars, clientVars, NoneSkipped
<1>3. CommandsInOrder(c)' /\ MainPipeInOrder(c)' /\ RepliesInOrder(c)'
  BY <1>1, <1>2, CommandsFrame, MainPipeFrame, RepliesFrame DEF ClientInv
<1>4. ThreadLife(c)'
  BY <1>1, <1>2 DEF ClientInv, ThreadLife
<1>5. CASE status'[c] = "gone"
  BY <1>3, <1>4, <1>5 DEF ClientInv, NothingLost, Delivered, InShell
<1>6. CASE status'[c] # "gone"
  <2>1. Receive(c)
    BY <1>6 DEF TypeOK, Kill, ServerLost
  <2>2. /\ sock'[c] = sock[c] /\ toClient'[c] = Tail(toClient[c])
        /\ toClient[c] # <<>> /\ answered'[c] = answered[c] + 1
    BY <1>6, <2>1 DEF TypeOK, Receive
  <2>3. /\ Len(toClient'[c]) = Len(toClient[c]) - 1
        /\ \A i \in 1..Len(toClient'[c]) : toClient'[c][i] = toClient[c][i + 1]
    BY <2>2, TailType, Counters
  <2>4. NothingLost(c)'
    BY <1>1, <1>2, <2>2, <2>3, Counters DEF ClientInv, NothingLost
  <2>5. Delivered(c)'
    <3>1. Len(toClient[c]) \in Nat /\ answered[c] \in Nat
      BY Counters
    <3>2. ASSUME NEW i \in 1..Len(toClient'[c])
          PROVE  /\ Proper(c, toClient[c][i])'
                 /\ toClient'[c][i].n = answered'[c] + i
      <4>1. i + 1 \in 1..Len(toClient[c]) /\ answered'[c] + i = answered[c] + (i + 1)
        BY <2>2, <2>3, <3>1
      <4>2. /\ Proper(c, toClient[c][i + 1])
            /\ toClient[c][i + 1].n = answered[c] + (i + 1)
        BY <1>1, <1>2, <4>1 DEF ClientInv, Delivered
      <4> QED
        BY <1>2, <2>3, <4>1, <4>2 DEF Proper, Fits
    <3> QED
      BY <3>2 DEF Delivered
  <2> QED
    BY <1>3, <1>4, <2>4, <2>5 DEF ClientInv
<1> QED
  BY <1>5, <1>6

LEMMA ThreadReadPipeInv ==
    ASSUME TypeOK, OrderInv, NEW c \in Clients, ThreadReadPipe(c)
    PROVE  ClientInv(c)'
<1>0. PICK m : m = Head(threadPipe[c])
  OBVIOUS
<1>1. /\ CommandsInOrder(c) /\ MainPipeInOrder(c) /\ RepliesInOrder(c)
      /\ NothingLost(c) /\ ThreadLife(c) /\ Delivered(c)
  BY DEF OrderInv, ClientInv
<1>2. /\ threadState[c] \in {"poll", "leaving"} /\ threadPipe[c] # <<>>
      /\ threadPipe'[c] = Tail(threadPipe[c])
      /\ threadState'[c] \in {"poll", "leaving"}
      /\ WriteToSocket(c, m)
      /\ batch' = batch /\ served' = served /\ status' = status /\ asked' = asked
      /\ answered' = answered /\ toServer' = toServer /\ mainPipe' = mainPipe
      /\ (NoneSkipped' => NoneSkipped) /\ runs' = runs
      /\ threadIdToPipe' = threadIdToPipe
  BY <1>0 DEF TypeOK, ThreadReadPipe, clientVars, historyVars, NoneSkipped
<1>3. /\ Len(threadPipe[c]) \in Nat /\ served[c] \in Nat /\ answered[c] \in Nat
      /\ Len(toClient[c]) \in Nat
      /\ toClient[c] \in Seq(Answers) /\ threadPipe[c] \in Seq(Answers)
  BY Counters
<1>4. /\ m \in Answers /\ m = threadPipe[c][1] /\ Len(threadPipe[c]) > 0
      /\ Len(threadPipe'[c]) = Len(threadPipe[c]) - 1
      /\ \A i \in 1..Len(threadPipe'[c]) : threadPipe'[c][i] = threadPipe[c][i + 1]
  BY <1>0, <1>2, <1>3, TailType
<1>5. Proper(c, m) /\ m.n = served[c] - Len(threadPipe[c]) + 1
  BY <1>1, <1>3, <1>4 DEF RepliesInOrder
<1>6. \A x : Proper(c, x) => Proper(c, x)'
  BY <1>2 DEF Proper
<1>7. CommandsInOrder(c)' /\ MainPipeInOrder(c)' /\ ThreadLife(c)'
  BY <1>1, <1>2, CommandsFrame, MainPipeFrame DEF ThreadLife
<1>8. RepliesInOrder(c)'
  <2>1. ASSUME NEW i \in 1..Len(threadPipe'[c])
        PROVE  /\ Proper(c, threadPipe[c][i])'
               /\ threadPipe'[c][i].n = served[c] - Len(threadPipe'[c]) + i
    <3>1. i + 1 \in 1..Len(threadPipe[c])
      BY <1>3, <1>4
    <3>2. /\ Proper(c, threadPipe[c][i + 1])
          /\ threadPipe[c][i + 1].n = served[c] - Len(threadPipe[c]) + (i + 1)
          /\ threadPipe'[c][i] = threadPipe[c][i + 1]
      BY <1>1, <1>4, <3>1 DEF RepliesInOrder
    <3>3. PICK p \in Nat, q \in Nat : p = Len(threadPipe[c]) /\ q = Len(threadPipe'[c])
      BY <1>3, <1>4
    <3>4. q = p - 1 /\ i \in Int /\ served[c] \in Int
      BY <1>3, <1>4, <3>3
    <3>5. served[c] - p + (i + 1) = served[c] - q + i
      BY <3>4
    <3> QED
      BY <1>6, <3>2, <3>3, <3>5 DEF Proper
  <2>2. Len(threadPipe'[c]) <= served'[c] /\ served'[c] = served[c]
    BY <1>1, <1>2, <1>3, <1>4 DEF RepliesInOrder
  <2> QED
    BY <2>1, <2>2 DEF RepliesInOrder
<1>9. CASE ~InShell(c)
  <2>1. NothingLost(c)' /\ Delivered(c)'
    BY <1>2, <1>9 DEF NothingLost, Delivered, InShell
  <2> QED
    BY <1>7, <1>8, <2>1 DEF ClientInv
<1>10. CASE InShell(c)
  <2>1. sock[c] = "open" /\ answered[c] + Len(toClient[c]) = served[c] - Len(threadPipe[c])
    BY <1>1, <1>2, <1>10 DEF NothingLost
  <2>2. sock' = sock /\ toClient'[c] = Append(toClient[c], m)
    BY <1>2, <2>1 DEF TypeOK, WriteToSocket
  <2>3. /\ Len(toClient'[c]) = Len(toClient[c]) + 1
        /\ \A i \in 1..Len(toClient[c]) : toClient'[c][i] = toClient[c][i]
        /\ toClient'[c][Len(toClient[c]) + 1] = m
    BY <1>3, <1>4, <2>2, AppendType
  <2>4. answered[c] + Len(toClient'[c]) = served[c] - Len(threadPipe'[c])
    <3>1. PICK p \in Nat, q \in Nat : p = Len(threadPipe[c]) /\ q = Len(toClient[c])
      BY <1>3
    <3>2. answered[c] \in Int /\ served[c] \in Int /\ answered[c] + q = served[c] - p
      BY <1>3, <2>1, <3>1
    <3>3. answered[c] + (q + 1) = served[c] - (p - 1)
      BY <3>2
    <3> QED
      BY <1>4, <2>3, <3>1, <3>3
  <2>5. NothingLost(c)'
    BY <1>2, <2>1, <2>2, <2>4 DEF NothingLost
  <2>6. ASSUME NEW i \in 1..Len(toClient'[c])
        PROVE  Proper(c, toClient[c][i])' /\ toClient'[c][i].n = answered[c] + i
    <3>1. CASE i \in 1..Len(toClient[c])
      <4>1. Proper(c, toClient[c][i]) /\ toClient[c][i].n = answered[c] + i
        BY <1>1, <1>10, <3>1 DEF Delivered
      <4> QED
        BY <1>6, <2>3, <3>1, <4>1 DEF Proper
    <3>2. CASE i = Len(toClient[c]) + 1
      <4>1. toClient'[c][i] = m /\ m.n = answered[c] + i
        BY <1>3, <1>5, <2>1, <2>3, <3>2
      <4> QED
        BY <1>5, <1>6, <4>1 DEF Proper
    <3> QED
      BY <1>3, <2>3, <3>1, <3>2
  <2>7. Delivered(c)'
    BY <1>2, <2>6 DEF Delivered
  <2> QED
    BY <1>7, <1>8, <2>5, <2>7 DEF ClientInv
<1> QED
  BY <1>9, <1>10

LEMMA ThreadReadSocketInv ==
    ASSUME TypeOK, OrderInv, NEW c \in Clients, ThreadReadSocket(c)
    PROVE  ClientInv(c)'
<1>1. /\ CommandsInOrder(c) /\ MainPipeInOrder(c) /\ RepliesInOrder(c)
      /\ NothingLost(c) /\ ThreadLife(c) /\ Delivered(c)
  BY DEF OrderInv, ClientInv
<1>2. /\ threadState[c] = "poll" /\ threadState'[c] = "forward"
      /\ threadPipe' = threadPipe /\ served' = served /\ status' = status
      /\ asked' = asked /\ answered' = answered /\ toClient' = toClient
      /\ sock' = sock /\ mainPipe' = mainPipe
      /\ (NoneSkipped' => NoneSkipped) /\ runs' = runs
      /\ threadIdToPipe' = threadIdToPipe
  BY DEF TypeOK, ThreadReadSocket, clientVars, historyVars, NoneSkipped
<1>3. PICK k \in 1..Len(toServer[c]) :
         /\ batch'[c] = SubSeq(toServer[c], 1, k)
         /\ toServer'[c] = SubSeq(toServer[c], k + 1, Len(toServer[c]))
  BY DEF TypeOK, ThreadReadSocket
<1>4. /\ Len(toServer[c]) \in Nat /\ Len(asked[c]) \in Nat
      /\ Len(batch[c]) = 0 /\ toServer[c] \in Seq(Requests)
  BY <1>1, <1>2, Counters DEF ThreadLife
<1>5. /\ Len(batch'[c]) = k /\ Len(toServer'[c]) = Len(toServer[c]) - k
      /\ \A i \in 1..k : batch'[c][i] = toServer[c][i]
      /\ \A i \in 1..(Len(toServer[c]) - k) : toServer'[c][i] = toServer[c][k + i]
  BY <1>3, <1>4, SplitType
<1>6. Forwarded(c)' = Forwarded(c) /\ Forwarded(c) \in Int
  <2>1. PICK a \in Nat, s \in Nat : a = Len(asked[c]) /\ s = Len(toServer[c])
    BY <1>4
  <2>2. Forwarded(c) = a - s - 0
    BY <1>4, <2>1 DEF Forwarded
  <2>3. Forwarded(c)' = a - (s - k) - k
    BY <1>2, <1>5, <2>1 DEF Forwarded
  <2> QED
    BY <2>1, <2>2, <2>3
<1>7. ASSUME NEW j \in 1..Len(toServer[c])
      PROVE  Genuine(c, toServer[c][j]) /\ toServer[c][j].n = Forwarded(c) + j
  BY <1>1, <1>4, <1>6 DEF CommandsInOrder
<1>8. \A q : Genuine(c, q) => Genuine(c, q)'
  BY <1>2 DEF Genuine
<1>9. CommandsInOrder(c)'
  <2>1. ASSUME NEW i \in 1..Len(toServer'[c])
        PROVE  /\ Genuine(c, toServer[c][i])'
               /\ toServer'[c][i].n = Forwarded(c)' + Len(batch'[c]) + i
    <3>1. k + i \in 1..Len(toServer[c]) /\ toServer'[c][i] = toServer[c][k + i]
      BY <1>4, <1>5
    <3>2. Genuine(c, toServer[c][k + i]) /\ toServer[c][k + i].n = Forwarded(c) + (k + i)
      BY <1>7, <3>1
    <3>3. i \in Int /\ Forwarded(c) + (k + i) = Forwarded(c) + k + i
      BY <1>4, <1>5, <1>6
    <3> QED
      BY <1>5, <1>6, <1>8, <3>1, <3>2, <3>3 DEF Genuine
  <2>2. ASSUME NEW i \in 1..Len(batch'[c])
        PROVE  Genuine(c, batch[c][i])' /\ batch'[c][i].n = Forwarded(c)' + i
    <3>1. i \in 1..Len(toServer[c]) /\ batch'[c][i] = toServer[c][i]
      BY <1>4, <1>5
    <3>2. Genuine(c, toServer[c][i]) /\ toServer[c][i].n = Forwarded(c) + i
      BY <1>7, <3>1
    <3> QED
      BY <1>6, <1>8, <3>1, <3>2 DEF Genuine
  <2>3. served'[c] <= Forwarded(c)'
    BY <1>1, <1>2, <1>6 DEF CommandsInOrder
  <2> QED
    BY <2>1, <2>2, <2>3 DEF CommandsInOrder
<1>10. MainPipeInOrder(c)' /\ RepliesInOrder(c)' /\ Delivered(c)'
  BY <1>1, <1>2, <1>6, MainPipeFrame, RepliesFrame, DeliveredFrame
<1>11. NothingLost(c)' /\ ThreadLife(c)'
  BY <1>1, <1>2 DEF NothingLost, ThreadLife, InShell
<1> QED
  BY <1>9, <1>10, <1>11 DEF ClientInv

LEMMA ThreadLifeInv ==
    ASSUME TypeOK, OrderInv, NEW c \in Clients,
           ThreadStart(c) \/ ThreadReadEnd(c) \/ ThreadClose(c)
    PROVE  ClientInv(c)'
<1>1. /\ CommandsInOrder(c) /\ MainPipeInOrder(c) /\ RepliesInOrder(c)
      /\ NothingLost(c) /\ ThreadLife(c) /\ Delivered(c)
  BY DEF OrderInv, ClientInv
<1>2. /\ served' = served /\ status' = status
      /\ asked' = asked /\ answered' = answered /\ toClient' = toClient
      /\ sock' = sock /\ mainPipe' = mainPipe /\ toServer' = toServer
      /\ (NoneSkipped' => NoneSkipped) /\ runs' = runs
  BY DEF TypeOK, ThreadStart, ThreadReadEnd, ThreadClose, clientVars, socketVars, historyVars,
         NoneSkipped
<1>3. batch'[c] = batch[c]
  BY <1>1 DEF TypeOK, ThreadStart, ThreadReadEnd, ThreadClose, ThreadLife
<1>4. CommandsInOrder(c)' /\ MainPipeInOrder(c)' /\ Delivered(c)'
  BY <1>1, <1>2, <1>3, CommandsFrame, MainPipeFrame, DeliveredFrame
<1>5. CASE ThreadStart(c)
  <2>1. /\ threadPipe'[c] = threadPipe[c] /\ threadPipe[c] = <<>> /\ batch[c] = <<>>
        /\ threadState[c] = "start" /\ threadState'[c] = "poll"
    BY <1>1, <1>5 DEF TypeOK, ThreadStart, ThreadLife
  <2>2. RepliesInOrder(c)'
    BY <1>1, <1>2, <2>1, RepliesFrame
  <2>3. NothingLost(c)' /\ ThreadLife(c)'
    BY <1>1, <1>2, <1>3, <2>1 DEF NothingLost, ThreadLife, InShell
  <2> QED
    BY <1>4, <2>2, <2>3 DEF ClientInv
<1>6. CASE ThreadReadEnd(c)
  <2>1. /\ threadPipe' = threadPipe
        /\ threadState[c] = "poll" /\ threadState'[c] \in {"poll", "farewell"}
        /\ threadIdToPipe' = threadIdToPipe
    BY <1>6 DEF TypeOK, ThreadReadEnd
  <2>2. RepliesInOrder(c)'
    BY <1>1, <1>2, <2>1, RepliesFrame
  <2>3. NothingLost(c)' /\ ThreadLife(c)'
    BY <1>1, <1>2, <1>3, <2>1 DEF NothingLost, ThreadLife, InShell
  <2> QED
    BY <1>4, <2>2, <2>3 DEF ClientInv
<1>7. CASE ThreadClose(c)
  <2>1. /\ threadPipe'[c] = <<>>
        /\ threadState[c] \in {"leaving", "closing"} /\ threadState'[c] = "ended"
    BY <1>7 DEF TypeOK, ThreadClose
  <2>2. RepliesInOrder(c)'
    BY <1>2, <2>1, Counters DEF RepliesInOrder
  <2>3. NothingLost(c)' /\ ThreadLife(c)'
    BY <1>1, <1>2, <1>3, <2>1 DEF NothingLost, ThreadLife, InShell
  <2> QED
    BY <1>4, <2>2, <2>3 DEF ClientInv
<1> QED
  BY <1>5, <1>6, <1>7

-----------------------------------------------------------------------------
\* The main pipe grows at its end and is read at its head.

LEMMA AppendOther ==
    ASSUME TypeOK, NEW d \in Clients, MainPipeInOrder(d), NEW m \in MainMessages,
           m.threadId # d, mainPipe' = Append(mainPipe, m),
           Forwarded(d)' = Forwarded(d), asked'[d] = asked[d],
           served'[d] = served[d], (NoneSkipped' => NoneSkipped)
    PROVE  MainPipeInOrder(d)'
<1>1. /\ Len(mainPipe) \in Nat /\ Len(mainPipe') = Len(mainPipe) + 1
      /\ \A i \in 1..Len(mainPipe) : mainPipe'[i] = mainPipe[i]
      /\ mainPipe'[Len(mainPipe) + 1] = m
  BY AppendType DEF TypeOK
<1>2. ASSUME NEW i \in 1..Len(mainPipe'), mainPipe'[i].threadId = d
      PROVE  i \in 1..Len(mainPipe) /\ mainPipe'[i] = mainPipe[i]
  BY <1>1, <1>2
<1>3. \A q : Genuine(d, q) => Genuine(d, q)'
  BY DEF Genuine
<1>4. ASSUME NEW i \in 1..Len(mainPipe'), mainPipe'[i].threadId = d
      PROVE  /\ Genuine(d, mainPipe[i])'
             /\ mainPipe'[i].n \in served[d] + 1 .. Forwarded(d)
  <2>1. Genuine(d, mainPipe[i]) /\ mainPipe[i].n \in served[d] + 1 .. Forwarded(d)
    BY <1>2, <1>4 DEF MainPipeInOrder
  <2> QED
    BY <1>2, <1>3, <1>4, <2>1 DEF Genuine
<1>5. ASSUME NEW i \in 1..Len(mainPipe'), NEW j \in 1..Len(mainPipe'), i < j,
             mainPipe'[i].threadId = d, mainPipe'[j].threadId = d
      PROVE  mainPipe'[i].n < mainPipe'[j].n
  BY <1>2, <1>5 DEF MainPipeInOrder
<1>6. ASSUME NoneSkipped', NEW k \in served[d] + 1 .. Forwarded(d)
      PROVE  \E i \in 1..Len(mainPipe') :
                mainPipe'[i].threadId = d /\ mainPipe'[i].n = k
  <2>1. PICK i \in 1..Len(mainPipe) : mainPipe[i].threadId = d /\ mainPipe[i].n = k
    BY <1>6 DEF MainPipeInOrder
  <2> QED
    BY <1>1, <2>1
<1> QED
  BY <1>4, <1>5, <1>6 DEF MainPipeInOrder

LEMMA DropHead ==
    ASSUME TypeOK, NEW d \in Clients, MainPipeInOrder(d), mainPipe # <<>>,
           mainPipe' = Tail(mainPipe), Forwarded(d)' = Forwarded(d),
           asked'[d] = asked[d], served'[d] = served[d],
           \/ ~NoneSkipped'
           \/ Head(mainPipe).threadId # d /\ (NoneSkipped' => NoneSkipped)
    PROVE  MainPipeInOrder(d)'
<1>1. /\ Len(mainPipe) \in Nat /\ Len(mainPipe') = Len(mainPipe) - 1
      /\ \A i \in 1..Len(mainPipe') : mainPipe'[i] = mainPipe[i + 1]
      /\ Head(mainPipe) = mainPipe[1]
  BY TailType DEF TypeOK
<1>2. \A q : Genuine(d, q) => Genuine(d, q)'
  BY DEF Genuine
<1>3. ASSUME NEW i \in 1..Len(mainPipe'), mainPipe'[i].threadId = d
      PROVE  /\ Genuine(d, mainPipe[i])'
             /\ mainPipe'[i].n \in served[d] + 1 .. Forwarded(d)
  <2>1. i + 1 \in 1..Len(mainPipe) /\ mainPipe'[i] = mainPipe[i + 1]
    BY <1>1
  <2>2. /\ Genuine(d, mainPipe[i + 1])
        /\ mainPipe[i + 1].n \in served[d] + 1 .. Forwarded(d)
    BY <1>3, <2>1 DEF MainPipeInOrder
  <2> QED
    BY <1>2, <2>1, <2>2 DEF Genuine
<1>4. ASSUME NEW i \in 1..Len(mainPipe'), NEW j \in 1..Len(mainPipe'), i < j,
             mainPipe'[i].threadId = d, mainPipe'[j].threadId = d
      PROVE  mainPipe'[i].n < mainPipe'[j].n
  <2>1. /\ i + 1 \in 1..Len(mainPipe) /\ mainPipe'[i] = mainPipe[i + 1]
        /\ j + 1 \in 1..Len(mainPipe) /\ mainPipe'[j] = mainPipe[j + 1]
        /\ i + 1 < j + 1
    BY <1>1, <1>4
  <2> QED
    BY <1>4, <2>1 DEF MainPipeInOrder
<1>5. ASSUME NoneSkipped', NEW k \in served[d] + 1 .. Forwarded(d)
      PROVE  \E i \in 1..Len(mainPipe') :
                mainPipe'[i].threadId = d /\ mainPipe'[i].n = k
  <2>1. PICK i \in 1..Len(mainPipe) : mainPipe[i].threadId = d /\ mainPipe[i].n = k
    BY <1>5 DEF MainPipeInOrder
  <2>2. i - 1 \in 1..Len(mainPipe') /\ (i - 1) + 1 = i
    BY <1>1, <1>5, <2>1
  <2> QED
    BY <1>1, <2>1, <2>2
<1> QED
  BY <1>3, <1>4, <1>5 DEF MainPipeInOrder

\* With no command skipped, the one at the head is the next of its client.
LEMMA ServeHead ==
    ASSUME TypeOK, NEW c \in Clients, MainPipeInOrder(c), mainPipe # <<>>,
           NoneSkipped, Head(mainPipe).threadId = c,
           mainPipe' = Tail(mainPipe), Forwarded(c)' = Forwarded(c),
           asked'[c] = asked[c], served'[c] = served[c] + 1
    PROVE  /\ Genuine(c, Head(mainPipe))
           /\ Head(mainPipe).n = served[c] + 1
           /\ served[c] + 1 <= Forwarded(c)
           /\ MainPipeInOrder(c)'
<1>1. /\ Len(mainPipe) \in Nat /\ Len(mainPipe') = Len(mainPipe) - 1
      /\ \A i \in 1..Len(mainPipe') : mainPipe'[i] = mainPipe[i + 1]
      /\ Head(mainPipe) = mainPipe[1] /\ 1 \in 1..Len(mainPipe)
      /\ served[c] \in Nat /\ Forwarded(c) \in Int
  BY TailType, Counters DEF TypeOK
<1>2. /\ Genuine(c, mainPipe[1])
      /\ mainPipe[1].n \in served[c] + 1 .. Forwarded(c)
  BY <1>1 DEF MainPipeInOrder
<1>3. served[c] + 1 \in served[c] + 1 .. Forwarded(c)
  BY <1>1, <1>2
<1>4. mainPipe[1].n = served[c] + 1
  <2>1. PICK i \in 1..Len(mainPipe) :
          mainPipe[i].threadId = c /\ mainPipe[i].n = served[c] + 1
    BY <1>3 DEF MainPipeInOrder
  <2>2. CASE i = 1
    BY <2>1, <2>2
  <2>3. CASE 1 < i
    <3>1. mainPipe[1].n < mainPipe[i].n
      BY <1>1, <2>1, <2>3 DEF MainPipeInOrder
    <3> QED
      BY <1>1, <1>2, <2>1, <3>1
  <2> QED
    BY <2>2, <2>3
<1>5. \A q : Genuine(c, q) => Genuine(c, q)'
  BY DEF Genuine
<1>6. ASSUME NEW i \in 1..Len(mainPipe'), mainPipe'[i].threadId = c
      PROVE  /\ Genuine(c, mainPipe[i])'
             /\ mainPipe'[i].n \in served'[c] + 1 .. Forwarded(c)
  <2>1. /\ i + 1 \in 1..Len(mainPipe) /\ mainPipe'[i] = mainPipe[i + 1]
        /\ 1 < i + 1
    BY <1>1
  <2>2. /\ Genuine(c, mainPipe[i + 1])
        /\ mainPipe[i + 1].n \in served[c] + 1 .. Forwarded(c)
    BY <1>6, <2>1 DEF MainPipeInOrder
  <2>3. mainPipe[1].n < mainPipe[i + 1].n
    BY <1>1, <1>6, <2>1 DEF MainPipeInOrder
  <2>4. mainPipe[i + 1].n \in served'[c] + 1 .. Forwarded(c)
    BY <1>1, <1>4, <2>2, <2>3
  <2> QED
    BY <1>5, <2>1, <2>2, <2>4 DEF Genuine
<1>7. ASSUME NEW i \in 1..Len(mainPipe'), NEW j \in 1..Len(mainPipe'), i < j,
             mainPipe'[i].threadId = c, mainPipe'[j].threadId = c
      PROVE  mainPipe'[i].n < mainPipe'[j].n
  <2>1. /\ i + 1 \in 1..Len(mainPipe) /\ mainPipe'[i] = mainPipe[i + 1]
        /\ j + 1 \in 1..Len(mainPipe) /\ mainPipe'[j] = mainPipe[j + 1]
        /\ i + 1 < j + 1
    BY <1>1, <1>7
  <2> QED
    BY <1>7, <2>1 DEF MainPipeInOrder
<1>8. ASSUME NEW k \in served'[c] + 1 .. Forwarded(c)
      PROVE  \E i \in 1..Len(mainPipe') :
                mainPipe'[i].threadId = c /\ mainPipe'[i].n = k
  <2>1. k \in served[c] + 1 .. Forwarded(c) /\ k # served[c] + 1
    BY <1>1
  <2>2. PICK i \in 1..Len(mainPipe) : mainPipe[i].threadId = c /\ mainPipe[i].n = k
    BY <2>1 DEF MainPipeInOrder
  <2>3. i # 1
    BY <1>4, <2>1, <2>2
  <2>4. i - 1 \in 1..Len(mainPipe') /\ (i - 1) + 1 = i
    BY <1>1, <2>3
  <2> QED
    BY <1>1, <2>2, <2>4
<1>9. MainPipeInOrder(c)'
  BY <1>6, <1>7, <1>8 DEF MainPipeInOrder
<1> QED
  BY <1>1, <1>2, <1>3, <1>4, <1>9

\* The part of ThreadForward(c) and ThreadFarewell(c) the other clients see.
LEMMA WriteOther ==
    ASSUME TypeOK, OrderInv, NEW c \in Clients, NEW d \in Clients \ {c},
           ThreadForward(c) \/ ThreadFarewell(c)
    PROVE  ClientInv(d)'
<1>1. ClientInv(d)
  BY DEF OrderInv
<1>2. /\ status' = status /\ toServer' = toServer
      /\ toClient' = toClient /\ sock' = sock
      /\ threadState'[d] = threadState[d] /\ batch'[d] = batch[d]
      /\ threadPipe' = threadPipe /\ asked' = asked
      /\ served' = served /\ answered' = answered
      /\ runs' = runs /\ threadIdToPipe' = threadIdToPipe
      /\ (NoneSkipped' => NoneSkipped)
  BY DEF TypeOK, ThreadForward, ThreadFarewell, clientVars, socketVars,
         historyVars, NoneSkipped
<1>3. CommandsInOrder(d)' /\ Forwarded(d)' = Forwarded(d)
  BY <1>1, <1>2, CommandsFrame DEF ClientInv
<1>4. MainPipeInOrder(d)'
  <2>1. CASE mainPipe' = mainPipe
    BY <1>1, <1>2, <1>3, <2>1, MainPipeFrame DEF ClientInv
  <2>2. ASSUME NEW m \in MainMessages, m.threadId # d, mainPipe' = Append(mainPipe, m)
        PROVE  MainPipeInOrder(d)'
    BY <1>1, <1>2, <1>3, <2>2, AppendOther DEF ClientInv
  <2>3. CASE ThreadForward(c)
    <3>1. PICK m : /\ m = [cmd |-> Head(batch[c]).cmd, n |-> Head(batch[c]).n,
                           username |-> loggedUser[c], threadId |-> c]
                   /\ mainPipe' = Append(mainPipe, m)
      BY <2>3 DEF ThreadForward
    <3>2. Head(batch[c]) \in Requests
      BY <2>3, TailType, Counters DEF ThreadForward
    <3>3. m \in MainMessages /\ m.threadId # d
      BY <3>1, <3>2 DEF TypeOK, MainMessages, Requests
    <3> QED
      BY <2>2, <3>1, <3>3
  <2>4. CASE ThreadFarewell(c)
    <3>1. PICK m : /\ m = [cmd |-> Logout, n |-> 0,
                           username |-> loggedUser[c], threadId |-> NoClient]
                   /\ mainPipe' = mainPipe \/ mainPipe' = Append(mainPipe, m)
      BY <2>4 DEF ThreadFarewell
    <3>2. m \in MainMessages /\ m.threadId # d
      BY <3>1, ConstantsAssumption DEF TypeOK, MainMessages, Commands
    <3> QED
      BY <2>1, <2>2, <3>1, <3>2
  <2> QED
    BY <2>3, <2>4
<1>5. RepliesInOrder(d)' /\ Delivered(d)'
  BY <1>1, <1>2, RepliesFrame, DeliveredFrame DEF ClientInv
<1>6. NothingLost(d)' /\ ThreadLife(d)'
  BY <1>1, <1>2 DEF ClientInv, NothingLost, ThreadLife, InShell
<1> QED
  BY <1>3, <1>4, <1>5, <1>6 DEF ClientInv

LEMMA ThreadFarewellInv ==
    ASSUME TypeOK, OrderInv, NEW c \in Clients, ThreadFarewell(c)
    PROVE  ClientInv(c)'
<1>1. ClientInv(c)
  BY DEF OrderInv
<1>2. /\ status' = status /\ toServer' = toServer
      /\ toClient' = toClient /\ sock' = sock
      /\ threadState[c] = "farewell" /\ threadState'[c] = "closing"
      /\ batch' = batch
      /\ threadPipe' = threadPipe /\ asked' = asked
      /\ served' = served /\ answered' = answered
      /\ runs' = runs /\ threadIdToPipe' = threadIdToPipe
      /\ (NoneSkipped' => NoneSkipped)
  BY DEF TypeOK, ThreadFarewell, clientVars, socketVars, historyVars, NoneSkipped
<1>3. CommandsInOrder(c)' /\ Forwarded(c)' = Forwarded(c)
  BY <1>1, <1>2, CommandsFrame DEF ClientInv
<1>4. MainPipeInOrder(c)'
  <2>1. PICK m : /\ m = [cmd |-> Logout, n |-> 0,
                         username |-> loggedUser[c], threadId |-> NoClient]
                 /\ mainPipe' = mainPipe \/ mainPipe' = Append(mainPipe, m)
    BY DEF ThreadFarewell
  <2>2. m \in MainMessages /\ m.threadId # c
    BY <2>1, ConstantsAssumption DEF TypeOK, MainMessages, Commands
  <2>3. CASE mainPipe' = mainPipe
    BY <1>1, <1>2, <1>3, <2>3, MainPipeFrame DEF ClientInv
  <2>4. CASE mainPipe' = Append(mainPipe, m)
    BY <1>1, <1>2, <1>3, <2>2, <2>4, AppendOther DEF ClientInv
  <2> QED
    BY <2>1, <2>3, <2>4
<1>5. RepliesInOrder(c)' /\ Delivered(c)'
  BY <1>1, <1>2, RepliesFrame, DeliveredFrame DEF ClientInv
<1>6. NothingLost(c)' /\ ThreadLife(c)'
  BY <1>1, <1>2 DEF ClientInv, NothingLost, ThreadLife, InShell
<1> QED
  BY <1>3, <1>4, <1>5, <1>6 DEF ClientInv

LEMMA ThreadForwardInv ==
    ASSUME TypeOK, OrderInv, NEW c \in Clients, ThreadForward(c)
    PROVE  ClientInv(c)'
<1>0. PICK r, m : /\ r = Head(batch[c])
                  /\ m = [cmd |-> r.cmd, n |-> r.n,
                          username |-> loggedUser[c], threadId |-> c]
  OBVIOUS
<1>1. /\ CommandsInOrder(c) /\ MainPipeInOrder(c) /\ RepliesInOrder(c)
      /\ NothingLost(c) /\ ThreadLife(c) /\ Delivered(c)
  BY DEF OrderInv, ClientInv
<1>2. /\ status' = status /\ toServer' = toServer
      /\ toClient' = toClient /\ sock' = sock
      /\ threadState[c] = "forward" /\ threadState'[c] \in {"poll", "forward"}
      /\ batch[c] # <<>> /\ batch'[c] = Tail(batch[c])
      /\ mainPipe' = Append(mainPipe, m)
      /\ threadPipe' = threadPipe /\ asked' = asked
      /\ served' = served /\ answered' = answered
      /\ runs' = runs /\ threadIdToPipe' = threadIdToPipe
      /\ (NoneSkipped' => NoneSkipped)
  BY <1>0 DEF TypeOK, ThreadForward, clientVars, socketVars, historyVars, NoneSkipped
<1>3. /\ r \in Requests /\ r = batch[c][1] /\ Len(batch[c]) \in Nat \ {0}
      /\ Len(batch'[c]) = Len(batch[c]) - 1
      /\ \A i \in 1..Len(batch'[c]) : batch'[c][i] = batch[c][i + 1]
  BY <1>0, <1>2, TailType, Counters
<1>4. m \in MainMessages /\ m.threadId = c /\ m.n = r.n /\ m.cmd = r.cmd
  BY <1>0, <1>3 DEF TypeOK, MainMessages, Requests
<1>5. /\ Len(mainPipe) \in Nat /\ Len(mainPipe') = Len(mainPipe) + 1
      /\ \A i \in 1..Len(mainPipe) : mainPipe'[i] = mainPipe[i]
      /\ mainPipe'[Len(mainPipe) + 1] = m
  BY <1>2, <1>4, AppendType DEF TypeOK
<1>6. Forwarded(c)' = Forwarded(c) + 1 /\ Forwarded(c) \in Int /\ served[c] \in Nat
  <2>1. PICK a \in Nat, s \in Nat, b \in Nat :
          a = Len(asked[c]) /\ s = Len(toServer[c]) /\ b = Len(batch[c])
    BY Counters
  <2>2. Forwarded(c) = a - s - b
    BY <2>1 DEF Forwarded
  <2>3. Forwarded(c)' = a - s - (b - 1)
    BY <1>2, <1>3, <2>1 DEF Forwarded
  <2>4. a - s - (b - 1) = a - s - b + 1 /\ a - s - b \in Int
    BY <2>1
  <2> QED
    BY <2>2, <2>3, <2>4, Counters
<1>7. Genuine(c, r) /\ r.n = Forwarded(c) + 1
  BY <1>1, <1>3 DEF CommandsInOrder
<1>8. \A q : Genuine(c, q) => Genuine(c, q)'
  BY <1>2 DEF Genuine
<1>9. CommandsInOrder(c)'
  <2>1. ASSUME NEW i \in 1..Len(toServer[c])
        PROVE  /\ Genuine(c, toServer[c][i])'
               /\ toServer[c][i].n = Forwarded(c)' + Len(batch'[c]) + i
    <3>1. /\ Genuine(c, toServer[c][i])
          /\ toServer[c][i].n = Forwarded(c) + Len(batch[c]) + i
      BY <1>1 DEF CommandsInOrder
    <3>2. PICK b \in Nat, b2 \in Int : b = Len(batch[c]) /\ b2 = Len(batch'[c])
      BY <1>3
    <3>3. b2 = b - 1 /\ i \in Int
      BY <1>3, <3>2, Counters
    <3>4. Forwarded(c) + b + i = (Forwarded(c) + 1) + b2 + i
      BY <1>6, <3>3
    <3> QED
      BY <1>2, <1>6, <1>8, <3>1, <3>2, <3>4 DEF Genuine
  <2>2. ASSUME NEW i \in 1..Len(batch'[c])
        PROVE  Genuine(c, batch[c][i])' /\ batch'[c][i].n = Forwarded(c)' + i
    <3>1. i + 1 \in 1..Len(batch[c]) /\ batch'[c][i] = batch[c][i + 1]
      BY <1>3
    <3>2. Genuine(c, batch[c][i + 1]) /\ batch[c][i + 1].n = Forwarded(c) + (i + 1)
      BY <1>1, <3>1 DEF CommandsInOrder
    <3>3. Forwarded(c) + (i + 1) = Forwarded(c)' + i
      BY <1>6
    <3> QED
      BY <1>8, <3>1, <3>2, <3>3 DEF Genuine
  <2>3. served'[c] <= Forwarded(c)'
    BY <1>1, <1>2, <1>6 DEF CommandsInOrder
  <2> QED
    BY <1>2, <2>1, <2>2, <2>3 DEF CommandsInOrder
<1>10. MainPipeInOrder(c)'
  <2>1. ASSUME NEW i \in 1..Len(mainPipe'), mainPipe'[i].threadId = c
        PROVE  \/ /\ i \in 1..Len(mainPipe) /\ mainPipe'[i] = mainPipe[i]
                  /\ Genuine(c, mainPipe[i])
                  /\ mainPipe[i].n \in served[c] + 1 .. Forwarded(c)
               \/ i = Len(mainPipe) + 1 /\ mainPipe'[i] = m
    <3>1. i \in 1..Len(mainPipe) \/ i = Len(mainPipe) + 1
      BY <1>5
    <3> QED
      BY <1>1, <1>5, <2>1, <3>1 DEF MainPipeInOrder
  <2>2. ASSUME NEW i \in 1..Len(mainPipe'), mainPipe'[i].threadId = c
        PROVE  /\ Genuine(c, mainPipe[i])'
               /\ mainPipe'[i].n \in served'[c] + 1 .. Forwarded(c)'
    <3>1. CASE i \in 1..Len(mainPipe) /\ mainPipe'[i] = mainPipe[i]
      <4>1. /\ Genuine(c, mainPipe[i])
            /\ mainPipe[i].n \in served[c] + 1 .. Forwarded(c)
        BY <1>1, <2>2, <3>1 DEF MainPipeInOrder
      <4>2. mainPipe[i].n \in served'[c] + 1 .. Forwarded(c)'
        BY <1>2, <1>6, <4>1
      <4> QED
        BY <1>8, <3>1, <4>1, <4>2 DEF Genuine
    <3>2. CASE mainPipe'[i] = m
      <4>1. m.n \in served'[c] + 1 .. Forwarded(c)'
        BY <1>1, <1>2, <1>4, <1>6, <1>7 DEF CommandsInOrder
      <4>2. m.n \in 1..Len(asked'[c]) /\ m.cmd = asked'[c][m.n]
        BY <1>2, <1>4, <1>7 DEF Genuine
      <4> QED
        BY <3>2, <4>1, <4>2 DEF Genuine
    <3> QED
      BY <2>1, <2>2, <3>1, <3>2
  <2>3. ASSUME NEW i \in 1..Len(mainPipe'), NEW j \in 1..Len(mainPipe'), i < j,
               mainPipe'[i].threadId = c, mainPipe'[j].threadId = c
        PROVE  mainPipe'[i].n < mainPipe'[j].n
    <3>1. i \in 1..Len(mainPipe)
      BY <1>5, <2>3
    <3>2. /\ mainPipe'[i] = mainPipe[i]
          /\ mainPipe[i].n \in served[c] + 1 .. Forwarded(c)
      BY <1>1, <1>5, <2>3, <3>1 DEF MainPipeInOrder
    <3>3. CASE j \in 1..Len(mainPipe) /\ mainPipe'[j] = mainPipe[j]
      BY <1>1, <2>3, <3>1, <3>2, <3>3 DEF MainPipeInOrder
    <3>4. CASE mainPipe'[j] = m
      BY <1>4, <1>6, <1>7, <3>2, <3>4
    <3> QED
      BY <2>1, <2>3, <3>3, <3>4
  <2>4. ASSUME NoneSkipped', NEW k \in served'[c] + 1 .. Forwarded(c)'
        PROVE  \E i \in 1..Len(mainPipe') :
                  mainPipe'[i].threadId = c /\ mainPipe'[i].n = k
    <3>1. CASE k = Forwarded(c) + 1
      <4>1. Len(mainPipe) + 1 \in 1..Len(mainPipe')
        BY <1>5
      <4> QED
        BY <1>4, <1>5, <1>7, <3>1, <4>1
    <3>2. CASE k \in served[c] + 1 .. Forwarded(c)
      <4>1. PICK i \in 1..Len(mainPipe) :
              mainPipe[i].threadId = c /\ mainPipe[i].n = k
        BY <1>1, <1>2, <2>4, <3>2 DEF MainPipeInOrder
      <4>2. i \in 1..Len(mainPipe') /\ mainPipe'[i] = mainPipe[i]
        BY <1>5
      <4> QED
        BY <4>1, <4>2
    <3>3. k = Forwarded(c) + 1 \/ k \in served[c] + 1 .. Forwarded(c)
      BY <1>2, <1>6
    <3> QED
      BY <3>1, <3>2, <3>3
  <2> QED
    BY <2>2, <2>3, <2>4 DEF MainPipeInOrder
<1>11. RepliesInOrder(c)' /\ Delivered(c)'
  BY <1>1, <1>2, RepliesFrame, DeliveredFrame
<1>12. NothingLost(c)'
  BY <1>1, <1>2 DEF NothingLost, InShell
<1>13. ThreadLife(c)'
  <2>1. threadState'[c] # "forward" => batch'[c] = <<>>
    <3>1. threadState'[c] # "forward" => Len(batch[c]) = 1
      BY <1>2 DEF TypeOK, ThreadForward
    <3>2. Len(batch[c]) = 1 => Tail(batch[c]) = <<>>
      <4>1. PICK t \in Seq(Requests) :
              t = Tail(batch[c]) /\ Len(t) = Len(batch[c]) - 1
        BY <1>2, TailType, Counters
      <4>2. Len(batch[c]) = 1 => Len(t) = 0
        BY <4>1
      <4>3. Len(t) = 0 => t = <<>>
        BY EmptyType
      <4> QED
        BY <4>1, <4>2, <4>3
    <3> QED
      BY <1>2, <3>1, <3>2
  <2> QED
    BY <1>1, <1>2, <2>1 DEF ThreadLife
<1> QED
  BY <1>9, <1>10, <1>11, <1>12, <1>13 DEF ClientInv

-----------------------------------------------------------------------------
\* The steps of the main thread.  None of them touches the shells, the
\* connections and the state of the threads.

MainStep ==
    /\ mainPipe # <<>> /\ mainPipe' = Tail(mainPipe)
    /\ status' = status /\ toServer' = toServer /\ toClient' = toClient
    /\ sock' = sock /\ threadState' = threadState /\ batch' = batch
    /\ asked' = asked /\ answered' = answered /\ runs' = runs
    /\ threadIdToPipe' = threadIdToPipe

\* A client whose command is not the one served, and any client once the main
\* thread has skipped a command or failed.
LEMMA NotServed ==
    ASSUME TypeOK, OrderInv, MainStep, NEW d \in Clients,
           threadPipe'[d] = threadPipe[d], served'[d] = served[d],
           \/ ~NoneSkipped'
           \/ Head(mainPipe).threadId # d /\ (NoneSkipped' => NoneSkipped)
    PROVE  ClientInv(d)'
<1>1. ClientInv(d)
  BY DEF OrderInv
<1>2. CommandsInOrder(d)' /\ Forwarded(d)' = Forwarded(d)
  BY <1>1, CommandsFrame DEF ClientInv, MainStep
<1>3. MainPipeInOrder(d)'
  BY <1>1, <1>2, DropHead DEF ClientInv, MainStep
<1>4. RepliesInOrder(d)' /\ Delivered(d)'
  BY <1>1, RepliesFrame, DeliveredFrame DEF ClientInv, MainStep
<1>5. NothingLost(d)' /\ ThreadLife(d)'
  BY <1>1 DEF ClientInv, NothingLost, ThreadLife, InShell, MainStep
<1> QED
  BY <1>2, <1>3, <1>4, <1>5 DEF ClientInv

\* The client whose command is served: the answer is the next of its thread.
LEMMA Served ==
    ASSUME TypeOK, OrderInv, MainStep, NoneSkipped, NEW c \in threadIdToPipe,
           Head(mainPipe).threadId = c, NEW a \in Answers,
           a.n = Head(mainPipe).n, Fits(a, Head(mainPipe).cmd),
           threadPipe'[c] = Append(threadPipe[c], a),
           served'[c] = served[c] + 1
    PROVE  ClientInv(c)'
<1>0. c \in Clients
  BY DEF TypeOK
<1>1. /\ CommandsInOrder(c) /\ MainPipeInOrder(c) /\ RepliesInOrder(c)
      /\ NothingLost(c) /\ ThreadLife(c) /\ Delivered(c)
  BY <1>0 DEF OrderInv, ClientInv
<1>2. Forwarded(c)' = Forwarded(c)
  BY DEF Forwarded, MainStep
<1>3. /\ Genuine(c, Head(mainPipe)) /\ Head(mainPipe).n = served[c] + 1
      /\ served[c] + 1 <= Forwarded(c)
      /\ MainPipeInOrder(c)'
  BY <1>0, <1>1, <1>2, ServeHead DEF MainStep
<1>4. Proper(c, a)
  BY <1>3 DEF Proper, Genuine
<1>5. \A x : Proper(c, x) => Proper(c, x)'
  BY DEF Proper, MainStep
<1>6. /\ threadPipe[c] \in Seq(Answers) /\ served[c] \in Nat
      /\ Len(threadPipe[c]) \in Nat
      /\ Len(threadPipe'[c]) = Len(threadPipe[c]) + 1
      /\ \A i \in 1..Len(threadPipe[c]) : threadPipe'[c][i] = threadPipe[c][i]
      /\ threadPipe'[c][Len(threadPipe[c]) + 1] = a
  BY <1>0, AppendType, Counters
<1>7. CommandsInOrder(c)'
  <2>1. \A r : Genuine(c, r) => Genuine(c, r)'
    BY DEF Genuine, MainStep
  <2> QED
    BY <1>1, <1>2, <1>3, <2>1 DEF CommandsInOrder, Genuine, MainStep
<1>8. PICK p \in Nat, q \in Nat :
        p = Len(threadPipe[c]) /\ q = Len(threadPipe'[c]) /\ q = p + 1
  BY <1>6
<1>9. RepliesInOrder(c)'
  <2>1. ASSUME NEW i \in 1..q
        PROVE  Proper(c, threadPipe[c][i])' /\ threadPipe'[c][i].n = served'[c] - q + i
    <3>1. CASE i \in 1..p
      <4>1. Proper(c, threadPipe[c][i]) /\ threadPipe[c][i].n = served[c] - p + i
        BY <1>1, <1>8, <3>1 DEF RepliesInOrder
      <4>2. served[c] \in Int /\ i \in Int /\ q = p + 1
        BY <1>6, <1>8, <3>1
      <4>3. served[c] - p + i = (served[c] + 1) - q + i
        BY <4>2
      <4> QED
        BY <1>5, <1>6, <1>8, <3>1, <4>1, <4>3 DEF Proper
    <3>2. CASE i = q
      <4>1. threadPipe'[c][i] = a
        BY <1>6, <1>8, <3>2
      <4>2. a.n = (served[c] + 1) - q + i
        BY <1>3, <1>6, <1>8, <3>2
      <4> QED
        BY <1>4, <1>5, <4>1, <4>2 DEF Proper
    <3> QED
      BY <1>8, <3>1, <3>2
  <2>2. Len(threadPipe'[c]) <= served'[c]
    <3>1. p <= served[c]
      BY <1>1, <1>8 DEF RepliesInOrder
    <3> QED
      BY <1>6, <1>8, <3>1
  <2> QED
    BY <1>8, <2>1, <2>2 DEF RepliesInOrder
<1>10. NothingLost(c)'
  <2>1. served[c] - p = (served[c] + 1) - q
    BY <1>6, <1>8
  <2> QED
    BY <1>1, <1>8, <2>1 DEF NothingLost, InShell, MainStep
<1>11. ThreadLife(c)'
  BY <1>1 DEF ThreadLife, MainStep
<1>12. Delivered(c)'
  BY <1>0, <1>1, DeliveredFrame DEF MainStep
<1> QED
  BY <1>3, <1>7, <1>9, <1>10, <1>11, <1>12 DEF ClientInv

LEMMA MainInv ==
    ASSUME TypeOK, OrderInv, Main, NEW d \in Clients
    PROVE  ClientInv(d)'
<1>0. PICK m \in MainMessages : m = Head(mainPipe)
  BY TailType DEF TypeOK, Main
<1>1. MainStep
  <2>1. mainPipe # <<>>
    BY DEF Main
  <2>2. mainPipe' = Tail(mainPipe)
    BY DEF Main, MainSkip, MainLogin, MainLogout, MainFarewell, MainList,
           MainExit, TakeFromThread, Take
  <2>3. /\ status' = status /\ toServer' = toServer /\ toClient' = toClient
        /\ sock' = sock /\ threadState' = threadState /\ batch' = batch
        /\ asked' = asked /\ answered' = answered /\ runs' = runs
        /\ threadIdToPipe' = threadIdToPipe
    BY DEF Main, MainSkip, MainLogin, MainLogout, MainFarewell, MainList,
           MainExit, clientVars, socketVars, threadVars, historyVars
  <2> QED
    BY <2>1, <2>2, <2>3 DEF MainStep
\* A response leaves the other clients alone and serves its own.
<1>2. ASSUME NEW type \in {"LOGINACK", "LOGOUTACK", "LIST", "EXITACK"},
             NEW u \in Names, NEW ok \in BOOLEAN,
             TakeFromThread(m), Reply(m, type, u, ok),
             mapMutexLeaked' = mapMutexLeaked, server' = server,
             Fits([type |-> type, user |-> u, ok |-> ok, n |-> m.n], m.cmd)
      PROVE  ClientInv(d)'
  <2>1. PICK a : a = [type |-> type, user |-> u, ok |-> ok, n |-> m.n]
    OBVIOUS
  <2>2. a \in Answers /\ a.n = m.n
    BY <2>1 DEF Answers, MainMessages
  <2>3. NoneSkipped /\ NoneSkipped' /\ m.threadId \in threadIdToPipe
    BY <1>2 DEF TakeFromThread, Take, NoneSkipped
  <2>4. /\ threadPipe' = [threadPipe EXCEPT ![m.threadId] = Append(@, a)]
        /\ served' = [served EXCEPT ![m.threadId] = @ + 1]
    BY <1>2, <2>1 DEF Reply
  <2>5. CASE d = m.threadId
    <3>1. threadPipe'[d] = Append(threadPipe[d], a) /\ served'[d] = served[d] + 1
      BY <2>4, <2>5 DEF TypeOK
    <3>2. Fits(a, m.cmd)
      BY <1>2, <2>1
    <3> QED
      BY <1>0, <1>1, <2>2, <2>3, <2>5, <3>1, <3>2, Served
  <2>6. CASE d # m.threadId
    <3>1. threadPipe'[d] = threadPipe[d] /\ served'[d] = served[d]
      BY <2>4, <2>6 DEF TypeOK
    <3> QED
      BY <1>0, <1>1, <2>3, <2>6, <3>1, NotServed
  <2> QED
    BY <2>5, <2>6
\* A step without a response.
<1>3. ASSUME threadPipe' = threadPipe, served' = served,
             ~NoneSkipped' \/ m.threadId = NoClient,
             NoneSkipped' => NoneSkipped
      PROVE  ClientInv(d)'
  <2>1. ~NoneSkipped' \/ Head(mainPipe).threadId # d
    BY <1>0, <1>3, ConstantsAssumption
  <2> QED
    BY <1>1, <1>3, <2>1, NotServed
<1>4. /\ m.cmd \in Commands /\ m.username \in Names
      /\ m.cmd.user \in Names /\ NoUser \in Names
  BY MessageParts DEF Names
<1>5. CASE MainSkip(m)
  BY <1>3, <1>5 DEF MainSkip, threadVars, historyVars, NoneSkipped
<1>6. CASE MainLogin(m)
  <2>1. CanLogin(m.cmd) \in BOOLEAN
    BY <1>4, CommandParts DEF CanLogin
  <2>2. PICK ok \in BOOLEAN : ok = CanLogin(m.cmd)
    BY <2>1
  <2>3. Fits([type |-> "LOGINACK", user |-> m.cmd.user, ok |-> ok, n |-> m.n], m.cmd)
    BY <1>6, <2>2 DEF MainLogin, Fits, CanLogin
  <2> QED
    BY <1>2, <1>4, <1>6, <2>2, <2>3 DEF MainLogin
<1>7. CASE MainLogout(m)
  <2>1. CASE m.username \in Accounts
    <3>1. Fits([type |-> "LOGOUTACK", user |-> m.username, ok |-> TRUE, n |-> m.n], m.cmd)
      BY <1>7 DEF MainLogout, Fits
    <3> QED
      BY <1>2, <1>4, <1>7, <2>1, <3>1 DEF MainLogout
  <2>2. CASE m.username \notin Accounts
    <3>1. threadPipe' = threadPipe /\ served' = served /\ server' # "up"
      BY <1>7, <2>2 DEF MainLogout, LogoutFault
    <3> QED
      BY <1>3, <3>1 DEF NoneSkipped
  <2> QED
    BY <2>1, <2>2
<1>8. CASE MainFarewell(m)
  <2>1. /\ threadPipe' = threadPipe /\ served' = served
        /\ m.threadId = NoClient /\ mapMutexLeaked' = mapMutexLeaked
        /\ server = "up"
    BY <1>8 DEF MainFarewell, Take, threadVars, historyVars
  <2> QED
    BY <1>3, <2>1 DEF NoneSkipped
<1>9. CASE MainList(m)
  <2>1. Fits([type |-> "LIST", user |-> NoUser, ok |-> TRUE, n |-> m.n], m.cmd)
    BY <1>9 DEF MainList, Fits
  <2> QED
    BY <1>2, <1>4, <1>9, <2>1 DEF MainList
<1>10. CASE MainExit(m)
  <2>1. Fits([type |-> "EXITACK", user |-> NoUser, ok |-> TRUE, n |-> m.n], m.cmd)
    BY <1>10 DEF MainExit, Fits
  <2> QED
    BY <1>2, <1>4, <1>10, <2>1 DEF MainExit
<1> QED
  BY <1>0, <1>5, <1>6, <1>7, <1>8, <1>9, <1>10 DEF Main

-----------------------------------------------------------------------------

LEMMA OrderInit == Init => OrderInv
<1> SUFFICES ASSUME Init, NEW c \in Clients PROVE ClientInv(c)
  BY DEF OrderInv
<1>1. /\ status[c] = "off" /\ sock[c] = "open" /\ threadState[c] = "none"
      /\ toServer[c] = <<>> /\ batch[c] = <<>> /\ threadPipe[c] = <<>>
      /\ asked[c] = <<>> /\ served[c] = 0 /\ mainPipe = <<>>
      /\ c \notin threadIdToPipe
  BY DEF Init
<1>2. Forwarded(c) = 0
  <2>1. Len(asked[c]) = 0 /\ Len(toServer[c]) = 0 /\ Len(batch[c]) = 0
    BY <1>1
  <2> QED
    BY <2>1 DEF Forwarded
<1>3. CommandsInOrder(c) /\ MainPipeInOrder(c) /\ RepliesInOrder(c)
  BY <1>1, <1>2 DEF CommandsInOrder, MainPipeInOrder, RepliesInOrder
<1>4. NothingLost(c) /\ ThreadLife(c) /\ Delivered(c)
  BY <1>1 DEF NothingLost, ThreadLife, Delivered, InShell
<1> QED
  BY <1>3, <1>4 DEF ClientInv

LEMMA OrderStep ==
    ASSUME MaxRuns = 1
    PROVE  TypeOK /\ OrderInv /\ [Next]_vars => OrderInv'
<1> SUFFICES ASSUME TypeOK, OrderInv, [Next]_vars, NEW d \in Clients
             PROVE  ClientInv(d)'
  BY DEF OrderInv
<1>1. CASE UNCHANGED vars
  <2>1. ClientInv(d)
    BY DEF OrderInv
  <2>2. /\ status' = status /\ toServer' = toServer /\ toClient' = toClient
        /\ sock' = sock /\ threadState' = threadState /\ batch' = batch
        /\ threadPipe' = threadPipe /\ mainPipe' = mainPipe
        /\ asked' = asked /\ served' = served /\ answered' = answered
        /\ runs' = runs /\ threadIdToPipe' = threadIdToPipe
        /\ (NoneSkipped' => NoneSkipped)
    BY <1>1 DEF vars, clientVars, socketVars, threadVars, historyVars, NoneSkipped
  <2>3. CommandsInOrder(d)' /\ Forwarded(d)' = Forwarded(d)
    BY <2>1, <2>2, CommandsFrame DEF ClientInv
  <2>4. MainPipeInOrder(d)' /\ RepliesInOrder(d)' /\ Delivered(d)'
    BY <2>1, <2>2, <2>3, MainPipeFrame, RepliesFrame, DeliveredFrame DEF ClientInv
  <2>5. NothingLost(d)' /\ ThreadLife(d)'
    BY <2>1, <2>2 DEF ClientInv, NothingLost, ThreadLife, InShell
  <2> QED
    BY <2>3, <2>4, <2>5 DEF ClientInv
<1>2. ASSUME NEW c \in Clients,
             \/ Connect(c) \/ \E cmd \in Commands : Type(c, cmd)
             \/ Receive(c) \/ Kill(c) \/ ServerLost(c) \/ Thread(c)
      PROVE  ClientInv(d)'
  <2>1. CASE d = c
    BY <1>2, <2>1, ConnectInv, TypeCommandInv, ShellInv, ThreadReadPipeInv,
       ThreadReadSocketInv, ThreadLifeInv, ThreadForwardInv, ThreadFarewellInv
       DEF Thread
  <2>2. CASE d # c
    BY <1>2, <2>2, OtherClient, WriteOther DEF Thread
  <2> QED
    BY <2>1, <2>2
<1>3. CASE Main
  BY <1>3, MainInv
<1> QED
  BY <1>1, <1>2, <1>3 DEF Next

\* The stages of the commands and answers of every client, when each thread id
\* is used once: what makes AnswersInOrder inductive.
THEOREM StagesInOrder == MaxRuns = 1 => (Spec => []OrderInv)
<1> SUFFICES ASSUME MaxRuns = 1 PROVE Spec => []OrderInv
  OBVIOUS
<1>1. TypeOK /\ OrderInv /\ [Next]_vars => OrderInv'
  BY OrderStep
<1> QED
  BY OrderInit, Typing, <1>1, PTL DEF Spec

\* The client pairs answers and commands by position, and is right to, for any
\* number of clients and of commands typed ahead of their answers, as long as
\* no thread id is used twice (with MaxRuns = 2 it is wrong).
THEOREM PairedByPosition == MaxRuns = 1 => (Spec => []AnswersInOrder)
<1>1. OrderInv => AnswersInOrder
  BY DEF OrderInv, ClientInv, AnswersInOrder
<1> QED
  BY StagesInOrder, <1>1, PTL
=============================================================================

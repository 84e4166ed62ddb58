------------------------ MODULE SessionPatientProofs ------------------------
(***************************************************************************)
(* Theorems about the sessions of patient clients: each waits for the      *)
(* answer to a command before it types the next (MaxPending = 1), and      *)
(* leaves by exit only (Kills = FALSE).  Thread ids may be used again.     *)
(***************************************************************************)
EXTENDS SessionProofs

(***************************************************************************)
(* The invariant.  A patient client has at most one command or answer on   *)
(* the whole way from its shell to the main thread and back; where it is   *)
(* decides what the shell, the thread and the table of players know of     *)
(* the session.                                                            *)
(***************************************************************************)

NoneInMain(c) == \A i \in 1..Len(mainPipe) : mainPipe[i].threadId # c

OneInMain(c, m) ==
    /\ m.threadId = c
    /\ \E i \in 1..Len(mainPipe) : mainPipe[i] = m
    /\ \A i, j \in 1..Len(mainPipe) :
          mainPipe[i].threadId = c /\ mainPipe[j].threadId = c => i = j

Queues(c, commands, taken, answers, unread) ==
    /\ toServer[c] = commands /\ batch[c] = taken
    /\ threadPipe[c] = answers /\ toClient[c] = unread

\* The player u is logged in through the thread of c.
Holds(c, u) == u \in isOnline /\ threadPipeWriter[u] = c

\* What the shell says of its session is so.
Own(c) ==
    status[c] = "logged" =>
        /\ threadState[c] # "start"
        /\ Holds(c, loggedUsername[c]) /\ loggedUser[c] = loggedUsername[c]

\* The answer a fits the shell, and becomes of the session what it says;
\* noted: its thread has passed it on.
Due(c, a, noted) ==
    /\ a.type = "LOGINACK" =>
          /\ status[c] = "not_logged"
          /\ a.ok => Holds(c, a.user) /\ (noted => loggedUser[c] = a.user)
    /\ a.type = "LOGOUTACK" => status[c] = "logged"
    /\ a.type = "LIST" => status[c] = "logged" /\ Own(c)

Resting(c) ==
    /\ Queues(c, <<>>, <<>>, <<>>, <<>>) /\ NoneInMain(c)
    /\ threadState[c] \in {"start", "poll"} /\ Own(c)

AtSocket(c) ==
    \E r \in Requests :
        /\ Queues(c, <<r>>, <<>>, <<>>, <<>>) /\ NoneInMain(c)
        /\ threadState[c] \in {"start", "poll"} /\ Own(c)
        /\ Allowed(r.cmd, status[c])

AtThread(c) ==
    \E r \in Requests :
        /\ Queues(c, <<>>, <<r>>, <<>>, <<>>) /\ NoneInMain(c)
        /\ threadState[c] = "forward" /\ Own(c)
        /\ Allowed(r.cmd, status[c])

AtMain(c) ==
    \E m \in MainMessages :
        /\ Queues(c, <<>>, <<>>, <<>>, <<>>) /\ OneInMain(c, m)
        /\ threadState[c] = "poll" /\ Own(c)
        /\ Allowed(m.cmd, status[c]) /\ m.username = loggedUser[c]

AtPipe(c) ==
    \E a \in Answers :
        /\ Queues(c, <<>>, <<>>, <<a>>, <<>>) /\ NoneInMain(c)
        /\ threadState[c] = "poll" /\ Due(c, a, FALSE)

AtShell(c) ==
    \E a \in Answers :
        /\ Queues(c, <<>>, <<>>, <<>>, <<a>>) /\ NoneInMain(c)
        /\ threadState[c] \in IF a.type = "EXITACK" THEN {"leaving", "ended"} ELSE {"poll"}
        /\ Due(c, a, TRUE)

Outside(c) ==
    /\ Queues(c, <<>>, <<>>, <<>>, <<>>) /\ NoneInMain(c)
    /\ threadState[c] \in IF status[c] = "off" THEN {"none"} ELSE {"leaving", "ended"}

Waiting(c) == AtSocket(c) \/ AtThread(c) \/ AtMain(c) \/ AtPipe(c) \/ AtShell(c)

Stage(c) ==
    \/ ~InShell(c) /\ Outside(c)
    \/ InShell(c) /\ Idle(c) /\ Resting(c)
    \/ InShell(c) /\ Len(asked[c]) = answered[c] + 1 /\ Waiting(c)

Patient(c) ==
    /\ c \in threadIdToPipe <=> threadState[c] \in {"poll", "forward", "leaving"}
    /\ InShell(c) => sock[c] = "open"
    /\ Stage(c)

PatientInv ==
    /\ TypeOK /\ ServerServes
    /\ \A i \in 1..Len(mainPipe) : mainPipe[i].threadId \in Clients
    /\ \A c \in Clients : Patient(c)

-----------------------------------------------------------------------------
(***************************************************************************)
(* Sequences of one element, and the main pipe.                            *)
(***************************************************************************)

LEMMA Single ==
    ASSUME NEW S, NEW x \in S
    PROVE  /\ <<x>> \in Seq(S) /\ <<x>> # <<>> /\ Len(<<x>>) = 1
           /\ Head(<<x>>) = x /\ Tail(<<x>>) = <<>> /\ <<x>>[1] = x
           /\ Append(<<>>, x) = <<x>>
<1>1. <<x>> \in Seq(S) /\ <<x>> # <<>> /\ Len(<<x>>) = 1 /\ <<x>>[1] = x
  OBVIOUS
<1>2. Tail(<<x>>) \in Seq(S) /\ Len(Tail(<<x>>)) = 0 /\ Head(<<x>>) = x
  BY <1>1, TailType
<1>3. Tail(<<x>>) = <<>>
  BY <1>2, EmptyType
<1>4. Append(<<>>, x) = <<x>>
  OBVIOUS
<1> QED  BY <1>1, <1>2, <1>3, <1>4

\* A request behind the others.
LEMMA MainGrows ==
    ASSUME TypeOK, NEW m \in MainMessages, mainPipe' = Append(mainPipe, m),
           NEW d \in Clients
    PROVE  /\ m.threadId # d /\ NoneInMain(d) => NoneInMain(d)'
           /\ \A x : m.threadId # d /\ OneInMain(d, x) => OneInMain(d, x)'
           /\ m.threadId = d /\ NoneInMain(d) => OneInMain(d, m)'
<1>1. PICK n \in Nat : n = Len(mainPipe)
  BY Counters
<1>2. /\ Len(mainPipe') = n + 1
      /\ \A i \in 1..n : mainPipe'[i] = mainPipe[i]
      /\ mainPipe'[n + 1] = m
  BY <1>1, AppendType DEF TypeOK
<1>3. /\ \A i \in 1..(n + 1) : i \in 1..n \/ i = n + 1
      /\ \A i \in 1..n : i \in 1..(n + 1)
      /\ n + 1 \in 1..(n + 1)
  OBVIOUS
<1> QED  BY <1>1, <1>2, <1>3 DEF NoneInMain, OneInMain

\* The first request is taken.
LEMMA MainShrinks ==
    ASSUME TypeOK, mainPipe # <<>>, mainPipe' = Tail(mainPipe), NEW d \in Clients
    PROVE  /\ NoneInMain(d) => NoneInMain(d)' /\ Head(mainPipe).threadId # d
           /\ \A x : OneInMain(d, x) /\ Head(mainPipe).threadId # d => OneInMain(d, x)'
           /\ \A x : OneInMain(d, x) /\ Head(mainPipe).threadId = d
                        => Head(mainPipe) = x /\ NoneInMain(d)'
<1>1. PICK n \in Nat : n = Len(mainPipe)
  BY Counters
<1>2. /\ Head(mainPipe) = mainPipe[1] /\ 1 \in 1..n /\ Len(mainPipe') = n - 1
      /\ \A i \in 1..(n - 1) : mainPipe'[i] = mainPipe[i + 1]
  BY <1>1, TailType DEF TypeOK
<1>3. /\ \A i \in 1..(n - 1) : i + 1 \in 1..n /\ i + 1 # 1
      /\ \A i \in 1..n : i = 1 \/ (i - 1 \in 1..(n - 1) /\ (i - 1) + 1 = i)
      /\ \A i, j \in 1..(n - 1) : i + 1 = j + 1 => i = j
  BY <1>1, <1>2
<1>4. NoneInMain(d) => NoneInMain(d)' /\ Head(mainPipe).threadId # d
  BY <1>1, <1>2, <1>3 DEF NoneInMain
<1>5. ASSUME NEW x, OneInMain(d, x), Head(mainPipe).threadId # d
      PROVE  OneInMain(d, x)'
  <2>1. PICK i \in 1..n : mainPipe[i] = x
    BY <1>1, <1>5 DEF OneInMain
  <2>2. i - 1 \in 1..(n - 1) /\ mainPipe'[i - 1] = x
    BY <1>2, <1>3, <1>5, <2>1 DEF OneInMain
  <2>3. \A j, k \in 1..(n - 1) :
           mainPipe'[j].threadId = d /\ mainPipe'[k].threadId = d => j = k
    BY <1>1, <1>2, <1>3, <1>5 DEF OneInMain
  <2> QED  BY <1>2, <1>5, <2>2, <2>3 DEF OneInMain
<1>6. ASSUME NEW x, OneInMain(d, x), Head(mainPipe).threadId = d
      PROVE  Head(mainPipe) = x /\ NoneInMain(d)'
  <2>1. PICK i \in 1..n : mainPipe[i] = x
    BY <1>1, <1>6 DEF OneInMain
  <2>2. \A j \in 1..n : mainPipe[j].threadId = d => j = 1
    BY <1>1, <1>2, <1>6 DEF OneInMain
  <2>3. \A j \in 1..(n - 1) : mainPipe'[j].threadId # d
    BY <1>2, <1>3, <2>2
  <2> QED  BY <1>2, <1>6, <2>1, <2>2, <2>3 DEF NoneInMain, OneInMain
<1> QED  BY <1>4, <1>5, <1>6

\* A client that a step does not concern.
LEMMA Untouched ==
    ASSUME NEW d \in Clients, Patient(d),
           UNCHANGED <<status[d], loggedUsername[d], toServer[d], toClient[d], sock[d],
                       threadState[d], batch[d], loggedUser[d], threadPipe[d],
                       asked[d], answered[d]>>,
           (d \in threadIdToPipe)' <=> d \in threadIdToPipe,
           NoneInMain(d) => NoneInMain(d)',
           \A m : OneInMain(d, m) => OneInMain(d, m)',
           \A u : Holds(d, u) => Holds(d, u)'
    PROVE  Patient(d)'
<1>1. (InShell(d)' <=> InShell(d)) /\ (Idle(d)' <=> Idle(d))
  BY DEF InShell, Idle
<1>2. (Own(d) => Own(d)') /\ \A a, noted : Due(d, a, noted) => Due(d, a, noted)'
  BY DEF Own, Due
<1>3. /\ Resting(d) => Resting(d)'
      /\ Outside(d) => Outside(d)'
  BY <1>2 DEF Resting, Outside, Queues
<1>4. Waiting(d) => Waiting(d)'
  <2>1. AtSocket(d) => AtSocket(d)'
    BY <1>2 DEF AtSocket, Queues
  <2>2. AtThread(d) => AtThread(d)'
    BY <1>2 DEF AtThread, Queues
  <2>3. AtMain(d) => AtMain(d)'
    BY <1>2 DEF AtMain, Queues
  <2>4. AtPipe(d) => AtPipe(d)'
    BY <1>2 DEF AtPipe, Queues
  <2>5. AtShell(d) => AtShell(d)'
    BY <1>2 DEF AtShell, Queues
  <2> QED  BY <2>1, <2>2, <2>3, <2>4, <2>5 DEF Waiting
<1>5. Stage(d)'
  BY <1>1, <1>3, <1>4 DEF Patient, Stage
<1> QED  BY <1>1, <1>5 DEF Patient

-----------------------------------------------------------------------------
(***************************************************************************)
(* The steps of a client, and of its thread.                               *)
(***************************************************************************)

\* Nothing but the client c changes.
Only(c) ==
    \A d \in Clients \ {c} :
        /\ UNCHANGED <<status[d], loggedUsername[d], toServer[d], toClient[d], sock[d],
                       threadState[d], batch[d], loggedUser[d], threadPipe[d],
                       asked[d], answered[d]>>
        /\ (d \in threadIdToPipe)' <=> d \in threadIdToPipe

\* Only c changes, and the main thread and the table of players do not.
LEMMA ClientAlone ==
    ASSUME PatientInv, NEW c \in Clients, Only(c), Patient(c)',
           UNCHANGED <<mainPipe, mapMutexLeaked, playerVars, server>>
    PROVE  /\ ServerServes'
           /\ \A i \in 1..Len(mainPipe') : mainPipe'[i].threadId \in Clients
           /\ \A d \in Clients : Patient(d)'
<1>1. ASSUME NEW d \in Clients \ {c} PROVE Patient(d)'
  BY <1>1, Untouched DEF PatientInv, Only, NoneInMain, OneInMain, Holds, playerVars
<1> QED  BY <1>1 DEF PatientInv, ServerServes

LEMMA ConnectPatient ==
    ASSUME PatientInv, NEW c \in Clients, Connect(c)
    PROVE  Patient(c)' /\ Only(c) /\ UNCHANGED <<mainPipe, mapMutexLeaked, playerVars, server>>
<1>1. TypeOK /\ Patient(c)
  BY DEF PatientInv
<1>2. ~InShell(c)
  BY DEF Connect, InShell
<1>3. Outside(c)
  BY <1>1, <1>2 DEF Patient, Stage
<1>4. Resting(c)'
  BY <1>1, <1>3 DEF Connect, TypeOK, Outside, Resting, Queues, NoneInMain, Own
<1>5. InShell(c)' /\ Idle(c)' /\ sock'[c] = "open" /\ threadState'[c] = "start"
  <2>1. asked'[c] = <<>> /\ answered'[c] = 0
    BY <1>1 DEF Connect, TypeOK
  <2> QED  BY <1>1, <2>1 DEF Connect, TypeOK, InShell, Idle
<1>6. c \notin threadIdToPipe'
  <2>1. threadState[c] \notin {"poll", "forward", "leaving"}
    BY <1>1, <1>3 DEF Connect, Outside
  <2> QED  BY <1>1, <2>1 DEF Connect, Patient
<1>7. Patient(c)'
  BY <1>4, <1>5, <1>6 DEF Patient, Stage
<1> QED  BY <1>1, <1>7 DEF Connect, Only, TypeOK

LEMMA TypePatient ==
    ASSUME PatientInv, MaxPending = 1, NEW c \in Clients, NEW cmd \in Commands, Type(c, cmd)
    PROVE  Patient(c)' /\ Only(c) /\ UNCHANGED <<mainPipe, mapMutexLeaked, playerVars, server>>
<1>1. TypeOK /\ Patient(c)
  BY DEF PatientInv
<1>2. InShell(c)
  BY CommandParts DEF Type, Allowed, InShell
<1>3. Idle(c) /\ Resting(c)
  <2>1. Len(asked[c]) # answered[c] + 1
    BY <1>1, Counters DEF Type
  <2> QED  BY <1>1, <1>2, <2>1 DEF Patient, Stage
<1>4. PICK r \in Requests : r = [cmd |-> cmd, n |-> Len(asked[c]) + 1]
  <2>1. Len(asked[c]) + 1 \in Nat
    BY <1>1, Counters
  <2> QED  BY <2>1 DEF Requests
<1>5. toServer'[c] = <<r>>
  BY <1>1, <1>3, <1>4, Single DEF Type, TypeOK, Resting, Queues
<1>6. AtSocket(c)'
  <2>1. Queues(c, <<r>>, <<>>, <<>>, <<>>)' /\ NoneInMain(c)' /\ Own(c)'
    BY <1>3, <1>5 DEF Type, Resting, Queues, NoneInMain, Own, Holds, clientVars,
                      threadVars, playerVars
  <2>2. threadState'[c] \in {"start", "poll"} /\ Allowed(r.cmd, status'[c])
    BY <1>3, <1>4 DEF Type, Resting, clientVars, threadVars
  <2> QED  BY <2>1, <2>2 DEF AtSocket
<1>7. Len(asked'[c]) = answered'[c] + 1
  <2>1. asked'[c] = Append(asked[c], cmd) /\ answered'[c] = answered[c]
    BY <1>1 DEF Type, TypeOK
  <2>2. Len(asked'[c]) = Len(asked[c]) + 1
    BY <1>1, <2>1, AppendType, Counters
  <2> QED  BY <1>3, <2>1, <2>2 DEF Idle
<1>8. Patient(c)'
  BY <1>1, <1>2, <1>6, <1>7
     DEF Type, Patient, Stage, Waiting, InShell, clientVars, threadVars
<1> QED  BY <1>1, <1>8 DEF Type, Only, TypeOK, clientVars, threadVars

\* The shell reads the one answer it waits for.
LEMMA ReceivePatient ==
    ASSUME PatientInv, NEW c \in Clients, Receive(c)
    PROVE  Patient(c)' /\ Only(c) /\ UNCHANGED <<mainPipe, mapMutexLeaked, playerVars, server>>
<1>1. TypeOK /\ Patient(c) /\ InShell(c) /\ toClient[c] # <<>>
  BY DEF PatientInv, Receive, InShell
<1>2. AtShell(c) /\ Len(asked[c]) = answered[c] + 1
  BY <1>1 DEF Patient, Stage, Waiting, Resting, AtSocket, AtThread, AtMain, AtPipe, Queues
<1>3. PICK a \in Answers :
        /\ Queues(c, <<>>, <<>>, <<>>, <<a>>) /\ NoneInMain(c)
        /\ threadState[c] \in IF a.type = "EXITACK" THEN {"leaving", "ended"} ELSE {"poll"}
        /\ Due(c, a, TRUE)
  BY <1>2 DEF AtShell
<1>4. Head(toClient[c]) = a /\ Tail(toClient[c]) = <<>>
  BY <1>3, Single DEF Queues
<1>5. /\ Queues(c, <<>>, <<>>, <<>>, <<>>)' /\ NoneInMain(c)' /\ threadState' = threadState
      /\ threadIdToPipe' = threadIdToPipe
  BY <1>1, <1>3, <1>4 DEF Receive, Queues, NoneInMain, TypeOK, threadVars
<1>6. Idle(c)'
  BY <1>1, <1>2 DEF Receive, Idle, TypeOK
<1>7. CASE a.type = "EXITACK"
  <2>1. status'[c] = "gone"
    BY <1>1, <1>4, <1>7 DEF Receive, TypeOK
  <2>2. Outside(c)'
    BY <1>3, <1>5, <1>7, <2>1 DEF Outside
  <2>3. Patient(c)'
    BY <1>1, <1>5, <2>1, <2>2 DEF Patient, Stage, InShell
  <2> QED  BY <1>1, <2>3 DEF Receive, Only, TypeOK, clientVars, threadVars
<1>8. CASE a.type # "EXITACK"
  <2>1. /\ sock' = sock /\ threadState[c] = "poll" /\ loggedUser' = loggedUser
        /\ isOnline' = isOnline /\ threadPipeWriter' = threadPipeWriter
    BY <1>3, <1>4, <1>8 DEF Receive, threadVars, playerVars
  <2>2. InShell(c)' /\ Own(c)'
    <3>1. CASE a.type = "LOGINACK" /\ a.ok
      <4>1. status'[c] = "logged" /\ loggedUsername'[c] = a.user
        BY <1>1, <1>4, <3>1 DEF Receive, TypeOK
      <4> QED  BY <1>3, <1>5, <2>1, <3>1, <4>1 DEF Own, Due, Holds, InShell
    <3>2. CASE a.type = "LOGINACK" /\ ~a.ok
      <4>1. status'[c] = "not_logged"
        BY <1>1, <1>3, <1>4, <3>2 DEF Receive, TypeOK, Due, clientVars
      <4> QED  BY <4>1 DEF Own, InShell
    <3>3. CASE a.type = "LOGOUTACK"
      <4>1. status'[c] = "not_logged"
        BY <1>1, <1>4, <3>3 DEF Receive, TypeOK
      <4> QED  BY <4>1 DEF Own, InShell
    <3>4. CASE a.type = "LIST"
      <4>1. status' = status /\ loggedUsername' = loggedUsername
        BY <1>4, <3>4 DEF Receive, clientVars
      <4> QED  BY <1>1, <1>3, <1>5, <2>1, <3>4, <4>1 DEF Own, Due, Holds, InShell
    <3> QED  BY <1>8, <3>1, <3>2, <3>3, <3>4 DEF Answers
  <2>3. Resting(c)'
    BY <1>5, <2>1, <2>2 DEF Resting
  <2>4. Patient(c)'
    BY <1>1, <1>5, <1>6, <2>1, <2>2, <2>3 DEF Patient, Stage
  <2> QED  BY <1>1, <2>4 DEF Receive, Only, TypeOK, clientVars, threadVars, socketVars
<1> QED  BY <1>7, <1>8

LEMMA ThreadStartPatient ==
    ASSUME PatientInv, NEW c \in Clients, ThreadStart(c)
    PROVE  Patient(c)' /\ Only(c) /\ UNCHANGED <<mainPipe, mapMutexLeaked, playerVars, server>>
<1>1. TypeOK /\ Patient(c) /\ threadState[c] = "start"
  BY DEF PatientInv, ThreadStart
<1>2. /\ threadState'[c] = "poll" /\ batch'[c] = <<>> /\ threadPipe'[c] = <<>>
      /\ toServer' = toServer /\ toClient' = toClient /\ status' = status
      /\ sock' = sock /\ loggedUsername' = loggedUsername /\ mainPipe' = mainPipe
      /\ asked' = asked /\ answered' = answered /\ c \in threadIdToPipe'
      /\ isOnline' = isOnline /\ threadPipeWriter' = threadPipeWriter
  BY <1>1 DEF ThreadStart, TypeOK, clientVars, socketVars, historyVars, playerVars
<1>3. /\ InShell(c)
      /\ \/ Idle(c) /\ Resting(c)
         \/ Len(asked[c]) = answered[c] + 1 /\ AtSocket(c)
  BY <1>1 DEF Patient, Stage, Waiting, Outside, AtThread, AtMain, AtPipe, AtShell
<1>4. Own(c)'
  BY <1>1, <1>2, <1>3 DEF Resting, AtSocket, Own
<1>5. Resting(c) => Resting(c)'
  BY <1>2, <1>4 DEF Resting, Queues, NoneInMain
<1>6. AtSocket(c) => AtSocket(c)'
  BY <1>2, <1>4 DEF AtSocket, Queues, NoneInMain
<1>7. Patient(c)'
  BY <1>1, <1>2, <1>3, <1>5, <1>6 DEF Patient, Stage, Waiting, InShell, Idle
<1> QED
  BY <1>1, <1>7 DEF ThreadStart, Only, TypeOK, clientVars, socketVars, historyVars

LEMMA ThreadReadPipePatient ==
    ASSUME PatientInv, NEW c \in Clients, ThreadReadPipe(c)
    PROVE  Patient(c)' /\ Only(c) /\ UNCHANGED <<mainPipe, mapMutexLeaked, playerVars, server>>
<1>1. TypeOK /\ Patient(c) /\ threadPipe[c] # <<>>
  BY DEF PatientInv, ThreadReadPipe
<1>2. InShell(c) /\ Len(asked[c]) = answered[c] + 1 /\ AtPipe(c) /\ sock[c] = "open"
  BY <1>1 DEF Patient, Stage, Waiting, Outside, Resting, AtSocket, AtThread, AtMain,
              AtShell, Queues
<1>3. PICK a \in Answers :
        /\ Queues(c, <<>>, <<>>, <<a>>, <<>>) /\ NoneInMain(c)
        /\ threadState[c] = "poll" /\ Due(c, a, FALSE)
  BY <1>2 DEF AtPipe
<1>4. Head(threadPipe[c]) = a /\ Tail(threadPipe[c]) = <<>>
  BY <1>3, Single DEF Queues
<1>5. /\ threadPipe'[c] = <<>> /\ toClient'[c] = <<a>>
      /\ loggedUser'[c] = NoteAnswer(c, a)
      /\ threadState'[c] = IF a.type = "EXITACK" THEN "leaving" ELSE "poll"
  BY <1>1, <1>2, <1>3, <1>4, Single
     DEF ThreadReadPipe, WriteToSocket, TypeOK, Queues
<1>6. /\ toServer' = toServer /\ batch' = batch /\ status' = status /\ sock' = sock
      /\ loggedUsername' = loggedUsername /\ mainPipe' = mainPipe
      /\ asked' = asked /\ answered' = answered /\ threadIdToPipe' = threadIdToPipe
      /\ isOnline' = isOnline /\ threadPipeWriter' = threadPipeWriter /\ server' = server
  BY <1>1, <1>2 DEF ThreadReadPipe, WriteToSocket, clientVars, historyVars, playerVars
<1>7. Due(c, a, TRUE)'
  <2>1. a.type \in {"LOGINACK", "LOGOUTACK", "LIST", "EXITACK"}
    BY DEF Answers
  <2>2. a.type = "LIST" => loggedUser'[c] = loggedUser[c] /\ threadState'[c] = "poll"
    BY <1>5 DEF NoteAnswer
  <2>3. a.type = "LOGINACK" => loggedUser'[c] = a.user
    BY <1>5 DEF NoteAnswer
  <2> QED  BY <1>3, <1>6, <2>1, <2>2, <2>3 DEF Due, Own, Holds
<1>8. AtShell(c)'
  <2>1. Queues(c, <<>>, <<>>, <<>>, <<a>>)' /\ NoneInMain(c)'
    BY <1>3, <1>5, <1>6 DEF Queues, NoneInMain
  <2> QED  BY <1>5, <1>7, <2>1 DEF AtShell
<1>9. Patient(c)'
  BY <1>1, <1>2, <1>3, <1>5, <1>6, <1>8 DEF Patient, Stage, Waiting, InShell
<1>10. Only(c)
  BY <1>1, <1>2, <1>6 DEF ThreadReadPipe, WriteToSocket, Only, TypeOK
<1> QED
  BY <1>6, <1>9, <1>10 DEF ThreadReadPipe, playerVars

LEMMA ThreadReadSocketPatient ==
    ASSUME PatientInv, NEW c \in Clients, ThreadReadSocket(c)
    PROVE  Patient(c)' /\ Only(c) /\ UNCHANGED <<mainPipe, mapMutexLeaked, playerVars, server>>
<1>1. TypeOK /\ Patient(c) /\ threadState[c] = "poll"
  BY DEF PatientInv, ThreadReadSocket
<1>2. PICK k \in 1..Len(toServer[c]) :
        /\ batch' = [batch EXCEPT ![c] = SubSeq(toServer[c], 1, k)]
        /\ toServer' = [toServer EXCEPT ![c] = SubSeq(@, k + 1, Len(@))]
  BY DEF ThreadReadSocket
<1>3. toServer[c] # <<>>
  <2>1. toServer[c] = <<>> => Len(toServer[c]) = 0
    OBVIOUS
  <2> QED  BY <1>2, <2>1
<1>4. InShell(c) /\ Len(asked[c]) = answered[c] + 1 /\ AtSocket(c)
  BY <1>1, <1>3 DEF Patient, Stage, Waiting, Outside, Resting, AtThread, AtMain, AtPipe,
                    AtShell, Queues
<1>5. PICK r \in Requests :
        /\ Queues(c, <<r>>, <<>>, <<>>, <<>>) /\ NoneInMain(c) /\ Own(c)
        /\ Allowed(r.cmd, status[c])
  BY <1>4 DEF AtSocket
<1>6. batch'[c] = <<r>> /\ toServer'[c] = <<>>
  <2>1. toServer[c] = <<r>> /\ Len(<<r>>) = 1 /\ k = 1
    BY <1>2, <1>5, Single DEF Queues
  <2>2. PICK s \in Seq(Requests) : s = <<r>> /\ Len(s) = 1 /\ s[1] = r
    BY Single
  <2>3. SubSeq(s, 1, 1) = <<r>> /\ SubSeq(s, 2, 1) = <<>>
    <3>1. /\ SubSeq(s, 1, 1) \in Seq(Requests) /\ Len(SubSeq(s, 1, 1)) = 1
          /\ SubSeq(s, 1, 1)[1] = r
          /\ SubSeq(s, 2, 1) \in Seq(Requests) /\ Len(SubSeq(s, 2, 1)) = 0
      BY <2>2
    <3>2. SubSeq(s, 2, 1) = <<>>
      BY <3>1, EmptyType
    <3>3. \A x \in Seq(Requests) : Len(x) = 1 /\ x[1] = r => x = <<r>>
      OBVIOUS
    <3> QED  BY <3>1, <3>2, <3>3
  <2> QED  BY <1>1, <1>2, <2>1, <2>2, <2>3 DEF TypeOK
<1>7. /\ threadState'[c] = "forward" /\ threadPipe' = threadPipe /\ toClient' = toClient
      /\ status' = status /\ sock' = sock /\ loggedUsername' = loggedUsername
      /\ loggedUser' = loggedUser /\ mainPipe' = mainPipe /\ asked' = asked
      /\ answered' = answered /\ threadIdToPipe' = threadIdToPipe
      /\ isOnline' = isOnline /\ threadPipeWriter' = threadPipeWriter
  BY <1>1 DEF ThreadReadSocket, TypeOK, clientVars, historyVars, playerVars
<1>8. AtThread(c)'
  <2>1. Queues(c, <<>>, <<r>>, <<>>, <<>>)' /\ NoneInMain(c)' /\ Own(c)'
    BY <1>5, <1>6, <1>7 DEF Queues, NoneInMain, Own, Holds
  <2> QED  BY <1>5, <1>7, <2>1 DEF AtThread
<1>9. Patient(c)'
  BY <1>1, <1>4, <1>7, <1>8 DEF Patient, Stage, Waiting, InShell
<1>10. Only(c)
  BY <1>1, <1>2, <1>7 DEF ThreadReadSocket, Only, TypeOK
<1> QED
  BY <1>9, <1>10 DEF ThreadReadSocket, playerVars

LEMMA ThreadClosePatient ==
    ASSUME PatientInv, NEW c \in Clients, ThreadClose(c)
    PROVE  Patient(c)' /\ Only(c) /\ UNCHANGED <<mainPipe, mapMutexLeaked, playerVars, server>>
<1>1. TypeOK /\ Patient(c) /\ threadState[c] \in {"leaving", "closing"}
  BY DEF PatientInv, ThreadClose
<1>2. /\ threadState'[c] = "ended" /\ threadPipe'[c] = <<>> /\ c \notin threadIdToPipe'
      /\ toServer' = toServer /\ toClient' = toClient /\ batch' = batch
      /\ status' = status /\ sock' = sock /\ loggedUsername' = loggedUsername
      /\ loggedUser' = loggedUser /\ mainPipe' = mainPipe /\ asked' = asked
      /\ answered' = answered
  BY <1>1 DEF ThreadClose, TypeOK, clientVars, socketVars, historyVars
<1>3. \/ ~InShell(c) /\ Outside(c)
      \/ InShell(c) /\ Len(asked[c]) = answered[c] + 1 /\ AtShell(c)
  BY <1>1 DEF Patient, Stage, Waiting, Resting, AtSocket, AtThread, AtMain, AtPipe
<1>4. Outside(c) => Outside(c)'
  BY <1>1, <1>2 DEF Outside, Queues, NoneInMain
<1>5. AtShell(c) => AtShell(c)'
  <2>1. SUFFICES ASSUME AtShell(c) PROVE AtShell(c)'
    OBVIOUS
  <2>2. PICK a \in Answers :
          /\ Queues(c, <<>>, <<>>, <<>>, <<a>>) /\ NoneInMain(c)
          /\ a.type = "EXITACK"
    BY <1>1, <2>1 DEF AtShell
  <2>3. Queues(c, <<>>, <<>>, <<>>, <<a>>)' /\ NoneInMain(c)'
    BY <1>2, <2>2 DEF Queues, NoneInMain
  <2>4. Due(c, a, TRUE)'
    BY <2>2 DEF Due
  <2> QED  BY <1>2, <2>2, <2>3, <2>4 DEF AtShell
<1>6. Patient(c)'
  BY <1>1, <1>2, <1>3, <1>4, <1>5 DEF Patient, Stage, Waiting, InShell
<1>7. Only(c)
  BY <1>1, <1>2 DEF ThreadClose, Only, TypeOK
<1> QED
  BY <1>6, <1>7 DEF ThreadClose, playerVars

\* The thread of a patient client is never cut off from its shell.
LEMMA ThreadNeverCut ==
    ASSUME PatientInv, NEW c \in Clients
    PROVE  ~ThreadReadEnd(c) /\ ~ThreadFarewell(c)
<1>1. TypeOK /\ Patient(c)
  BY DEF PatientInv
<1>2. InShell(c) \/ threadState[c] # "poll"
  BY <1>1 DEF Patient, Stage, Outside
<1>3. threadState[c] # "farewell"
  BY <1>1 DEF Patient, Stage, Outside, Resting, Waiting, AtSocket, AtThread, AtMain, AtPipe,
              AtShell
<1> QED  BY <1>1, <1>2, <1>3 DEF ThreadReadEnd, ThreadFarewell, Patient

LEMMA ThreadForwardPatient ==
    ASSUME PatientInv, NEW c \in Clients, ThreadForward(c)
    PROVE  /\ ServerServes'
           /\ \A i \in 1..Len(mainPipe') : mainPipe'[i].threadId \in Clients
           /\ \A d \in Clients : Patient(d)'
<1>1. TypeOK /\ Patient(c) /\ threadState[c] = "forward"
  BY DEF PatientInv, ThreadForward
<1>2. InShell(c) /\ Len(asked[c]) = answered[c] + 1 /\ AtThread(c)
  BY <1>1 DEF Patient, Stage, Waiting, Outside, Resting, AtSocket, AtMain, AtPipe, AtShell
<1>3. PICK r \in Requests :
        /\ Queues(c, <<>>, <<r>>, <<>>, <<>>) /\ NoneInMain(c) /\ Own(c)
        /\ Allowed(r.cmd, status[c])
  BY <1>2 DEF AtThread
<1>4. Head(batch[c]) = r /\ Tail(batch[c]) = <<>> /\ Len(batch[c]) = 1
  BY <1>3, Single DEF Queues
<1>5. PICK m \in MainMessages :
        m = [cmd |-> r.cmd, n |-> r.n, username |-> loggedUser[c], threadId |-> c]
  BY <1>1 DEF TypeOK, Requests, MainMessages
<1>6. mainPipe' = Append(mainPipe, m) /\ m.threadId = c
  BY <1>4, <1>5 DEF ThreadForward
<1>7. /\ batch'[c] = <<>> /\ threadState'[c] = "poll"
      /\ toServer' = toServer /\ toClient' = toClient /\ threadPipe' = threadPipe
      /\ status' = status /\ sock' = sock /\ loggedUsername' = loggedUsername
      /\ loggedUser' = loggedUser /\ asked' = asked /\ answered' = answered
      /\ threadIdToPipe' = threadIdToPipe
      /\ isOnline' = isOnline /\ threadPipeWriter' = threadPipeWriter
  BY <1>1, <1>4 DEF ThreadForward, TypeOK, clientVars, socketVars, historyVars, playerVars
<1>8. Patient(c)'
  <2>1. OneInMain(c, m)'
    BY <1>1, <1>3, <1>6, MainGrows
  <2>2. Queues(c, <<>>, <<>>, <<>>, <<>>)' /\ Own(c)'
    BY <1>3, <1>7 DEF Queues, Own, Holds
  <2>3. Allowed(m.cmd, status'[c]) /\ m.username = loggedUser'[c]
    BY <1>3, <1>5, <1>7
  <2>4. AtMain(c)'
    BY <1>7, <2>1, <2>2, <2>3 DEF AtMain
  <2> QED  BY <1>1, <1>2, <1>7, <2>4 DEF Patient, Stage, Waiting, InShell
<1>9. ASSUME NEW d \in Clients \ {c} PROVE Patient(d)'
  <2>1. /\ UNCHANGED <<status[d], loggedUsername[d], toServer[d], toClient[d], sock[d],
                       threadState[d], batch[d], loggedUser[d], threadPipe[d],
                       asked[d], answered[d]>>
        /\ (d \in threadIdToPipe)' <=> d \in threadIdToPipe
    BY <1>1, <1>7, <1>9 DEF ThreadForward, TypeOK
  <2>2. /\ NoneInMain(d) => NoneInMain(d)'
        /\ \A x : OneInMain(d, x) => OneInMain(d, x)'
    BY <1>1, <1>6, <1>9, MainGrows
  <2>3. \A u : Holds(d, u) => Holds(d, u)'
    BY <1>7 DEF Holds
  <2> QED  BY <1>9, <2>1, <2>2, <2>3, Untouched DEF PatientInv
<1>10. \A i \in 1..Len(mainPipe') : mainPipe'[i].threadId \in Clients
  <2>1. PICK n \in Nat : n = Len(mainPipe)
    BY <1>1, Counters
  <2>2. /\ Len(mainPipe') = n + 1 /\ mainPipe'[n + 1] = m
        /\ \A i \in 1..n : mainPipe'[i] = mainPipe[i]
    BY <1>1, <1>6, <2>1, AppendType DEF TypeOK
  <2>3. \A i \in 1..(n + 1) : i \in 1..n \/ i = n + 1
    OBVIOUS
  <2> QED  BY <1>6, <2>1, <2>2, <2>3 DEF PatientInv
<1>11. ServerServes'
  BY DEF ThreadForward, PatientInv, ServerServes
<1> QED  BY <1>8, <1>9, <1>10, <1>11

-----------------------------------------------------------------------------
(***************************************************************************)
(* The steps of the main thread.                                           *)
(***************************************************************************)

\* The main thread has a request of c: all that c waits for is the answer.
LEMMA HeadIsAtMain ==
    ASSUME PatientInv, mainPipe # <<>>, NEW m, m = Head(mainPipe)
    PROVE  \E c \in Clients :
              /\ m.threadId = c /\ c \in threadIdToPipe
              /\ InShell(c) /\ sock[c] = "open" /\ Len(asked[c]) = answered[c] + 1
              /\ Queues(c, <<>>, <<>>, <<>>, <<>>) /\ OneInMain(c, m)
              /\ threadState[c] = "poll" /\ Own(c)
              /\ Allowed(m.cmd, status[c]) /\ m.username = loggedUser[c]
<1>1. TypeOK
  BY DEF PatientInv
<1>2. m = mainPipe[1] /\ 1 \in 1..Len(mainPipe)
  BY <1>1, TailType DEF TypeOK
<1>3. PICK c \in Clients : c = m.threadId
  BY <1>2 DEF PatientInv
<1>4. ~NoneInMain(c)
  BY <1>2, <1>3 DEF NoneInMain
<1>5. Patient(c)
  BY DEF PatientInv
<1>6. InShell(c) /\ Len(asked[c]) = answered[c] + 1 /\ AtMain(c)
  BY <1>4, <1>5 DEF Patient, Stage, Waiting, Outside, Resting, AtSocket, AtThread,
                    AtPipe, AtShell
<1>7. PICK x \in MainMessages :
        /\ Queues(c, <<>>, <<>>, <<>>, <<>>) /\ OneInMain(c, x)
        /\ threadState[c] = "poll" /\ Own(c)
        /\ Allowed(x.cmd, status[c]) /\ x.username = loggedUser[c]
  BY <1>6 DEF AtMain
<1>8. x = m
  <2>1. PICK i \in 1..Len(mainPipe) : mainPipe[i] = x /\ x.threadId = c
    BY <1>7 DEF OneInMain
  <2>2. i = 1
    BY <1>2, <1>3, <1>7, <2>1 DEF OneInMain
  <2> QED  BY <1>2, <2>1, <2>2
<1> QED  BY <1>3, <1>5, <1>6, <1>7, <1>8 DEF Patient

\* The main thread answers a request of c.
LEMMA AnsweredPatient ==
    ASSUME PatientInv, mainPipe # <<>>, mainPipe' = Tail(mainPipe),
           NEW c \in Clients, NEW a \in Answers,
           OneInMain(c, Head(mainPipe)), Queues(c, <<>>, <<>>, <<>>, <<>>),
           InShell(c), Len(asked[c]) = answered[c] + 1, threadState[c] = "poll",
           threadPipe' = [threadPipe EXCEPT ![c] = Append(@, a)],
           UNCHANGED <<clientVars, socketVars, threadState, batch, loggedUser,
                       threadIdToPipe, mapMutexLeaked, server, asked, answered>>,
           Due(c, a, FALSE)',
           \A d \in Clients \ {c} : \A u : Holds(d, u) => Holds(d, u)'
    PROVE  /\ ServerServes'
           /\ \A i \in 1..Len(mainPipe') : mainPipe'[i].threadId \in Clients
           /\ \A d \in Clients : Patient(d)'
<1>1. TypeOK /\ Patient(c)
  BY DEF PatientInv
<1>2. UNCHANGED <<status, loggedUsername, toServer, toClient, sock>>
  BY DEF clientVars, socketVars
<1>3. Patient(c)'
  <2>1. NoneInMain(c)'
    BY <1>1, MainShrinks DEF OneInMain
  <2>2. threadPipe'[c] = <<a>>
    BY <1>1, Single DEF Queues, TypeOK
  <2>3. Queues(c, <<>>, <<>>, <<a>>, <<>>)'
    BY <1>2, <2>2 DEF Queues
  <2>4. AtPipe(c)'
    BY <2>1, <2>3 DEF AtPipe
  <2> QED  BY <1>1, <1>2, <2>4 DEF Patient, Stage, Waiting, InShell
<1>4. ASSUME NEW d \in Clients \ {c} PROVE Patient(d)'
  <2>1. threadPipe'[d] = threadPipe[d]
    BY <1>1, <1>4 DEF TypeOK
  <2>2. /\ NoneInMain(d) => NoneInMain(d)'
        /\ \A x : OneInMain(d, x) => OneInMain(d, x)'
    <3>1. Head(mainPipe).threadId # d
      BY <1>4 DEF OneInMain
    <3> QED  BY <1>1, <3>1, MainShrinks
  <2> QED  BY <1>2, <1>4, <2>1, <2>2, Untouched DEF PatientInv
<1>5. \A i \in 1..Len(mainPipe') : mainPipe'[i].threadId \in Clients
  <2>1. PICK n \in Nat : n = Len(mainPipe)
    BY <1>1, Counters
  <2>2. Len(mainPipe') = n - 1 /\ \A i \in 1..(n - 1) : mainPipe'[i] = mainPipe[i + 1]
    BY <1>1, <2>1, TailType DEF TypeOK
  <2>3. \A i \in 1..(n - 1) : i + 1 \in 1..n
    OBVIOUS
  <2> QED  BY <2>1, <2>2, <2>3 DEF PatientInv
<1> QED  BY <1>3, <1>4, <1>5 DEF PatientInv, ServerServes

LEMMA MainPatient ==
    ASSUME PatientInv, Main
    PROVE  /\ ServerServes'
           /\ \A i \in 1..Len(mainPipe') : mainPipe'[i].threadId \in Clients
           /\ \A d \in Clients : Patient(d)'
<1>1. TypeOK /\ mainPipe # <<>>
  BY DEF PatientInv, Main
<1>2. PICK m \in MainMessages : m = Head(mainPipe)
  BY <1>1, TailType DEF TypeOK
<1>3. PICK c \in Clients :
        /\ m.threadId = c /\ c \in threadIdToPipe
        /\ InShell(c) /\ sock[c] = "open" /\ Len(asked[c]) = answered[c] + 1
        /\ Queues(c, <<>>, <<>>, <<>>, <<>>) /\ OneInMain(c, m)
        /\ threadState[c] = "poll" /\ Own(c)
        /\ Allowed(m.cmd, status[c]) /\ m.username = loggedUser[c]
  BY <1>1, <1>2, HeadIsAtMain
<1>4. /\ m.cmd \in Commands /\ m.username \in Names /\ NoUser \in Names
      /\ m.cmd.user \in Names
  BY MessageParts DEF Names
\* What every answer leaves to show.
<1>5. ASSUME NEW type \in {"LOGINACK", "LOGOUTACK", "LIST", "EXITACK"},
             NEW u \in Names, NEW ok \in BOOLEAN,
             Take(m), Reply(m, type, u, ok),
             UNCHANGED <<clientVars, socketVars, threadState, batch, loggedUser,
                         threadIdToPipe, mapMutexLeaked, server, asked, answered>>,
             /\ type = "LOGINACK" =>
                   status[c] = "not_logged" /\ (ok => Holds(c, u)')
             /\ type = "LOGOUTACK" => status[c] = "logged"
             /\ type = "LIST" => status[c] = "logged" /\ Own(c)',
             \A d \in Clients \ {c} : \A x : Holds(d, x) => Holds(d, x)'
      PROVE  /\ ServerServes'
             /\ \A i \in 1..Len(mainPipe') : mainPipe'[i].threadId \in Clients
             /\ \A d \in Clients : Patient(d)'
  <2>1. PICK a : a = [type |-> type, user |-> u, ok |-> ok, n |-> m.n]
    OBVIOUS
  <2>2. a \in Answers /\ a.type = type /\ a.user = u /\ a.ok = ok
    BY <2>1 DEF Answers, MainMessages
  <2>3. threadPipe' = [threadPipe EXCEPT ![c] = Append(@, a)] /\ mainPipe' = Tail(mainPipe)
    BY <1>3, <1>5, <2>1 DEF Reply, Take
  <2>4. status' = status
    BY <1>5 DEF clientVars
  <2>5. Due(c, a, FALSE)'
    BY <1>5, <2>2, <2>4 DEF Due
  <2> HIDE DEF Due
  <2> QED  BY <1>1, <1>2, <1>3, <1>5, <2>2, <2>3, <2>5, AnsweredPatient
<1>6. ~MainSkip(m) /\ ~MainFarewell(m)
  BY <1>3, ConstantsAssumption DEF MainSkip, MainFarewell
<1>7. CASE MainLogin(m)
  <2>1. status[c] = "not_logged"
    BY <1>3, <1>7 DEF MainLogin, Allowed
  <2>2. PICK ok \in BOOLEAN : ok = CanLogin(m.cmd)
    <3>1. CanLogin(m.cmd) \in BOOLEAN
      BY <1>4, CommandParts DEF CanLogin
    <3> QED  BY <3>1
  <2>3. ok => Holds(c, m.cmd.user)'
    BY <1>1, <1>3, <1>7, <2>2 DEF MainLogin, CanLogin, Holds, TypeOK
  <2>4. \A d \in Clients \ {c} : \A x : Holds(d, x) => Holds(d, x)'
    BY <1>1, <1>7 DEF MainLogin, CanLogin, Holds, TypeOK, playerVars
  <2> QED  BY <1>4, <1>5, <1>7, <2>1, <2>2, <2>3, <2>4 DEF MainLogin, TakeFromThread
<1>8. CASE MainLogout(m)
  <2>1. status[c] = "logged" /\ Holds(c, m.username) /\ m.username \in Accounts
    BY <1>1, <1>3, <1>8 DEF MainLogout, Allowed, Own, Holds, TypeOK
  <2>2. \A d \in Clients \ {c} : \A x : Holds(d, x) => Holds(d, x)'
    BY <1>1, <1>8, <2>1 DEF MainLogout, Deactivate, Holds, TypeOK
  <2> QED  BY <1>4, <1>5, <1>8, <2>1, <2>2 DEF MainLogout, TakeFromThread
<1>9. CASE MainList(m)
  <2>1. status[c] = "logged"
    BY <1>3, <1>9 DEF MainList, Allowed
  <2>2. Own(c)' /\ \A d \in Clients : \A x : Holds(d, x) => Holds(d, x)'
    BY <1>3, <1>9 DEF MainList, Own, Holds, clientVars, playerVars
  <2> QED  BY <1>4, <1>5, <1>9, <2>1, <2>2 DEF MainList, TakeFromThread
<1>10. CASE MainExit(m)
  <2>1. \A d \in Clients : \A x : Holds(d, x) => Holds(d, x)'
    BY <1>10 DEF MainExit, Holds, playerVars
  <2> QED  BY <1>4, <1>5, <1>10, <2>1 DEF MainExit, TakeFromThread
<1> QED  BY <1>2, <1>6, <1>7, <1>8, <1>9, <1>10 DEF Main

-----------------------------------------------------------------------------

LEMMA PatientInit == Init => PatientInv
<1> SUFFICES ASSUME Init PROVE PatientInv
  OBVIOUS
<1>1. ASSUME NEW c \in Clients PROVE Patient(c)
  BY <1>1 DEF Init, Patient, Stage, Outside, Queues, NoneInMain, InShell
<1>2. Len(mainPipe) = 0
  BY DEF Init
<1> QED  BY <1>1, <1>2, TypesInit DEF PatientInv, Init, ServerServes

LEMMA PatientStep ==
    ASSUME MaxPending = 1, Kills = FALSE
    PROVE  PatientInv /\ [Next]_vars => PatientInv'
<1> SUFFICES ASSUME PatientInv, [Next]_vars
             PROVE  /\ ServerServes'
                    /\ \A i \in 1..Len(mainPipe') : mainPipe'[i].threadId \in Clients
                    /\ \A d \in Clients : Patient(d)'
  BY TypesStep DEF PatientInv
<1>1. CASE UNCHANGED vars
  <2>1. ASSUME NEW d \in Clients PROVE Patient(d)'
    BY <1>1, <2>1, Untouched
       DEF PatientInv, vars, clientVars, socketVars, threadVars, playerVars, historyVars,
           NoneInMain, OneInMain, Holds
  <2> QED  BY <1>1, <2>1 DEF PatientInv, vars, ServerServes
<1>2. ASSUME NEW c \in Clients,
             \/ Connect(c) \/ \E cmd \in Commands : Type(c, cmd)
             \/ Receive(c) \/ ThreadStart(c) \/ ThreadReadPipe(c)
             \/ ThreadReadSocket(c) \/ ThreadClose(c)
      PROVE  /\ ServerServes'
             /\ \A i \in 1..Len(mainPipe') : mainPipe'[i].threadId \in Clients
             /\ \A d \in Clients : Patient(d)'
  <2>1. /\ Patient(c)' /\ Only(c)
        /\ UNCHANGED <<mainPipe, mapMutexLeaked, playerVars, server>>
    BY <1>2, ConnectPatient, TypePatient, ReceivePatient, ThreadStartPatient,
       ThreadReadPipePatient, ThreadReadSocketPatient, ThreadClosePatient
  <2> QED  BY <2>1, ClientAlone
<1>3. ASSUME NEW c \in Clients PROVE ~Kill(c) /\ ~ServerLost(c)
  BY DEF Kill, ServerLost, PatientInv, ServerServes
<1> QED
  BY <1>1, <1>2, <1>3, ThreadForwardPatient, ThreadNeverCut, MainPatient DEF Next, Thread

LEMMA PatientSessions == MaxPending = 1 /\ Kills = FALSE => (Spec => []PatientInv)
<1> SUFFICES ASSUME MaxPending = 1, Kills = FALSE PROVE Spec => []PatientInv
  OBVIOUS
<1>1. PatientInv /\ [Next]_vars => PatientInv'
  BY PatientStep
<1> QED
  BY PatientInit, <1>1, PTL DEF Spec

\* The server of patient clients neither stops nor blocks, whatever they type,
\* names without account and wrong passwords included: a LOGOUT always comes
\* with the name of a player (mainThread.cpp looks it up without a check), and
\* a request is served before its thread ends.
THEOREM PatientClientsServed == MaxPending = 1 /\ Kills = FALSE => (Spec => []ServerServes)
<1>1. PatientInv => ServerServes
  BY DEF PatientInv
<1> QED
  BY PatientSessions, <1>1, PTL

\* The shell of a patient client, its thread and the table of players agree on
\* who is logged in whenever the shell waits for nothing, with any number of
\* clients, and of connections that use the same thread id in turn.
THEOREM PatientSessionsAgree ==
    MaxPending = 1 /\ Kills = FALSE => (Spec => []SessionAgreement)
<1>1. PatientInv => SessionAgreement
  <2> SUFFICES ASSUME PatientInv, NEW c \in Clients, status[c] = "logged", Idle(c)
               PROVE  /\ loggedUsername[c] \in isOnline
                      /\ threadPipeWriter[loggedUsername[c]] = c
                      /\ loggedUser[c] = loggedUsername[c]
    BY DEF SessionAgreement
  <2>1. TypeOK /\ Patient(c) /\ InShell(c)
    BY DEF PatientInv, InShell
  <2>2. Resting(c)
    BY <2>1, Counters DEF Patient, Stage, Idle
  <2> QED  BY <2>2 DEF Resting, Own, Holds
<1> QED
  BY PatientSessions, <1>1, PTL
=============================================================================

# Formal models of the tic-tac-toe server and client

TLA+ modules, TLC runs and TLAPS proofs for the C++ sources under `src/`
(`server/`, `client/`, `common/`). Paths and lines below are of that tree.

## 1. Inventory

| Component | State | Operations | Interacts by |
|---|---|---|---|
| Accept loop, `server/src/main.cpp` | listening socket | accept, start a thread per connection | creates client threads |
| Client thread, `clientThread.cpp` | `loggedUser`, `isSocketEnd`, its pipe | pass commands from socket to main pipe (adding USERNAME, THREAD_ID), answers from its pipe to the socket, farewell LOGOUT | socket; main pipe under `pipeWriterMutex`; registry under `threadIdToPipeMutex` |
| Main thread, `mainThread.cpp` | `allPlayers`, `threadIdToPipe` | ADDUSER, LOGIN, PASSWD, LOGOUT, LIST, LEADERS, EXIT, relay of BEGIN*/CANCEL, START, FINISH | reads the main pipe, writes the threads' pipes, saves players |
| Player, `Player.cpp` | online flag, pipe writer, score, enemy, file | activate, deactivate, startGame, endGame, saveToFile | owned by the main thread |
| Client shell, `client/src/main.cpp` and the parsers | `Client` (status, names, board, turn), three polled descriptors | commands of the user, messages of the server and of the rival | sockets to the server and to the rival |
| Board, `Tictactoe.cpp` | nine positions | canSetPlay, setPlay, checkWin | owned by `Client` |
| Transport, `Communication.cpp` | none | commonRead, commonWrite (messages end in an empty line) | every socket and pipe |
| Tokenizer, Logger | none / a log file | split messages / append lines | pure; output only |

What is hard here: three kinds of process (shells, client threads, main thread)
over FIFO channels with no request numbers; users who type ahead; clients that
die or leave at any point; a mutex shared by all threads; `find(...)->second`
without a check; resets, end of stream and SIGPIPE; two boards that are kept
equal by messages only; a listening socket that turns into a connection while
the user may already play or give up. `PROJECT.json` lists the hazards by line.

What makes each part correct:

* sessions: answers match commands; client, thread and player table agree on
  who is logged in; every command is answered; a dead client's session is
  released; the server survives;
* match: both boards are one game by the rules; reports to the server fit
  together; nobody waits for ever;
* board: `checkWin` follows the rules;
* matchmaking: two players play together only if one asked and the other
  consented, both at the same moment, and both learn of it; who consented is
  answered; the server's table of matches follows;
* store: a score that was won survives a stop of the server; a stop costs at
  most one player's file;
* transport: messages come out whole, in order, once, and before the end.

How the modules fit together: `Framing` shows that one pipe or connection is a
queue of whole messages; `Session`, `Matchmaking` and `Match` are built on
queues. `Session` has every hop between a shell and the main thread, for the
commands that are answered to whom they come from. `Matchmaking` has the
messages between two shells and joins the hops of `Session` into one queue per
direction. `Match` begins where `Matchmaking` has an acceptance, and goes on to
the `FINISH` that `PlayerStore` turns into points (its guard on points is
`PointsAfterStart` of `Match`).

## 2. Modules

| Module | Models |
|---|---|
| `Session` | client shells, connections, client threads, main pipe, main thread, registry and its mutex, player table |
| `SessionService` | abstract: one atomic step per command, in order |
| `SessionRefinement` | what `SessionService` sees of `Session` |
| `SessionProofs` | theorems about `Session` |
| `SessionServiceProofs` | `Session` implements `SessionService` |
| `SessionPatientProofs` | what holds of the server when clients wait for their answers |
| `MCSession` | instances for TLC |
| `Tictactoe` | the board, `checkWin`, and the rules it is compared with |
| `TictactoeProofs` | `checkWin` against the rules, for every board |
| `Referee` | abstract: one board, turns, and who may report which result |
| `Match` | matches between two clients over their own connection; refines `Referee` |
| `MatchProofs` | theorems about `Match`, its refinement of `Referee` included |
| `MCMatch` | instances of `Match` for TLC |
| `Pairing` | abstract: asking, consenting, and both becoming partners in one step |
| `Matchmaking` | invitations, answers, cancellations and acknowledgements through the main thread; listening and connecting; the table of matches; refines `Pairing` |
| `MatchmakingProofs` | theorems about `Matchmaking` |
| `MCMatchmaking` | instances of `Matchmaking` for TLC |
| `Ledger` | abstract: accounts over stops of the server |
| `PlayerStore` | players in memory and in files, saving in two steps, stops and starts; refines `Ledger` |
| `PlayerStoreProofs` | theorems about `PlayerStore` |
| `MCPlayerStore` | instances of `PlayerStore` for TLC |
| `Channel` | abstract: a queue of whole messages with an end |
| `Framing` | `commonRead` and `commonWrite` on bytes; refines `Channel` |
| `FramingProofs` | theorems about `Framing` |
| `MCFraming` | instances of `Framing` for TLC |

### Session

One action per step of the code: `Connect` (accept, thread created), `Type`
(`parseUserInput`), `Receive` (the acknowledgement parsers), `Kill`,
`ServerLost`; `ThreadStart`, `ThreadReadPipe`, `ThreadReadSocket` (one or more
messages at once), `ThreadForward` (one message under `pipeWriterMutex`),
`ThreadReadEnd`, `ThreadFarewell`, `ThreadClose`; and per message type of the
main thread `MainLogin`, `MainLogout`, `MainFarewell`, `MainList`, `MainExit`,
`MainSkip`. A critical section is one step, and `mapMutexLeaked` says that the
registry's mutex was left locked (`mainThread.cpp:96`): every step that needs it
is then disabled. `server` says what ended the server process: a write after the
peer's reset (`sigpipe`), a read of -1 bytes (`bad_read`), a player that is not
there (`no_account`) or a missing USERNAME line (`no_username`). The last three
are undefined behaviour (a 4 GiB read past a buffer, a dereferenced end
iterator, index -1); every outcome the build can give there ends the process, and
that is how they are modelled. Slots `c` stand for thread id, pipe and socket
together, and are reused (`MaxRuns`) as the operating system reuses them.

The `n` of a message is history: it is not in the code, no action reads it. It
lets `AnswersInOrder` say that the k-th answer a client reads answers its k-th
command. The main thread looks up the pipe of a request's thread before it serves
the request and writes the answer after it; `Reply` joins the two, which makes no
difference as long as no other connection gets the number of that pipe in between
(a thread id used once, or a client that waits for its answer: its thread cannot
end meanwhile). `list` and `leaders` are one command (both only read); CONNIN and
TERMINATED are only logged and left out. ADDUSER, PASSWD and the game's messages
are not in this module.

### Match

State of both clients from the moment the inviter handles an acceptance:
`Invite` (`DrawLots` is `parseBeginResp`), `Connect` (`JoinMatch` is
`parseBeginRespAck`), `Accept`, `MakePlay`, `GiveUp`, `ReadPeer`
(`ReadMessage`, `ConnectionLost`, `ReadFails`), `WriteFails`, `Kill`. `pollFd`
is what `pfds[2]` is (listener, connection, unused); `isAcceptingConn`
decides, as in the code, which branch a readable `pfds[2]` takes, so the failing
`accept` on a connection is there. `sock` is the connection as its end sees it:
`fin` (orderly end), `reset` (the other end closed with messages unread, or a
listener closed with the connection in its backlog) and `broken` (written to
after the end: the next write raises SIGPIPE). A write to the unset or -1
`clientConnFd` is lost; an unset value that happens to be an open descriptor is
not modelled. How the two agreed to play is not in this module: an acceptance
finds both clients free. History: `match` (the one game), `left`, `reported`,
`started`, `early`.

### Matchmaking

Every player is one client, logged in under its own name at the start. Its
users' steps are `Begin`, `Cancel`, `Invite` (accept or reject) and `Leave`
(login, logout, exit); the main thread's are `MainBegin` (BEGINREQ, BEGINRESP),
`MainBeginAck`, `MainCancel`, `MainMatch` (START, FINISH), `MainSession`, and
the ways it ends or blocks, `MainNoUsername` and `MainSkip`; the parser of each
message from the server is a `Read...` action. `Accept`, `AcceptFails`, `Crash`,
`EndMatch`, `RivalEnds` and `Kill` are what happens at the game's descriptor,
without the plays, which are in `Match`. A port is a number counted up in
`ports`; `open` and `joined` say who holds an end of it, so that a connection to
a port that is no longer listened on is refused and ends the client
(`connectToServer`). `poll` is `pfds[2]`, including the state after an `accept`
that failed.

Users can break the handshake in a few ways, and the code does not defend
against them: a cancellation crosses an acceptance, an invitation is answered
twice (`invite reject` keeps `inviteFrom`), something is typed before a login or
logout is answered, or a client dies while it waits. The history `orderly` is
true until the first of these; `MatchAgreement` and `ImplementsPairing` are
claimed as long as it is true, which still leaves crossing invitations, third
players, logouts, exits, kills on a match and matches that end before their
connection. Beyond it TLC finds that a late "fail" puts a client that is on a
match back to its prompt, that who accepts a cancelled invitation is on a match
with rival "", and that after a late "fail" a player can be matched with itself.
`TableKnowsMatches` and the liveness properties are claimed whatever users do, up
to the end of the server. `OrderlyServed` says that while users are orderly the
main thread meets no request it cannot serve: it looks up the USERNAME line, the
rival of a START and the answer of a CANCEL without a check, and who is logged
out or invited changes while such requests are on their way. Disorderly users do
reach these ends of the server.

Three simplifications. `loggedUsername` of the client is not a variable: an
invitation is relayed as its sender's, also in the disorderly case (a LOGOUTACK and
then a late "fail") where the code sends an empty name and the server ends. The
listener of a match that was accepted stays open in the code when the match ends
(`main.cpp:322` overwrites its descriptor), and here its port is dropped; a port
is connected to once, so nobody can tell. And what the plays of a match do to the
connection is in `Match` alone.

### PlayerStore

`AddUser`, `Login`, `Logout`, `Passwd`, `Start` and `Finish` are the requests as
far as they touch a player. As in the code, only LOGIN asks whether the player is
online; the other requests are served for the player they name, and one that names
no player ends the server (`Stop`). `Open` and `Write` are the halves of `saveToFile`;
`Stop` is any end of the server (CTRL+C runs `handleSeverFinish` in whichever
thread gets it, so it may fall between the halves); `Restart` loads all files or
dies of an empty one (`server = "broken"`: every further start does the same).
The text of one player is written in one `write` when the stream is closed, so a
file is whole or empty. Failing disks are not modelled.

### Framing

Bytes are "x" and newlines. The writer's `Write` gives a message to
`commonWrite`, `Copy` is the kernel moving any number of bytes into what is left
of the pipe or connection, and `Close` may come in the middle, when the process
dies. The reader's `Call`, `Read`, `Gather` and `Scanned` are the loop of
`commonRead`. Texts are what `TokenMatrix::str` produces: lines that are not
empty, joined by single newlines, or nothing. A pipe with several writers (the
main pipe) is one writer here because they hold `pipeWriterMutex`.

## 3. Runs

Every action and every disjunct of the next-state relations fires in a
passing run. No run checks deadlock: users may stop typing, and a client or the
server that has ended stops for good. All runs are exhaustive.

| Run | Bounds | Shows |
|---|---|---|
| `session_full` | 2 clients, 1 account, 2 commands each, both typed ahead, kills | `AnswersInOrder`, `OrderInv` (the inductive invariant of the proof), `ImplementsService` |
| `session_ahead` | 1 client, an account and a stranger's name, 4 commands, 3 ahead, kills | `TypeOK`, `OrderInv`; reaches the second LOGOUT typed ahead and the farewell of a stranger |
| `session_patient` | 2 clients, 2 accounts, 3 commands, none typed ahead, thread ids used twice, no kills | `SessionAgreement` (so no user is logged in twice), `ServerServes` |
| `session_live` | 2 clients, 1 account, 2 commands, kills, fairness | `EveryCommandAnswered`, `SessionReleased` |
| `match_play` | the whole board, 2 matches, kills | `TypeOK`, `BoardsAgree`, `ResultsAgree`, `PointsAfterStart`, `CheckWinIsRight`, `PlaysByTheRules` (refinement of `Referee`) |
| `match_live` | 5 positions (a row and both ways to block it), 2 matches, kills, fairness | `MatchLetsGo`, `TurnComes` |
| `matchmaking` | 3 players, 4 commands in all, kills of clients that wait or play | `TypeOK` (with: `pfds[2]` is open while it is polled), `MatchAgreement`, `TableKnowsMatches`, `OrderlyServed`, `ImplementsPairing` |
| `matchmaking_live` | 2 players, 3 commands in all, kills at any point, fairness | `AcceptorAnswered`, `InviterConnected` |
| `store` | 3 users, 2 passwords, 3 points each, any number of stops | `TypeOK`, `SavedIsCurrent`, `AtMostOneFileLost`, `ImplementsLedger` |
| `framing` | 4 messages of 0, 3 or 5 bytes, a buffer of 2 and a pipe of 4 bytes, fairness | `TypeOK` (reads stay inside the buffer), `ImplementsChannel`, `HandedOver` |
| `claim_ignore` | 2 clients, 1 account | `IgnoringIsHarmless` fails: the mutex is left locked |
| `claim_read_severed` | 2 clients, 1 account | `ReadReportsSevered` fails: a reset ends the server |

Why the bounds are enough to be interesting. Two clients are what a race for one
username, one mutex and one main pipe needs. Two commands are a login and what
follows it; the second logout needs three, and `session_ahead` has four. Two
matches are needed to see that the first leaves no board, turn or message
behind. With a third match `BoardsAgree` and `PlaysByTheRules` fail in the code:
`isAcceptingConn`, left set by a give-up before `accept` in match one, makes the
`accept` of match two fail, that path does not reset the board (`endGame` runs
only on a match), and match three begins with the old one, if the user or the server
gives the client something to do before it polls its connection again. The bound
of two is therefore a limit of the claim, not only of the search.

Four typed commands are two invitations and two answers: two that cross, a
third player that comes between, a second match after a first that ended before
its connection (the failing `accept` and the crash after it need all four).
With two players the liveness run also holds with four commands. Three users are
one whose file is being saved, one whose file may be lost already, and one that
must not be touched. In `framing` the messages are longer than the buffer (which
doubles twice) and longer than the pipe, end and are cut at every place, and up
to four arrive in one call.

The symmetric runs treat client slots (or players, users, passwords) as interchangeable; no
liveness run uses symmetry.

Every passing property has a mutant: a small slip in a modelled operator
(definitions commented `Mutant` beside the ones they would replace) that makes
the property fail.

### Fairness

`Session`: weak fairness of each client thread, of the main thread, and of each
shell's reading of the server socket. They are loops around `poll` or `read`
that return when there is something to do; mutexes are held for a few
statements, except for the one left locked, which the properties name. `Match`:
weak fairness of `Connect`, `Accept` and `ReadPeer`. The branches of the
client's loop are `else if` with stdin first, so this assumes that a user does
not keep stdin readable for ever; nothing is asked of users, who need not type,
play or start anything. `Matchmaking`: weak fairness of the main thread (for
each client's requests: it serves one FIFO pipe), of each client's reading of the
server socket and of `Accept`. `Framing`: weak fairness of the kernel's copying
and of the reader. Liveness is excused where the code cannot deliver: a
dead server, a locked mutex, a client that is gone or has logged out, a play
made before the connection (`early`), an inviter that died after it was sent an
acceptance.

## 4. Proofs

For all values of the constants, by TLAPS:

* `Typing`: `Spec => []TypeOK`, one lemma per action.
* `StagesInOrder`: `MaxRuns = 1 => (Spec => []OrderInv)`.
* `PairedByPosition`: `MaxRuns = 1 => (Spec => []AnswersInOrder)`.
* `ServiceImplemented`: `MaxRuns = 1 => (Spec => ImplementsService)`, the
  refinement of `SessionService` by `Session`, kills and a dying server included.
* `PatientClientsServed`, `PatientSessionsAgree`: `MaxPending = 1 /\ Kills = FALSE
  => (Spec => []ServerServes)` and `... []SessionAgreement`: any number of clients,
  users and accounts, thread ids reused without limit.
* `CheckWinFollowsTheRules`: `checkWin(board) = Ruling(board)` for every board on
  which not both pieces have a line (three in a row of both cannot arise in
  play, and the rules do not decide it).

* `StoreTypes`, `ScoresSaved`, `OneFileLost`: `TypeOK`, `SavedIsCurrent` and
  `AtMostOneFileLost` of `PlayerStore`.
* `StoreImplementsLedger`: `Spec => ImplementsLedger`, the refinement, for all
  users, passwords and scores, and any number of stops.
* `MatchmakingTypes`, `TableKnows`: `TypeOK` and `TableKnowsMatches` of
  `Matchmaking`, for any number of players, commands and deaths.
* `MatchesAgree`, `PairingImplemented`: `Spec => []MatchAgreement` and
  `Spec => ImplementsPairing`, the refinement of `Pairing` by `Matchmaking`, for any
  number of players; both say what they say as long as users are orderly.
* `OrderlyUsersServed`: `Spec => []OrderlyServed`, for any number of players,
  matches, logouts and deaths on a match.
* `MatchTypes`, `StartBeforePoints`: `TypeOK` and `PointsAfterStart` of `Match`,
  for any number of matches in a row, the ones with an old board included.
* `BoardsOfOneGame`, `ResultsOfOneGame`, `CheckWinDecides`, `MatchImplementsReferee`:
  `Spec /\ [][FreshStart]_vars` implies `[]BoardsAgree`, `[]ResultsAgree`,
  `[]CheckWinIsRight` and `PlaysByTheRules`, for any number of matches.
* `TwoMatchesByTheRules`: `MaxMatches <= 2 => (Spec => PlaysByTheRules /\
  [](BoardsAgree /\ ResultsAgree /\ CheckWinIsRight))`, without that hypothesis.
* `FramingTypes`, `FramingImplementsChannel`: `TypeOK` and `ImplementsChannel` of
  `Framing`, for all texts, sizes of the buffer and of the pipe.

`TableKnowsMatches` speaks of clients whose requests are all served. Its
strengthening `Table` says for every client, whatever is still in its queue, what
the table becomes when the queue is served: the last START or FINISH in it
decides (`ToldBy`), or the table itself if there is none. A client that sends
START or FINISH makes its claim true by the request it appends (`ToldLast`), other
requests do not matter (`ToldOther`), and serving one moves the decision from the
queue into the table (`ToldServed`). `Typing` also records that only players are
named by invitations and by START, because the main thread replaces the name by
the sender's, and that the port of a client was listened on once.

`MatchAgreement` looks at two clients and the message between them, but it holds
because of all the messages before. `Handshake` says, as long as users are orderly,
where each of them is. An invitation of `p` is at one `Place` at most (asking, asked,
shown on the other screen, answering, answered), and wherever it is, `p` still
waits for whom it names (`Invitation`); an acceptance of `q` is at one `Stage` at most
(consenting, consented, settling, settled), and `q` still waits for it
(`Acceptance`). So an answer is never late: an acceptance that is read is read by
who waits for it, a "fail" never meets a client on a match, and crossing
invitations refuse each other. `Session` is why nothing gets lost on the way: who
waits has no logout under way and is online, so `Relay` finds it. `Silent` says what
is never said (a cancellation, a late "fail", an answer to nobody), and `AtRest` that
who does not wait has no `inviteTo` left over. `Standing` and `Agreed` then join
messages and matches: who has been summoned to a match is summoned by one who is, or
was, on it; and who is on a match has a rival that stands by it or is being summoned.
Every part needs the others, so they are proved together, one lemma for each action.
A disorderly step breaks them, which is why `orderly` is a hypothesis: a
cancellation that crosses an acceptance leaves an acceptance nobody waits for.

`OrderlyUsersServed` adds one thing to `Handshake`: what is still in the queue of a
player is `Fit`, that is, none of the requests that need the USERNAME line (START,
FINISH, LOGOUT) is behind one that takes it away (LOGOUT, the farewell), and no
START has an empty rival. Only who waits or plays sends START and FINISH, and
`Session` says that it is online and has no logout under way (`MayTell`); who logs out
waits for no other answer, so its LOGOUT is the only one. The rival of START comes
from an acceptance (`Accepts`) or from a match (`Agreed`), and both name a player.
CANCEL is not said at all by orderly users (`NoCancel`). So the first request of
every queue can be served (`HeadFit`).

`PairingImplemented` maps the steps: `Begin` asks, an accepting `Invite` consents,
`StartListening` pairs both players although the second one only learns of it two
messages later, a declining or undeliverable answer ends the question, and a match
ends for a player with `closingGame`, a failing `accept`, a death, a refused connection, or a
`MainSkip` of the summons that a dead inviter left behind. Every other step is not seen: `View`
says what of the stages Pairing sees, and a relay moves an acceptance from one stage to
the next without changing it. `Pairing` has no step in which a consent is lost.

Neither invariant of `Match` is inductive: that who reports points has reported
START rests on who may read a play or an END at all. `Inv` of `MatchProofs` adds
`Descriptors`, for each client: only one that has reported START reads from the
other; an inviter that is not connected yet is the one on turn or has made the
one play it can make; and its board, old marks included, has at most two marks
then, which never end a game (`TwoMarksGoOn`). `OneTurn` joins the two: while
the connection is open, one of them is on turn or one play is on its way, so that at
most a play and an END are unread. These hold for any number of matches, whatever
board a match begins with.

What the boards say needs a hypothesis, because the code breaks it: after a failed
`accept` a match may begin with the board of the one before (section 3). `FreshStart`
is an action formula that excludes exactly this (when a match begins both boards are
new), and nothing else: every give-up, failing `accept`, death and crossing message
stays. Under it `GameInv` holds. It takes the boards apart by what is still to be read:
a client on a match is `UpToDate`, its board is the one of the game (`match`, a
variable that only the properties read), nobody has won, and it is on turn if the game
says so; or it has a `PlayToRead`, its board is that of the game without the cell of
that play, and if the play decided the game the other one has reported it.
`Pending` bounds what is on the connection, `ResultsAgree` is part of it, and
`OneWinner` (no board ever has lines of both pieces) is where
`CheckWinFollowsTheRules` is used: from it `checkWin` is right on every board.
`MatchImplementsReferee` then maps each step: a play is the referee's `Play` when it
is made, not when it is read; reading one shows a result that is already decided;
a match that ends in any other way is given up. For two matches
`FreshStart` is proved of the code by the invariant `Leftovers`: an old board needs a
failed `accept`, which needs a match given up before it, so the second match at the
earliest leaves one and the third would begin with it.

A patient client has one command under way, so what everybody else may believe
about it depends on where that command or its answer is. `PatientInv` names these
places (`Resting`, `AtSocket`, `AtThread`, `AtMain`, `AtPipe`, `AtShell`, `Outside`) and
gives for each what the shell, the thread's user name, the table of players and the
pipes hold then: everything but the one place is empty. A name that is logged in
belongs to one live thread (`Own`, `Holds`), and a LOGOUT carries the name it
logs out from the thread that still has it, so that the main thread finds the
player it looks for. The errors that end the server or leave its mutex locked need a
command that arrives where none can be; each is shown impossible from the stage.

What the bytes of `Framing` mean would be a recursive function, about which nothing
can be proved by induction here. `Inv` of `FramingProofs` says it without one:
there is a stream `s` of messages `all` that end at the offsets `off`, and
`data`, `wire` and `buffer` are pieces of it at the places `Copied` and `base`;
`whole` messages are copied, `h` handed over and `g` gathered. Each lemma of an
action gives the new witnesses. The centre is `FirstDelimiter`: in texts no
newline follows another or stands at an end, so two newlines in a row are the end
of a message, also where a text's last byte and its delimiter meet; without that
assumption (an empty line in a message) the theorem is false. `NothingLeft` gives
the end of stream: with nothing to read and no delimiter, all whole messages are
gathered.

The invariants of `PlayerStore` are proved together (`StoreInv`). Neither
`AtMostOneFileLost` nor `SavedIsCurrent` is inductive: that a second file cannot
be lost rests on the server not running when one is lost, and that memory and
files agree between requests rests on the one file that is open being empty and
its player being in memory; `Bookkeeping` says so. The refinement has one lemma
per action: a request that opens a file is the step of the ledger (award or
creation), writing it changes nothing, a stop loses the account whose file is
open, and a start changes nothing. It uses the assumptions that `None`, `Empty`
and `Lost` differ from users, records and each other where the code's empty
string, empty file and missing file do.

`AnswersInOrder` speaks of the last hop only and is not inductive: the answer to
be read next is right because the one behind it in the thread's pipe, the request in
the main pipe and the commands still on the socket are right too. `OrderInv`
says so stage by stage: the commands of `c` on the socket and in the thread are
the last ones asked (`CommandsInOrder`); the main pipe holds the forwarded,
unserved ones in order and, unless one was skipped, without gap
(`MainPipeInOrder`); the thread's pipe holds the last answers (`RepliesInOrder`);
nothing is lost between thread and shell while both run (`NothingLost`). Each
action disturbs one or two stages, and the lemmas follow this structure. The
completeness of the main pipe is needed where the main thread serves the next
command: without it, it could be one too far. `MaxRuns = 1` is
a real assumption: with a thread id used twice a request of the ended
connection is answered to the new one (TLC finds this with `MaxRuns = 2` and
commands typed ahead).

`ServiceImplemented` rests on `OrderInv`: because the head of the main pipe is the
first command of its client that is not served (`ServeHead`), a response is
`Serve`. What a shell has not read is the answers in its connection and its
thread's pipe, up to the first `EXITACK` (`UpToExit`): the thread's steps move
answers from one to the other and are hidden (`ThreadIsHidden`). That needs
`Parting`: a thread that leaves its loop while its shell runs has put `EXITACK`
on the connection, so that the answers it drops with its pipe are ones nobody
was to read. `SelectInSeq` finds that first `EXITACK`; that there is a first one is
the well-foundedness of the naturals (`LeastNumber`).

Only model-checked: all liveness (liveness under fairness and ENABLED are out of the
prover's reach). Every invariant and every refinement that a passing run checks is
also a theorem, under the hypotheses named above.

## 5. Known disagreements

The two `claim_` runs are findings in `PROJECT.json`, with the sentence of the
source each contradicts:

* a request whose thread has ended is not ignored: the main thread keeps the mutex
  of the registry (`claim_ignore`);
* a connection that is reset ends the server that reads it (`claim_read_severed`).

The models also show, without a run of their own:

* the thread of a client saves the name of every LOGINACK without looking at its
  STATUS (`clientThread.cpp:92`; the comment at line 54 says it saves the name of a
  logged user): if a client is refused, the user logs in elsewhere, and the first client is
  closed, its thread logs the other session out (`Session`; against
  README.md:64, who gets the password wrong cannot log out). The runs with kills
  have these steps; `SessionReleased` asks nothing of them and `SessionAgreement` is for
  clients that leave by exit;
* the inviter may play before `accept` has set `clientConnFd`, and the play never
  reaches the other board (`Match`; against README.md:42, each play appears on
  both boards);
* a `FINISH lost` without `START` (give up before `accept`); a player left online
  by EXIT; SIGPIPE where `writeToSocket` promises `false`; LOGOUT without USERNAME
  when two are typed ahead; the failing `accept` and the old board described
  above;
* a late "fail" of the handshake resets a client on a match; CANCEL for a player
  that is offline, START with an empty rival and requests of a user that has been
  logged out end the server; who accepted an inviter that dies waits for ever
  (`Matchmaking`);
* a stop while a player is saved leaves an empty file, with which the server does
  not start any more; a changed password is kept only with the next points won
  (`PlayerStore`).

## 6. Not modelled, and the plan

Left out for good: Tokenizer and Logger (wording and layout), printing, the
unfinished commands of the assignment (`delay`, heartbeats, reconnection), the
end of stdin, partial writes (no descriptor that is written to is non-blocking,
and no handled signal returns).

What is left, in this order:

1. `Pipes`: several bounded pipes and sockets; who can wait for whom when a client
   does not read (the hazard at `clientThread.cpp:82`).
2. Three matches in a row with the old board of a failed `accept`, as a property
   of its own.
3. What is left of `MatchAgreement` and `ImplementsPairing` when users are not
   orderly: a weaker promise, for the players that no disorder has touched.

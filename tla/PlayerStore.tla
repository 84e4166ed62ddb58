----------------------------- MODULE PlayerStore -----------------------------
(***************************************************************************)
(* The players of the server in memory (allPlayers) and in their files     *)
(* (Player.cpp), as the main thread changes them, with stops of the server *)
(* (CTRL+C, kill, a crash of any thread) at any point and restarts that    *)
(* load all files.                                                         *)
(*                                                                         *)
(* Saving a player opens its file, which empties it, and then writes it.   *)
(* A request changes memory and empties the file in one step here: a stop  *)
(* between the two leaves what a stop before the request leaves.           *)
(***************************************************************************)
EXTENDS Integers

CONSTANTS
    Users,      \* usernames
    Passwords,
    None,       \* no player, no file, nobody
    Empty,      \* the content of a file that has been opened to be written
    Lost,       \* an account whose file is Empty when the server is down
    MaxScore    \* bound: points won by one player

ASSUME StoreAssumption ==
    /\ None \notin Users /\ Empty # None
    /\ Lost # None
    /\ {None, Lost} \cap [password : Passwords, kept : Passwords, score : Nat] = {}
    /\ None \notin [password : Passwords, score : Nat]
    /\ Empty \notin [password : Passwords, score : Nat]
    /\ MaxScore \in Nat

VARIABLES
    server,          \* "up", "down", or "broken": it crashes when it starts
    allPlayers,      \* of each user: None, or its password and score in memory
    online,          \* the players with isOnline set
    enemyUsername,
    saving,          \* the player whose file is open
    file             \* of each user: None, Empty, or what it holds

vars == <<server, allPlayers, online, enemyUsername, saving, file>>

Player(password, score) == [password |-> password, score |-> score]
Records == [password : Passwords, score : Nat]
Known(u) == allPlayers[u] # None

Init ==
    /\ server = "up"
    /\ allPlayers = [u \in Users |-> None]
    /\ online = {}
    /\ enemyUsername = [u \in Users |-> None]
    /\ saving = None
    /\ file = [u \in Users |-> None]

-----------------------------------------------------------------------------
(***************************************************************************)
(* Requests that the main thread serves.  Only LOGIN asks whether a player *)
(* is online: the others take the player that the USERNAME line names, and *)
(* one that does not exist ends the server (Stop).                         *)
(***************************************************************************)

Serving == server = "up" /\ saving = None

\* Mutant: the player is put into memory only.
SaveLater(u) == UNCHANGED <<saving, file>>

\* saveToFile, first half: opening the file empties it.
Open(u) ==
    /\ saving' = u
    /\ file' = [file EXCEPT ![u] = Empty]

\* saveToFile, second half: the text is written when the file is closed.
Write ==
    /\ server = "up"
    /\ saving # None
    /\ file' = [file EXCEPT ![saving] = allPlayers[saving]]
    /\ saving' = None
    /\ UNCHANGED <<server, allPlayers, online, enemyUsername>>

AddUser(u, password) ==
    /\ Serving
    /\ ~Known(u)
    /\ allPlayers' = [allPlayers EXCEPT ![u] = Player(password, 0)]
    /\ Open(u)
    /\ UNCHANGED <<server, online, enemyUsername>>

Login(u, password) ==
    /\ Serving
    /\ Known(u) /\ u \notin online
    /\ allPlayers[u].password = password
    /\ online' = online \cup {u}
    /\ UNCHANGED <<server, allPlayers, enemyUsername, saving, file>>

Logout(u) ==
    /\ Serving
    /\ Known(u)
    /\ online' = online \ {u}
    /\ UNCHANGED <<server, allPlayers, enemyUsername, saving, file>>

\* The password is changed in memory; nothing is saved.
Passwd(u, old, new) ==
    /\ Serving
    /\ Known(u)
    /\ allPlayers[u].password = old
    /\ allPlayers' = [allPlayers EXCEPT ![u].password = new]
    /\ UNCHANGED <<server, online, enemyUsername, saving, file>>

Start(u, v) ==
    /\ Serving
    /\ Known(u) /\ Known(v)
    /\ enemyUsername' = [enemyUsername EXCEPT ![u] = v]
    /\ UNCHANGED <<server, allPlayers, online, saving, file>>

\* Mutant: only a win is saved.
ScoreSavesWins(u, points) ==
    /\ allPlayers' = [allPlayers EXCEPT ![u].score = @ + points]
    /\ \/ points = 2 /\ Open(u)
       \/ points < 2 /\ UNCHANGED <<saving, file>>

\* A win is two points, a draw one; other results are not saved.
Score(u, points) ==
    /\ allPlayers' = [allPlayers EXCEPT ![u].score = @ + points]
    /\ \/ points > 0 /\ Open(u)
       \/ points = 0 /\ UNCHANGED <<saving, file>>

\* Points are reported only after a START (Match: PointsAfterStart).
Finish(u, points) ==
    /\ Serving
    /\ Known(u)
    /\ points > 0 => enemyUsername[u] # None
    /\ allPlayers[u].score + points <= MaxScore
    /\ enemyUsername' = [enemyUsername EXCEPT ![u] = None]
    /\ Score(u, points)
    /\ UNCHANGED <<server, online>>

-----------------------------------------------------------------------------
(***************************************************************************)
(* Stops and starts.                                                       *)
(***************************************************************************)

Stop ==
    /\ server = "up"
    /\ server' = "down"
    /\ allPlayers' = [u \in Users |-> None]
    /\ online' = {}
    /\ enemyUsername' = [u \in Users |-> None]
    /\ saving' = None
    /\ UNCHANGED file

\* Mutant: an empty file is passed over.
LoadWhatIsWhole ==
    /\ allPlayers' = [u \in Users |-> IF file[u] = Empty THEN None ELSE file[u]]
    /\ server' = "up"

\* Mutant: a player is made of an empty file.
LoadAnything == allPlayers' = file /\ server' = "up"

\* loadAllPlayers, for files that are whole.
Load ==
    /\ \A u \in Users : file[u] # Empty
    /\ allPlayers' = file
    /\ server' = "up"

\* Player(path) takes the first of no entries of an empty file: the process ends.
LoadFails ==
    /\ \E u \in Users : file[u] = Empty
    /\ server' = "broken"
    /\ UNCHANGED allPlayers

Restart ==
    /\ server = "down"
    /\ Load \/ LoadFails
    /\ UNCHANGED <<online, enemyUsername, saving, file>>

Next ==
    \/ \E u \in Users, password \in Passwords :
          \/ AddUser(u, password)
          \/ Login(u, password)
          \/ \E new \in Passwords : Passwd(u, password, new)
    \/ \E u, v \in Users : Start(u, v)
    \/ \E u \in Users : Logout(u) \/ \E points \in 0..2 : Finish(u, points)
    \/ Write
    \/ Stop
    \/ Restart

Spec == Init /\ [][Next]_vars

-----------------------------------------------------------------------------
(***************************************************************************)
(* Properties.                                                             *)
(***************************************************************************)

\* Memory holds whole players only, whatever the files hold when they are
\* loaded (the constructor of Player that reads a file).
TypeOK ==
    /\ server \in {"up", "down", "broken"}
    /\ allPlayers \in [Users -> Records \cup {None}]
    /\ online \subseteq {u \in Users : Known(u)}
    /\ enemyUsername \in [Users -> Users \cup {None}]
    /\ saving \in Users \cup {None}
    /\ file \in [Users -> Records \cup {None, Empty}]

\* Between two requests every player in memory has a file and every file a
\* player, with the same score: no path of ADDUSER and FINISH leaves a score
\* that a stop of the server would lose, although only some of them save.
SavedIsCurrent ==
    server = "up" =>
        \A u \in Users :
            u # saving =>
                /\ Known(u) <=> file[u] # None
                /\ Known(u) => /\ file[u] # Empty
                               /\ file[u].score = allPlayers[u].score

\* Stops cannot damage a second file: after the first one the server does not
\* start any more (loadAllPlayers ends the process), so nothing is saved.
AtMostOneFileLost ==
    \A u, v \in Users : file[u] = Empty /\ file[v] = Empty => u = v

\* The account that outlives the stops of the server.
AccountOf(u) ==
    IF server = "up"
    THEN IF ~Known(u) THEN None
         ELSE [password |-> allPlayers[u].password,
               kept     |-> IF file[u] \in {None, Empty} THEN allPlayers[u].password
                                                       ELSE file[u].password,
               score    |-> allPlayers[u].score]
    ELSE CASE file[u] = None  -> None
           [] file[u] = Empty -> Lost
           [] OTHER -> [password |-> file[u].password,
                        kept     |-> file[u].password,
                        score    |-> file[u].score]

accounts == [u \in Users |-> AccountOf(u)]

Promise == INSTANCE Ledger WITH account <- accounts

\* Through any number of stops and starts, at any point of a request, the files
\* keep what Ledger promises: every account but the one being saved keeps its
\* score and the password of its last save.
ImplementsLedger == Promise!Spec
=============================================================================

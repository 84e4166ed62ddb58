-------------------------- MODULE PlayerStoreProofs --------------------------
(***************************************************************************)
(* Theorems about PlayerStore, for all sets of users and passwords: its    *)
(* invariants, and that it implements Ledger.                              *)
(***************************************************************************)
EXTENDS PlayerStore, TLAPS

\* What holds in every state besides the types: nobody plays on a server that
\* is down, what is being saved is in memory and its file is empty, and while
\* the server runs no other file is empty.
Bookkeeping ==
    /\ server # "up" => saving = None /\ online = {}
    /\ saving # None => Known(saving) /\ file[saving] = Empty
    /\ server = "up" => \A u \in Users : file[u] = Empty => u = saving

StoreInv == TypeOK /\ SavedIsCurrent /\ AtMostOneFileLost /\ Bookkeeping

LEMMA InitStore == Init => StoreInv
<1> SUFFICES ASSUME Init PROVE StoreInv
  OBVIOUS
<1>1. TypeOK
  BY StoreAssumption DEF Init, TypeOK
<1>2. \A u \in Users : ~Known(u) /\ file[u] = None /\ file[u] # Empty
  BY StoreAssumption DEF Init, Known
<1>3. SavedIsCurrent /\ AtMostOneFileLost
  BY <1>2 DEF SavedIsCurrent, AtMostOneFileLost
<1>4. Bookkeeping
  BY <1>2 DEF Bookkeeping, Init
<1> QED  BY <1>1, <1>3, <1>4 DEF StoreInv

\* What AtMostOneFileLost rests on while the server runs.
LEMMA LostWhileSaving ==
    ASSUME Bookkeeping', server' = "up"
    PROVE  AtMostOneFileLost'
BY DEF Bookkeeping, AtMostOneFileLost

-----------------------------------------------------------------------------
(***************************************************************************)
(* The steps.                                                              *)
(***************************************************************************)

LEMMA StoreAddUser ==
    ASSUME StoreInv, NEW u \in Users, NEW password \in Passwords,
           AddUser(u, password)
    PROVE  StoreInv'
<1>1. Player(password, 0) \in Records /\ Player(password, 0) # None
  BY StoreAssumption DEF Player, Records
<1>2. /\ server = "up" /\ server' = "up" /\ saving = None /\ saving' = u
      /\ allPlayers' = [allPlayers EXCEPT ![u] = Player(password, 0)]
      /\ file' = [file EXCEPT ![u] = Empty]
      /\ UNCHANGED <<online, enemyUsername>>
  BY DEF AddUser, Serving, Open
<1>3. TypeOK'
  <2>1. \A v \in Users : Known(v) => Known(v)'
    BY <1>1, <1>2 DEF Known, StoreInv, TypeOK
  <2> QED  BY <1>1, <1>2, <2>1 DEF StoreInv, TypeOK
<1>4. SavedIsCurrent'
  <2>1. \A v \in Users : v # u => allPlayers'[v] = allPlayers[v] /\ file'[v] = file[v]
    BY <1>2 DEF StoreInv, TypeOK
  <2>2. \A v \in Users : v # saving
    BY <1>2, StoreAssumption
  <2> QED  BY <1>2, <2>1, <2>2 DEF StoreInv, SavedIsCurrent, Known
<1>5. Bookkeeping'
  BY <1>1, <1>2, StoreAssumption DEF StoreInv, TypeOK, Bookkeeping, Known
<1> QED  BY <1>2, <1>3, <1>4, <1>5, LostWhileSaving DEF StoreInv

LEMMA StoreWrite == ASSUME StoreInv, Write PROVE StoreInv'
<1>1. /\ server = "up" /\ saving \in Users /\ saving' = None
      /\ Known(saving) /\ allPlayers[saving] \in Records
      /\ file' = [file EXCEPT ![saving] = allPlayers[saving]]
      /\ UNCHANGED <<server, allPlayers, online, enemyUsername>>
  BY DEF StoreInv, TypeOK, Bookkeeping, Write, Known
<1>2. TypeOK'
  BY <1>1 DEF StoreInv, TypeOK, Known
<1>3. SavedIsCurrent'
  BY <1>1, StoreAssumption DEF StoreInv, TypeOK, SavedIsCurrent, Known, Records
<1>4. Bookkeeping'
  BY <1>1, StoreAssumption DEF StoreInv, TypeOK, Bookkeeping, Known, Records
<1> QED  BY <1>1, <1>2, <1>3, <1>4, LostWhileSaving DEF StoreInv

\* LOGIN, LOGOUT and START touch neither scores nor files.
LEMMA StoreSession ==
    ASSUME StoreInv, NEW u \in Users,
           \/ \E password \in Passwords : Login(u, password)
           \/ Logout(u)
           \/ \E v \in Users : Start(u, v)
    PROVE  StoreInv'
<1>1. /\ server = "up"
      /\ UNCHANGED <<server, allPlayers, saving, file>>
      /\ online' \subseteq {v \in Users : Known(v)}
      /\ enemyUsername' \in [Users -> Users \cup {None}]
  BY DEF StoreInv, TypeOK, Login, Logout, Start, Serving
<1>2. TypeOK'
  BY <1>1 DEF StoreInv, TypeOK, Known
<1> QED
  BY <1>1, <1>2 DEF StoreInv, SavedIsCurrent, AtMostOneFileLost, Bookkeeping, Known

LEMMA StorePasswd ==
    ASSUME StoreInv, NEW u \in Users, NEW old \in Passwords, NEW new \in Passwords,
           Passwd(u, old, new)
    PROVE  StoreInv'
<1>1. /\ server = "up" /\ saving = None /\ Known(u)
      /\ allPlayers' = [allPlayers EXCEPT ![u].password = new]
      /\ UNCHANGED <<server, online, enemyUsername, saving, file>>
  BY DEF Passwd, Serving
<1>2. /\ allPlayers[u] \in Records
      /\ allPlayers'[u] \in Records
      /\ allPlayers'[u].score = allPlayers[u].score
      /\ \A v \in Users : v # u => allPlayers'[v] = allPlayers[v]
  BY <1>1 DEF StoreInv, TypeOK, Known, Records
<1>3. \A v \in Users : Known(v)' <=> Known(v)
  BY <1>1, <1>2, StoreAssumption DEF StoreInv, TypeOK, Known, Records
<1>4. TypeOK'
  BY <1>1, <1>2, <1>3 DEF StoreInv, TypeOK
<1>5. SavedIsCurrent'
  BY <1>1, <1>2, <1>3 DEF StoreInv, SavedIsCurrent
<1> QED
  BY <1>1, <1>3, <1>4, <1>5 DEF StoreInv, AtMostOneFileLost, Bookkeeping

LEMMA StoreFinish ==
    ASSUME StoreInv, NEW u \in Users, NEW points \in 0..2, Finish(u, points)
    PROVE  StoreInv'
<1>1. /\ server = "up" /\ saving = None /\ Known(u)
      /\ allPlayers' = [allPlayers EXCEPT ![u].score = @ + points]
      /\ enemyUsername' = [enemyUsername EXCEPT ![u] = None]
      /\ UNCHANGED <<server, online>>
      /\ \/ saving' = u /\ file' = [file EXCEPT ![u] = Empty]
         \/ points = 0 /\ UNCHANGED <<saving, file>>
  BY DEF Finish, Serving, Score, Open
<1>2. /\ allPlayers[u] \in Records
      /\ allPlayers'[u] \in Records
      /\ allPlayers'[u].score = allPlayers[u].score + points
      /\ \A v \in Users : v # u => allPlayers'[v] = allPlayers[v]
  BY <1>1 DEF StoreInv, TypeOK, Known, Records
<1>3. \A v \in Users : Known(v)' <=> Known(v)
  BY <1>1, <1>2, StoreAssumption DEF StoreInv, TypeOK, Known, Records
<1>4. TypeOK'
  BY <1>1, <1>2, <1>3 DEF StoreInv, TypeOK
<1>5. SavedIsCurrent'
  <2>1. allPlayers[u].score \in Nat
    BY <1>2 DEF Records
  <2>2. \A v \in Users : v # u => file'[v] = file[v]
    BY <1>1 DEF StoreInv, TypeOK
  <2>3. \A v \in Users : v # saving
    BY <1>1, StoreAssumption
  <2>4. CASE points = 0 /\ UNCHANGED <<saving, file>>
    BY <1>1, <1>2, <1>3, <2>1, <2>3, <2>4 DEF StoreInv, SavedIsCurrent
  <2>5. CASE saving' = u
    BY <1>1, <1>2, <1>3, <2>2, <2>3, <2>5 DEF StoreInv, SavedIsCurrent
  <2> QED  BY <1>1, <2>4, <2>5
<1>6. Bookkeeping'
  BY <1>1, <1>2, <1>3, StoreAssumption DEF StoreInv, TypeOK, Bookkeeping, Known
<1> QED  BY <1>1, <1>4, <1>5, <1>6, LostWhileSaving DEF StoreInv

LEMMA StoreStop == ASSUME StoreInv, Stop PROVE StoreInv'
<1>1. /\ server' = "down" /\ online' = {} /\ saving' = None /\ file' = file
      /\ allPlayers' = [u \in Users |-> None]
      /\ enemyUsername' = [u \in Users |-> None]
  BY DEF Stop
<1>2. TypeOK'
  BY <1>1 DEF StoreInv, TypeOK
<1>3. SavedIsCurrent' /\ Bookkeeping'
  BY <1>1 DEF SavedIsCurrent, Bookkeeping
<1>4. AtMostOneFileLost'
  BY <1>1 DEF StoreInv, AtMostOneFileLost
<1> QED  BY <1>2, <1>3, <1>4 DEF StoreInv

LEMMA StoreRestart == ASSUME StoreInv, Restart PROVE StoreInv'
<1>1. /\ server = "down" /\ online = {} /\ saving = None
      /\ UNCHANGED <<online, enemyUsername, saving, file>>
  BY DEF StoreInv, Bookkeeping, Restart
<1>2. AtMostOneFileLost'
  BY <1>1 DEF StoreInv, AtMostOneFileLost
<1>3. CASE Load
  <2>1. TypeOK'
    BY <1>1, <1>3 DEF StoreInv, TypeOK, Load
  <2>2. SavedIsCurrent' /\ Bookkeeping'
    BY <1>1, <1>3 DEF Load, SavedIsCurrent, Bookkeeping, Known
  <2> QED  BY <1>2, <2>1, <2>2 DEF StoreInv
<1>4. CASE LoadFails
  <2>1. TypeOK'
    BY <1>1, <1>4 DEF StoreInv, TypeOK, LoadFails, Known
  <2>2. SavedIsCurrent' /\ Bookkeeping'
    BY <1>1, <1>4 DEF LoadFails, SavedIsCurrent, Bookkeeping
  <2> QED  BY <1>2, <2>1, <2>2 DEF StoreInv
<1> QED  BY <1>3, <1>4 DEF Restart

LEMMA StoreStep == StoreInv /\ [Next]_vars => StoreInv'
<1> SUFFICES ASSUME StoreInv, [Next]_vars PROVE StoreInv'
  OBVIOUS
<1>1. CASE Next
  BY <1>1, StoreAddUser, StoreSession, StorePasswd, StoreFinish, StoreWrite,
     StoreStop, StoreRestart DEF Next
<1>2. CASE UNCHANGED vars
  BY <1>2 DEF vars, StoreInv, TypeOK, SavedIsCurrent, AtMostOneFileLost,
     Bookkeeping, Known
<1> QED  BY <1>1, <1>2

-----------------------------------------------------------------------------
(***************************************************************************)
(* The invariants.                                                         *)
(***************************************************************************)

LEMMA StoreInvariant == Spec => []StoreInv
BY InitStore, StoreStep, PTL DEF Spec

\* Every player in memory and in a file is whole or absent, for every set of
\* users (loadAllPlayers and Player.cpp).
THEOREM StoreTypes == Spec => []TypeOK
BY StoreInvariant, PTL DEF StoreInv

\* No stop between two requests loses a score: memory and files agree on the
\* players and on their scores (saveToFile after ADDUSER, a win and a draw).
THEOREM ScoresSaved == Spec => []SavedIsCurrent
BY StoreInvariant, PTL DEF StoreInv

\* However often the server is stopped and started, at most one player's file
\* is lost, because a server that meets a lost file does not start.
THEOREM OneFileLost == Spec => []AtMostOneFileLost
BY StoreInvariant, PTL DEF StoreInv

-----------------------------------------------------------------------------
(***************************************************************************)
(* The ledger.                                                             *)
(***************************************************************************)

\* The account of a player in memory, and of a file while the server is down.
LEMMA AccountUp ==
    ASSUME StoreInv, server = "up", NEW u \in Users
    PROVE  /\ ~Known(u) => accounts[u] = None
           /\ Known(u) =>
                /\ accounts[u] = Promise!Account(allPlayers[u].password,
                     IF file[u] \in {None, Empty} THEN allPlayers[u].password
                                                  ELSE file[u].password,
                     allPlayers[u].score)
                /\ Promise!Exists(u)
<1>1. accounts[u] = AccountOf(u)
  BY DEF accounts
<1>2. CASE ~Known(u)
  BY <1>1, <1>2 DEF AccountOf
<1>3. CASE Known(u)
  <2> DEFINE kept == IF file[u] \in {None, Empty} THEN allPlayers[u].password
                                                  ELSE file[u].password
  <2>1. allPlayers[u] \in Records
    BY <1>3 DEF StoreInv, TypeOK, Known
  <2>2. kept \in Passwords
    BY <2>1 DEF StoreInv, TypeOK, Records
  <2>3. accounts[u] = [password |-> allPlayers[u].password, kept |-> kept,
                       score |-> allPlayers[u].score]
    BY <1>1, <1>3 DEF AccountOf
  <2>4. accounts[u] \in [password : Passwords, kept : Passwords, score : Nat]
    BY <2>1, <2>2, <2>3 DEF Records
  <2>5. accounts[u] \notin {None, Lost}
    BY <2>4, StoreAssumption
  <2> QED  BY <1>3, <2>3, <2>5 DEF Promise!Account, Promise!Exists
<1> QED  BY <1>2, <1>3

LEMMA LedgerInit == Init => Promise!Init
BY DEF Init, Promise!Init, accounts, AccountOf, Known

LEMMA LedgerAddUser ==
    ASSUME StoreInv, NEW u \in Users, NEW password \in Passwords,
           AddUser(u, password), StoreInv'
    PROVE  Promise!Next
<1>1. /\ server = "up" /\ server' = "up" /\ ~Known(u)
      /\ allPlayers' = [allPlayers EXCEPT ![u] = Player(password, 0)]
      /\ file' = [file EXCEPT ![u] = Empty]
  BY DEF AddUser, Serving, Open
<1>2. \A v \in Users : v # u => allPlayers'[v] = allPlayers[v] /\ file'[v] = file[v]
  BY <1>1 DEF StoreInv, TypeOK
<1>3. /\ allPlayers'[u] = Player(password, 0) /\ file'[u] = Empty
      /\ Known(u)'
  BY <1>1, StoreAssumption DEF StoreInv, TypeOK, Player, Known
<1>4. accounts[u] = None
  BY <1>1, AccountUp
<1>5. AccountOf(u)' = Promise!Account(password, password, 0)
  BY <1>1, <1>3 DEF AccountOf, Player, Promise!Account
<1>6. \A v \in Users : v # u => AccountOf(v)' = AccountOf(v)
  BY <1>1, <1>2 DEF AccountOf, Known
<1>7. accounts' = [accounts EXCEPT ![u] = Promise!Account(password, password, 0)]
  BY <1>5, <1>6 DEF accounts
<1> QED  BY <1>4, <1>7 DEF Promise!Next, Promise!Create

LEMMA LedgerPasswd ==
    ASSUME StoreInv, NEW u \in Users, NEW old \in Passwords, NEW new \in Passwords,
           Passwd(u, old, new), StoreInv'
    PROVE  Promise!Next
<1>1. /\ server = "up" /\ server' = "up" /\ saving = None /\ file' = file
      /\ allPlayers' = [allPlayers EXCEPT ![u].password = new]
      /\ Known(u)
  BY DEF StoreInv, TypeOK, Passwd, Serving
<1>2. \A v \in Users : v # u => allPlayers'[v] = allPlayers[v]
  BY <1>1 DEF StoreInv, TypeOK
<1>3. /\ allPlayers[u] \in Records /\ allPlayers'[u] \in Records
      /\ allPlayers'[u].password = new
      /\ allPlayers'[u].score = allPlayers[u].score
      /\ Known(u)'
  BY <1>1, StoreAssumption DEF StoreInv, TypeOK, Known, Records
<1>4. file[u] \notin {None, Empty}
  BY <1>1, StoreAssumption DEF StoreInv, SavedIsCurrent
<1>5. /\ Promise!Exists(u)
      /\ accounts[u] = Promise!Account(allPlayers[u].password, file[u].password,
                                       allPlayers[u].score)
  BY <1>1, <1>4, AccountUp
<1>6. AccountOf(u)' = Promise!Account(new, accounts[u].kept, accounts[u].score)
  BY <1>1, <1>3, <1>4, <1>5 DEF AccountOf, Promise!Account
<1>7. \A v \in Users : v # u => AccountOf(v)' = AccountOf(v)
  BY <1>1, <1>2 DEF AccountOf, Known
<1>8. accounts' = [accounts EXCEPT ![u] = Promise!Account(new, @.kept, @.score)]
  BY <1>6, <1>7 DEF accounts
<1> QED  BY <1>5, <1>8 DEF Promise!Next, Promise!ChangePassword

LEMMA LedgerFinish ==
    ASSUME StoreInv, NEW u \in Users, NEW points \in 0..2, Finish(u, points), StoreInv'
    PROVE  Promise!Next \/ UNCHANGED accounts
<1>1. /\ server = "up" /\ server' = "up" /\ saving = None
      /\ allPlayers' = [allPlayers EXCEPT ![u].score = @ + points]
      /\ Known(u)
      /\ \/ points # 0 /\ file' = [file EXCEPT ![u] = Empty]
         \/ points = 0 /\ file' = file
  BY DEF StoreInv, TypeOK, Finish, Serving, Score, Open
<1>2. \A v \in Users : v # u => allPlayers'[v] = allPlayers[v] /\ file'[v] = file[v]
  BY <1>1 DEF StoreInv, TypeOK
<1>3. /\ allPlayers[u] \in Records /\ allPlayers'[u] \in Records
      /\ allPlayers'[u].password = allPlayers[u].password
      /\ allPlayers'[u].score = allPlayers[u].score + points
      /\ Known(u)'
  BY <1>1, StoreAssumption DEF StoreInv, TypeOK, Known, Records
<1>4. \A v \in Users : v # u => AccountOf(v)' = AccountOf(v)
  BY <1>1, <1>2 DEF AccountOf, Known
<1>5. CASE points # 0
  <2>1. file'[u] = Empty
    BY <1>1, <1>5 DEF StoreInv, TypeOK
  <2> DEFINE kept == IF file[u] \in {None, Empty} THEN allPlayers[u].password
                                                  ELSE file[u].password
  <2>0. /\ Promise!Exists(u)
        /\ accounts[u] = Promise!Account(allPlayers[u].password, kept,
                                         allPlayers[u].score)
    BY <1>1, AccountUp
  <2> HIDE DEF kept
  <2>2. /\ Promise!Exists(u)
        /\ accounts[u].password = allPlayers[u].password
        /\ accounts[u].score = allPlayers[u].score
    BY <2>0 DEF Promise!Account
  <2>3. AccountOf(u)' = Promise!Account(accounts[u].password, accounts[u].password,
                                        accounts[u].score + points)
    BY <1>1, <1>3, <2>1, <2>2 DEF AccountOf, Promise!Account
  <2>4. accounts' = [accounts EXCEPT ![u] =
           Promise!Account(@.password, @.password, @.score + points)]
    BY <1>4, <2>3 DEF accounts
  <2>5. points \in {1, 2}
    BY <1>5
  <2> QED  BY <2>2, <2>4, <2>5 DEF Promise!Next, Promise!Award
<1>6. CASE points = 0
  <2>1. allPlayers'[u].score = allPlayers[u].score
    BY <1>3, <1>6 DEF Records
  <2>2. AccountOf(u)' = AccountOf(u)
    BY <1>1, <1>3, <1>6, <2>1 DEF AccountOf
  <2>3. accounts' = accounts
    BY <1>4, <2>2 DEF accounts
  <2> QED  BY <2>3
<1> QED  BY <1>5, <1>6

\* The text that is written is the one in memory, so the account stays.
LEMMA LedgerWrite == ASSUME StoreInv, Write, StoreInv' PROVE UNCHANGED accounts
<1>0. PICK u \in Users : u = saving
  BY DEF StoreInv, TypeOK, Write
<1>1. /\ server = "up" /\ server' = "up" /\ Known(u) /\ allPlayers' = allPlayers
      /\ file' = [file EXCEPT ![u] = allPlayers[u]]
  BY <1>0 DEF StoreInv, TypeOK, Bookkeeping, Write
<1>2. file[u] = Empty /\ allPlayers[u] \in Records
  BY <1>0, <1>1, StoreAssumption DEF StoreInv, TypeOK, Bookkeeping, Known
<1>3. file'[u] = allPlayers[u] /\ file'[u] \notin {None, Empty}
  BY <1>1, <1>2, StoreAssumption DEF StoreInv, TypeOK, Records
<1>4. \A v \in Users : v # u => file'[v] = file[v]
  BY <1>1 DEF StoreInv, TypeOK
<1>5. AccountOf(u)' = AccountOf(u)
  BY <1>1, <1>2, <1>3 DEF AccountOf, Known
<1>6. \A v \in Users : v # u => AccountOf(v)' = AccountOf(v)
  BY <1>1, <1>4 DEF AccountOf, Known
<1> QED  BY <1>5, <1>6 DEF accounts

LEMMA LedgerStop == ASSUME StoreInv, Stop, StoreInv' PROVE Promise!Next
<1>1. server = "up" /\ server' = "down" /\ file' = file
  BY DEF Stop
<1>2. ASSUME NEW u \in Users, u # saving
      PROVE  accounts'[u] = Promise!AfterStop(u)
  <2>1. accounts'[u] = AccountOf(u)'
    BY DEF accounts
  <2>2. CASE ~Known(u)
    <3>1. file[u] = None /\ accounts[u] = None
      BY <1>1, <1>2, <2>2, AccountUp DEF StoreInv, SavedIsCurrent
    <3>2. AccountOf(u)' = None
      BY <1>1, <3>1, StoreAssumption DEF AccountOf
    <3>3. Promise!AfterStop(u) = None
      BY <3>1 DEF Promise!AfterStop, Promise!Exists
    <3> QED  BY <2>1, <3>2, <3>3
  <2>3. CASE Known(u)
    <3>1. /\ file[u] \notin {None, Empty}
          /\ file[u].score = allPlayers[u].score
      BY <1>1, <1>2, <2>3 DEF StoreInv, SavedIsCurrent
    <3>2. /\ Promise!Exists(u)
          /\ accounts[u] = Promise!Account(allPlayers[u].password,
                               file[u].password, allPlayers[u].score)
      BY <1>1, <2>3, <3>1, AccountUp
    <3>3. AccountOf(u)' = Promise!Account(file[u].password, file[u].password,
                                          file[u].score)
      BY <1>1, <3>1 DEF AccountOf, Promise!Account
    <3> QED
      BY <2>1, <3>1, <3>2, <3>3 DEF Promise!AfterStop, Promise!Account
  <2> QED  BY <2>2, <2>3
<1>3. CASE saving = None
  <2>1. \A u \in Users : accounts'[u] = Promise!AfterStop(u)
    BY <1>2, <1>3, StoreAssumption
  <2>2. accounts' = [u \in Users |-> Promise!AfterStop(u)]
    BY <2>1 DEF accounts
  <2> QED  BY <2>2 DEF Promise!Next, Promise!Stop
<1>4. CASE saving # None
  <2>1. saving \in Users /\ file[saving] = Empty /\ Known(saving)
    BY <1>4 DEF StoreInv, TypeOK, Bookkeeping
  <2>2. Promise!Exists(saving)
    BY <1>1, <2>1, AccountUp
  <2>3. accounts'[saving] = Lost
    BY <1>1, <2>1, StoreAssumption DEF accounts, AccountOf
  <2>4. accounts' = [u \in Users |-> IF u = saving THEN Lost
                                                 ELSE Promise!AfterStop(u)]
    BY <1>2, <2>3 DEF accounts
  <2> QED  BY <2>1, <2>2, <2>4 DEF Promise!Next, Promise!Stop
<1> QED  BY <1>3, <1>4

LEMMA LedgerRestart == ASSUME StoreInv, Restart, StoreInv' PROVE UNCHANGED accounts
<1>1. server = "down" /\ file' = file
  BY DEF Restart
<1>2. CASE Load
  <2>1. /\ server' = "up" /\ allPlayers' = file
        /\ \A u \in Users : file[u] # Empty
    BY <1>2 DEF Load
  <2>2. \A u \in Users : AccountOf(u)' = AccountOf(u)
    BY <1>1, <2>1 DEF AccountOf, Known
  <2> QED  BY <2>2 DEF accounts
<1>3. CASE LoadFails
  <2>1. server' = "broken"
    BY <1>3 DEF LoadFails
  <2> QED  BY <1>1, <2>1 DEF accounts, AccountOf, Known
<1> QED  BY <1>2, <1>3 DEF Restart

LEMMA LedgerSession ==
    ASSUME NEW u \in Users,
           \/ \E password \in Passwords : Login(u, password)
           \/ Logout(u)
           \/ \E v \in Users : Start(u, v)
    PROVE  UNCHANGED accounts
BY DEF Login, Logout, Start, accounts, AccountOf, Known

LEMMA LedgerStep ==
    StoreInv /\ StoreInv' /\ [Next]_vars => [Promise!Next]_accounts
<1> SUFFICES ASSUME StoreInv, StoreInv', [Next]_vars PROVE [Promise!Next]_accounts
  OBVIOUS
<1>1. CASE Next
  BY <1>1, LedgerAddUser, LedgerSession, LedgerPasswd, LedgerFinish, LedgerWrite,
     LedgerStop, LedgerRestart DEF Next
<1>2. CASE UNCHANGED vars
  BY <1>2 DEF vars, accounts, AccountOf, Known
<1> QED  BY <1>1, <1>2

\* Memory and files together keep the ledger's promise, for every set of users
\* and passwords: a stop at any point of a request loses at most the account
\* that is being saved, and passwords changed since the last save.
THEOREM StoreImplementsLedger == Spec => ImplementsLedger
BY StoreInvariant, LedgerInit, LedgerStep, PTL DEF Spec, ImplementsLedger, Promise!Spec
=============================================================================

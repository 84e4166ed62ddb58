------------------------- MODULE MatchmakingProofs --------------------------
(***************************************************************************)
(* Theorems about Matchmaking, for every set of players and all bounds:    *)
(* its types, that the server's table knows the matches, whatever users    *)
(* do, and, as long as users are orderly, that two players agree on their  *)
(* match, that the handshake implements Pairing, and that the main thread  *)
(* meets no request it cannot serve.                                       *)
(***************************************************************************)
EXTENDS Matchmaking, TLAPS

-----------------------------------------------------------------------------
(***************************************************************************)
(* Queues.                                                                 *)
(***************************************************************************)

LEMMA Taken ==
    ASSUME NEW S, NEW s \in Seq(S), s # <<>>
    PROVE  /\ Head(s) \in S /\ Head(s) = s[1]
           /\ Tail(s) \in Seq(S)
           /\ Len(s) \in Nat \ {0} /\ Len(Tail(s)) = Len(s) - 1
           /\ \A i \in 1..Len(Tail(s)) : Tail(s)[i] = s[i + 1]
OBVIOUS

LEMMA Put ==
    ASSUME NEW S, NEW s \in Seq(S), NEW m \in S
    PROVE  /\ s \o <<m>> \in Seq(S) /\ Append(s, m) \in Seq(S)
           /\ Len(s) \in Nat /\ Len(s \o <<m>>) = Len(s) + 1
           /\ \A i \in 1..Len(s) : (s \o <<m>>)[i] = s[i]
           /\ (s \o <<m>>)[Len(s) + 1] = m
OBVIOUS

LEMMA WiderSeq ==
    ASSUME NEW S, NEW T, S \subseteq T, NEW s \in Seq(S)
    PROVE  s \in Seq(T)
OBVIOUS

-----------------------------------------------------------------------------
(***************************************************************************)
(* What the table says once a queue of requests is served.                 *)
(***************************************************************************)

OfMatch(m) == m.type \in {"START", "FINISH"}
Entry(m) == IF m.type = "START" THEN m.who ELSE NoOne

\* The entry e becomes v: by the last START or FINISH of s, or without any.
ToldBy(s, e, v) ==
    \/ e = v /\ \A i \in 1..Len(s) : ~OfMatch(s[i])
    \/ \E i \in 1..Len(s) :
          /\ OfMatch(s[i]) /\ Entry(s[i]) = v
          /\ \A k \in 1..Len(s) : k > i => ~OfMatch(s[k])

LEMMA ToldNothing == ASSUME NEW e, NEW v, ToldBy(<<>>, e, v) PROVE e = v
BY DEF ToldBy

LEMMA ToldOther ==
    ASSUME NEW S, NEW s \in Seq(S), NEW m \in S, ~OfMatch(m),
           NEW e, NEW v, ToldBy(s, e, v)
    PROVE  ToldBy(s \o <<m>>, e, v)
<1> DEFINE t == s \o <<m>>
<1>1. /\ Len(s) \in Nat /\ Len(t) = Len(s) + 1
      /\ \A i \in 1..Len(s) : t[i] = s[i]
      /\ t[Len(s) + 1] = m
  BY Put
<1> HIDE DEF t
<1>2. \A k \in 1..Len(t) : k \in 1..Len(s) \/ t[k] = m
  BY <1>1
<1>3. CASE e = v /\ \A i \in 1..Len(s) : ~OfMatch(s[i])
  BY <1>1, <1>2, <1>3 DEF ToldBy
<1>4. ASSUME NEW i \in 1..Len(s), OfMatch(s[i]), Entry(s[i]) = v,
             \A k \in 1..Len(s) : k > i => ~OfMatch(s[k])
      PROVE  ToldBy(t, e, v)
  <2>1. i \in 1..Len(t) /\ OfMatch(t[i]) /\ Entry(t[i]) = v
    BY <1>1, <1>4
  <2>2. \A k \in 1..Len(t) : k > i => ~OfMatch(t[k])
    BY <1>1, <1>2, <1>4
  <2> QED  BY <2>1, <2>2 DEF ToldBy
<1> QED  BY <1>3, <1>4 DEF ToldBy, t

LEMMA ToldLast ==
    ASSUME NEW S, NEW s \in Seq(S), NEW m \in S, OfMatch(m), NEW e
    PROVE  ToldBy(s \o <<m>>, e, Entry(m))
<1> DEFINE t == s \o <<m>>
<1>1. /\ Len(s) \in Nat /\ Len(t) = Len(s) + 1
      /\ t[Len(s) + 1] = m
  BY Put
<1> HIDE DEF t
<1>2. /\ Len(s) + 1 \in 1..Len(t)
      /\ \A k \in 1..Len(t) : ~(k > Len(s) + 1)
  BY <1>1
<1> QED  BY <1>1, <1>2 DEF ToldBy, t

\* Serving the first request leaves what the table becomes.
LEMMA ToldServed ==
    ASSUME NEW S, NEW s \in Seq(S), s # <<>>, NEW e, NEW f, NEW v,
           ToldBy(s, e, v),
           OfMatch(Head(s)) => f = Entry(Head(s)),
           ~OfMatch(Head(s)) => f = e
    PROVE  ToldBy(Tail(s), f, v)
<1> DEFINE t == Tail(s)
<1>1. /\ Head(s) = s[1]
      /\ Len(s) \in Nat \ {0} /\ Len(t) = Len(s) - 1
      /\ \A i \in 1..Len(t) : t[i] = s[i + 1]
  BY Taken
<1> HIDE DEF t
<1>2. \A i \in 1..Len(t) : i + 1 \in 1..Len(s)
  BY <1>1
<1>3. CASE e = v /\ \A i \in 1..Len(s) : ~OfMatch(s[i])
  <2>1. ~OfMatch(Head(s))
    BY <1>1, <1>3
  <2>2. \A i \in 1..Len(t) : ~OfMatch(t[i])
    BY <1>1, <1>2, <1>3
  <2> QED  BY <1>3, <2>1, <2>2 DEF ToldBy, t
<1>4. ASSUME NEW i \in 1..Len(s), OfMatch(s[i]), Entry(s[i]) = v,
             \A k \in 1..Len(s) : k > i => ~OfMatch(s[k])
      PROVE  ToldBy(t, f, v)
  <2>1. CASE i = 1
    <3>1. f = v
      BY <1>1, <1>4, <2>1
    <3>2. \A k \in 1..Len(t) : k + 1 > i
      BY <1>1, <2>1
    <3>3. \A k \in 1..Len(t) : ~OfMatch(t[k])
      BY <1>1, <1>2, <1>4, <3>2
    <3> QED  BY <3>1, <3>3 DEF ToldBy
  <2>2. CASE i # 1
    <3>1. i - 1 \in 1..Len(t) /\ (i - 1) + 1 = i
      BY <1>1, <2>2
    <3>2. OfMatch(t[i - 1]) /\ Entry(t[i - 1]) = v
      BY <1>1, <1>4, <3>1
    <3>3. \A k \in 1..Len(t) : k > i - 1 => k + 1 > i
      BY <1>1
    <3>4. \A k \in 1..Len(t) : k > i - 1 => ~OfMatch(t[k])
      BY <1>1, <1>2, <1>4, <3>3
    <3> QED  BY <3>1, <3>2, <3>4 DEF ToldBy
  <2> QED  BY <2>1, <2>2
<1> QED  BY <1>3, <1>4 DEF ToldBy, t

-----------------------------------------------------------------------------
(***************************************************************************)
(* The inductive invariant.                                                *)
(***************************************************************************)

\* Who is named in a message: only players invite, and are played with.
ToMainMsgs ==
    {m \in MessagesOf(Requests) : m.type = "START" => m.who \in Players \cup {NoOne}}
FromMainMsgs ==
    {m \in MessagesOf(Responses) :
        m.type \in {"BEGINREQ", "BEGINRESP"} => m.who \in Players}

ServerStates == {"up", "blocked", "sigpipe", "bad_read", "no_username",
                 "no_rival", "empty_reply"}

Sockets ==
    /\ ports \in Nat
    /\ open \subseteq (0..ports) \X Players
    /\ joined \subseteq (0..ports) \X Players
    /\ left \subseteq (0..ports) \X Players

Typing ==
    /\ client \in [Players -> Clients]
    /\ \A p \in Players : PollsOpenDescriptor(p) /\ client[p].port \in 0..ports
    /\ Sockets
    /\ toMain \in [Players -> Seq(ToMainMsgs)]
    /\ fromMain \in [Players -> Seq(FromMainMsgs)]
    /\ isOnline \subseteq Players
    /\ enemyUsername \in [Players -> Players \cup {NoOne}]
    /\ server \in ServerStates
    /\ fresh \subseteq Players /\ orderly \in BOOLEAN
    /\ typed \in Nat

\* The requests s, served on the entry e, leave what the client r knows.
Told(s, e, r) ==
    /\ r.poll = "none" => ToldBy(s, e, NoOne)
    /\ (r.status = "on_match" /\ r.poll = "conn" /\ ~r.accepting)
          => ToldBy(s, e, r.rival)

Table ==
    server = "up" =>
        \A p \in Players : client[p].status # "gone" =>
            Told(toMain[p], enemyUsername[p], client[p])

Inv == Typing /\ Table

LEMMA NamesFacts ==
    /\ Players \subseteq Names /\ NoOne \notin Players
    /\ \A m \in ToMainMsgs : m \in MessagesOf(Requests)
    /\ \A m \in FromMainMsgs : m \in MessagesOf(Responses)
BY ConstantsAssumption DEF Names, ToMainMsgs, FromMainMsgs

LEMMA InvImpliesTypeOK == Inv => TypeOK
<1> SUFFICES ASSUME Inv PROVE TypeOK
  OBVIOUS
<1>1. toMain \in [Players -> Seq(MessagesOf(Requests))]
  <2>1. \A p \in Players : toMain[p] \in Seq(MessagesOf(Requests))
    BY WiderSeq, NamesFacts DEF Inv, Typing, ToMainMsgs
  <2> QED  BY <2>1 DEF Inv, Typing
<1>2. fromMain \in [Players -> Seq(MessagesOf(Responses))]
  <2>1. \A p \in Players : fromMain[p] \in Seq(MessagesOf(Responses))
    BY WiderSeq, NamesFacts DEF Inv, Typing, FromMainMsgs
  <2> QED  BY <2>1 DEF Inv, Typing
<1>3. orderly \in BOOLEAN
  BY DEF Inv, Typing
<1>4. /\ client \in [Players -> Clients]
      /\ \A p \in Players : PollsOpenDescriptor(p)
      /\ ports \in Nat
      /\ open \cup joined \cup left \subseteq (0..ports) \X Players
      /\ isOnline \subseteq Players
      /\ enemyUsername \in [Players -> Players \cup {NoOne}]
      /\ server \in ServerStates
      /\ fresh \subseteq Players
      /\ typed \in Nat
  BY DEF Inv, Typing, Sockets
<1> QED  BY <1>1, <1>2, <1>3, <1>4, Zenon DEF TypeOK, ServerStates

LEMMA InvImpliesTable == Inv => TableKnowsMatches
<1> SUFFICES ASSUME Inv, NEW p \in Players, server = "up", toMain[p] = <<>>
             PROVE  /\ (client[p].status = "on_match" /\ client[p].poll = "conn"
                          /\ ~client[p].accepting) => enemyUsername[p] = client[p].rival
                    /\ (client[p].status \in {"logged", "waiting"}
                          /\ client[p].poll = "none") => enemyUsername[p] = NoOne
  BY DEF TableKnowsMatches
<1>1. client[p].status # "gone" =>
         Told(<<>>, enemyUsername[p], client[p])
  BY DEF Inv, Table
<1> QED  BY <1>1, ToldNothing DEF Told

LEMMA InitInv == Init => Inv
<1> SUFFICES ASSUME Init PROVE Inv
  OBVIOUS
<1>1. /\ client \in [Players -> Clients]
      /\ \A p \in Players : /\ client[p].poll = "none" /\ client[p].port = 0
                            /\ client[p].status = "logged"
  BY DEF Init, Clients, Statuses
<1>2. Typing
  <2>1. Sockets /\ \A p \in Players : PollsOpenDescriptor(p) /\ client[p].port \in 0..ports
    BY <1>1 DEF Init, Sockets, PollsOpenDescriptor
  <2>2. /\ toMain \in [Players -> Seq(ToMainMsgs)]
        /\ fromMain \in [Players -> Seq(FromMainMsgs)]
    BY DEF Init
  <2>3. /\ isOnline \subseteq Players /\ fresh \subseteq Players
        /\ enemyUsername \in [Players -> Players \cup {NoOne}]
        /\ server \in ServerStates /\ typed \in Nat
    BY DEF Init, ServerStates
  <2>4. orderly \in BOOLEAN
    BY DEF Init
  <2> QED  BY <1>1, <2>1, <2>2, <2>3, <2>4 DEF Typing
<1>3. ASSUME NEW p \in Players PROVE Told(toMain[p], enemyUsername[p], client[p])
  BY <1>1 DEF Init, Told, ToldBy
<1> QED  BY <1>2, <1>3 DEF Inv, Table

-----------------------------------------------------------------------------
(***************************************************************************)
(* Steps of a client: the client p becomes r, its requests s.              *)
(***************************************************************************)

LEMMA ClientStep ==
    ASSUME Inv, server = "up", NEW p \in Players, NEW r \in Clients,
           NEW s \in Seq(ToMainMsgs),
           client' = [client EXCEPT ![p] = r],
           toMain' = [toMain EXCEPT ![p] = s],
           Sockets', ports' >= ports, r.port \in 0..ports',
           r.poll # "none" => <<r.port, p>> \in open',
           \A q \in Players \ {p} : \A n : <<n, q>> \in open => <<n, q>> \in open',
           fromMain' \in [Players -> Seq(FromMainMsgs)],
           UNCHANGED table, server' \in ServerStates,
           fresh' \subseteq Players, orderly' \in BOOLEAN, typed' \in Nat,
           r.status # "gone" => Told(s, enemyUsername[p], r)
    PROVE  Inv'
<1>1. client \in [Players -> Clients] /\ toMain \in [Players -> Seq(ToMainMsgs)]
  BY DEF Inv, Typing
<1>2. /\ client' \in [Players -> Clients] /\ toMain' \in [Players -> Seq(ToMainMsgs)]
      /\ client'[p] = r /\ toMain'[p] = s
      /\ \A q \in Players \ {p} : client'[q] = client[q] /\ toMain'[q] = toMain[q]
  BY <1>1
<1>3. ASSUME NEW q \in Players
      PROVE  /\ client'[q].port \in 0..ports'
             /\ client'[q].poll # "none" => <<client'[q].port, q>> \in open'
  <2>1. CASE q = p
    BY <1>2, <2>1
  <2>2. CASE q # p
    <3>1. /\ client[q].port \in 0..ports
          /\ client[q].poll # "none" => <<client[q].port, q>> \in open
      BY DEF Inv, Typing, PollsOpenDescriptor
    <3>2. ports \in Nat /\ ports' \in Nat
      BY DEF Inv, Typing, Sockets
    <3> QED  BY <1>2, <2>2, <3>1, <3>2
  <2> QED  BY <2>1, <2>2
<1>4. \A q \in Players : PollsOpenDescriptor(q)' /\ client'[q].port \in 0..ports'
  BY <1>3 DEF PollsOpenDescriptor
<1>5. /\ isOnline' \subseteq Players
      /\ enemyUsername' \in [Players -> Players \cup {NoOne}]
  BY DEF Inv, Typing, table
<1>6. orderly' \in BOOLEAN
  OBVIOUS
<1>7. Typing'
  BY <1>2, <1>4, <1>5, <1>6, Zenon DEF Typing
<1>8. ASSUME NEW q \in Players, client'[q].status # "gone"
      PROVE  Told(toMain'[q], enemyUsername'[q], client'[q])
  <2>1. enemyUsername' = enemyUsername
    BY DEF table
  <2>2. client[q].status # "gone" => Told(toMain[q], enemyUsername[q], client[q])
    BY DEF Inv, Table
  <2>3. CASE q = p
    BY <1>2, <1>8, <2>1, <2>3
  <2>4. CASE q # p
    BY <1>2, <1>8, <2>1, <2>2, <2>4
  <2> QED  BY <2>3, <2>4
<1>9. Table'
  BY <1>8 DEF Table
<1> QED  BY <1>7, <1>9 DEF Inv

\* The step leaves the match of p, its descriptor and its port alone.
SameMatch(r, old) ==
    /\ r.poll = old.poll /\ r.port = old.port
    /\ r.accepting = old.accepting /\ r.rival = old.rival
    /\ r.status = "on_match" => old.status = "on_match"

\* What p has told the server before it says something else, if it does.
Says(p, s) ==
    \/ s = toMain[p]
    \/ \E m \in ToMainMsgs : ~OfMatch(m) /\ s = toMain[p] \o <<m>>

LEMMA SmallStep ==
    ASSUME Inv, server = "up", NEW p \in Players, NEW r \in Clients, NEW s,
           client[p].status # "gone",
           SameMatch(r, client[p]), Says(p, s),
           client' = [client EXCEPT ![p] = r],
           toMain' = [toMain EXCEPT ![p] = s],
           UNCHANGED <<sockets, table, left>>,
           fromMain' \in [Players -> Seq(FromMainMsgs)],
           server' \in ServerStates,
           fresh' \subseteq Players, orderly' \in BOOLEAN, typed' \in Nat
    PROVE  Inv'
<1>1. toMain[p] \in Seq(ToMainMsgs)
  BY DEF Inv, Typing
<1>2. Told(toMain[p], enemyUsername[p], client[p])
  BY DEF Inv, Table
<1>3. /\ s \in Seq(ToMainMsgs)
      /\ \A v : ToldBy(toMain[p], enemyUsername[p], v)
                  => ToldBy(s, enemyUsername[p], v)
  <2>1. CASE s = toMain[p]
    BY <1>1, <2>1
  <2>2. ASSUME NEW m \in ToMainMsgs, ~OfMatch(m), s = toMain[p] \o <<m>>
        PROVE  /\ s \in Seq(ToMainMsgs)
               /\ \A v : ToldBy(toMain[p], enemyUsername[p], v)
                           => ToldBy(s, enemyUsername[p], v)
    BY <1>1, <2>2, Put, ToldOther
  <2> QED  BY <2>1, <2>2 DEF Says
<1>5. Told(s, enemyUsername[p], r)
  BY <1>2, <1>3 DEF SameMatch, Told
<1>6. Sockets' /\ ports' >= ports
  BY DEF Inv, Typing, Sockets, sockets
<1>7. /\ r.port \in 0..ports'
      /\ r.poll # "none" => <<r.port, p>> \in open'
  BY DEF Inv, Typing, PollsOpenDescriptor, sockets, SameMatch
<1>8. UNCHANGED table /\ open' = open
  BY DEF sockets
<1>9. orderly' \in BOOLEAN
  OBVIOUS
<1> QED  BY <1>3, <1>5, <1>6, <1>7, <1>8, <1>9, ClientStep

-----------------------------------------------------------------------------
(***************************************************************************)
(* What users type.                                                        *)
(***************************************************************************)

LEMMA MessageFacts ==
    ASSUME NEW type \in Requests, NEW who \in Names \cup {NoOne},
           NEW ok \in BOOLEAN, NEW port \in Nat, type # "START"
    PROVE  /\ Msg(type, who, ok, port) \in ToMainMsgs
           /\ Msg(type, who, ok, port).type = type
BY DEF Msg, ToMainMsgs, MessagesOf

LEMMA TypedStep ==
    ASSUME Inv, NEW p \in Players, NEW statuses, NEW inOrder \in BOOLEAN,
           NEW m \in ToMainMsgs, ~OfMatch(m), "gone" \notin statuses,
           Type(p, statuses, m, inOrder),
           NEW r \in Clients, SameMatch(r, client[p]),
           client' = [client EXCEPT ![p] = r], fresh' \subseteq Players
    PROVE  Inv'
<1>1. /\ server = "up" /\ client[p].status # "gone"
      /\ toMain' = [toMain EXCEPT ![p] = toMain[p] \o <<m>>]
      /\ UNCHANGED <<sockets, fromMain, table, server, left>>
      /\ typed' = typed + 1
  BY DEF Type, Send
<1>2. orderly' \in BOOLEAN
  <2>1. orderly' = (orderly /\ inOrder /\ ~Awaiting(p))
    BY DEF Type
  <2> QED  BY <2>1, Zenon
<1>3. Says(p, toMain[p] \o <<m>>)
  BY DEF Says
<1>4. /\ fromMain' \in [Players -> Seq(FromMainMsgs)]
      /\ server' \in ServerStates /\ typed' \in Nat
  BY <1>1 DEF Inv, Typing
<1> QED  BY <1>1, <1>2, <1>3, <1>4, SmallStep

LEMMA BeginInv ==
    ASSUME Inv, NEW p \in Players, NEW q \in Names, Begin(p, q) PROVE Inv'
<1> DEFINE r == [client[p] EXCEPT !.status = "waiting", !.inviteTo = q]
           m == Plain("BEGINREQ", q)
<1>1. client \in [Players -> Clients] /\ fresh \subseteq Players
  BY DEF Inv, Typing
<1>2. m \in ToMainMsgs /\ ~OfMatch(m)
  BY MessageFacts DEF Plain, Requests, OfMatch
<1>3. client[p].status = "logged"
  BY DEF Begin, Type
<1>4. r \in Clients /\ SameMatch(r, client[p])
  BY <1>1 DEF Clients, Statuses, SameMatch
<1>5. client' = [client EXCEPT ![p] = r] /\ fresh' \subseteq Players
  BY <1>1 DEF Begin
<1>6. Type(p, {"logged"}, m, TRUE)
  BY DEF Begin
<1> HIDE DEF r, m
<1> QED  BY <1>2, <1>4, <1>5, <1>6, TypedStep

LEMMA InviteInv ==
    ASSUME Inv, NEW p \in Players, NEW accept \in BOOLEAN, Invite(p, accept)
    PROVE  Inv'
<1> DEFINE from == client[p].inviteFrom
           r == [client[p] EXCEPT !.status = IF accept THEN "waiting" ELSE @]
           m == Msg("BEGINRESP", from, accept, 0)
<1>1. client \in [Players -> Clients] /\ fresh \subseteq Players
  BY DEF Inv, Typing
<1>2. from \in Players
  BY <1>1 DEF Clients, Invite
<1>3. m \in ToMainMsgs /\ ~OfMatch(m)
  BY <1>2, MessageFacts, NamesFacts DEF Requests, OfMatch
<1>4. r \in Clients /\ SameMatch(r, client[p])
  BY <1>1 DEF Clients, Statuses, SameMatch
<1>5. client' = [client EXCEPT ![p] = r] /\ fresh' \subseteq Players
  BY <1>1 DEF Invite
<1>6. Type(p, {"logged"}, m, p \in fresh) /\ (p \in fresh) \in BOOLEAN
  BY DEF Invite
<1> HIDE DEF r, m
<1> QED  BY <1>3, <1>4, <1>5, <1>6, TypedStep

LEMMA CancelInv ==
    ASSUME Inv, NEW p \in Players, Cancel(p) PROVE Inv'
<1> DEFINE to == client[p].inviteTo
           r == [client[p] EXCEPT !.status = "logged", !.inviteTo = NoOne]
           m == Plain("CANCEL", to)
<1>1. client \in [Players -> Clients] /\ fresh \subseteq Players
  BY DEF Inv, Typing
<1>2. to \in Names \cup {NoOne}
  BY <1>1 DEF Clients
<1>3. m \in ToMainMsgs /\ ~OfMatch(m)
  BY <1>2, MessageFacts DEF Plain, Requests, OfMatch
<1>4. r \in Clients /\ SameMatch(r, client[p])
  BY <1>1 DEF Clients, Statuses, SameMatch
<1>5. client' = [client EXCEPT ![p] = r] /\ fresh' \subseteq Players
  BY <1>1 DEF Cancel
<1>6. Type(p, {"waiting"}, m, FALSE)
  BY DEF Cancel
<1> HIDE DEF r, m
<1> QED  BY <1>3, <1>4, <1>5, <1>6, TypedStep

LEMMA LeaveInv ==
    ASSUME Inv, NEW p \in Players, Leave(p) PROVE Inv'
<1>1. /\ client \in [Players -> Clients] /\ fresh \subseteq Players
      /\ client[p] \in Clients
  BY DEF Inv, Typing
<1>2. PICK type \in {"LOGOUT", "EXIT", "LOGIN"} :
        Type(p, {"logged"}, Plain(type, NoOne), TRUE)
          \/ Type(p, {"logged", "not_logged"}, Plain(type, NoOne), TRUE)
          \/ Type(p, {"not_logged"}, Plain(type, NoOne), TRUE)
  BY DEF Leave
<1> DEFINE m == Plain(type, NoOne)
<1>3. m \in ToMainMsgs /\ ~OfMatch(m)
  BY MessageFacts DEF Plain, Requests, OfMatch
<1>4. SameMatch(client[p], client[p])
  BY DEF SameMatch
<1>5. client' = [client EXCEPT ![p] = client[p]] /\ fresh' \subseteq Players
  BY <1>1 DEF Leave
<1>6. \E statuses : "gone" \notin statuses /\ Type(p, statuses, m, TRUE)
  <2>1. \A s \in {{"logged"}, {"logged", "not_logged"}, {"not_logged"}} : "gone" \notin s
    OBVIOUS
  <2> QED  BY <1>2, <2>1
<1> HIDE DEF m
<1> QED  BY <1>1, <1>3, <1>4, <1>5, <1>6, TypedStep

-----------------------------------------------------------------------------
(***************************************************************************)
(* What a client does with the messages of the server.                     *)
(***************************************************************************)

LEMMA ReadsFacts ==
    ASSUME Inv, NEW p \in Players, NEW type, Reads(p, type)
    PROVE  /\ server = "up" /\ client[p].status # "gone"
           /\ Head(fromMain[p]) \in FromMainMsgs /\ Head(fromMain[p]).type = type
           /\ fromMain' \in [Players -> Seq(FromMainMsgs)]
           /\ UNCHANGED <<table, orderly, typed>>
           /\ orderly' \in BOOLEAN /\ typed' \in Nat
<1>1. fromMain \in [Players -> Seq(FromMainMsgs)] /\ fromMain[p] # <<>>
  BY DEF Inv, Typing, Reads
<1>2. Head(fromMain[p]) \in FromMainMsgs /\ Tail(fromMain[p]) \in Seq(FromMainMsgs)
  BY <1>1, Taken
<1>3. fromMain' \in [Players -> Seq(FromMainMsgs)]
  BY <1>1, <1>2 DEF Reads
<1>4. orderly' \in BOOLEAN
  <2>1. orderly \in BOOLEAN /\ orderly' = orderly
    BY DEF Inv, Typing, Reads
  <2> QED  BY <2>1
<1>5. typed' \in Nat /\ UNCHANGED <<table, orderly, typed>>
  BY DEF Inv, Typing, Reads
<1> QED  BY <1>2, <1>3, <1>4, <1>5 DEF Reads

\* A step in which p reads a message, stays, and keeps its match.
LEMMA ReadStep ==
    ASSUME Inv, NEW p \in Players, NEW type, Reads(p, type),
           NEW r \in Clients, SameMatch(r, client[p]),
           client' = [client EXCEPT ![p] = r],
           \/ UNCHANGED toMain
           \/ \E m \in ToMainMsgs : ~OfMatch(m) /\ Send(p, <<m>>),
           UNCHANGED <<sockets, server, left>>, fresh' \subseteq Players
    PROVE  Inv'
<1>1. toMain \in [Players -> Seq(ToMainMsgs)] /\ server \in ServerStates
  BY DEF Inv, Typing
<1>2. PICK s : Says(p, s) /\ toMain' = [toMain EXCEPT ![p] = s]
  <2>1. CASE UNCHANGED toMain
    <3>1. toMain' = [toMain EXCEPT ![p] = toMain[p]]
      BY <1>1, <2>1
    <3> QED  BY <3>1 DEF Says
  <2>2. ASSUME NEW m \in ToMainMsgs, ~OfMatch(m), Send(p, <<m>>)
        PROVE  \E s : Says(p, s) /\ toMain' = [toMain EXCEPT ![p] = s]
    <3>1. toMain' = [toMain EXCEPT ![p] = toMain[p] \o <<m>>]
      BY <2>2 DEF Send
    <3>2. Says(p, toMain[p] \o <<m>>)
      BY <2>2 DEF Says
    <3> QED  BY <3>1, <3>2
  <2> QED  BY <2>1, <2>2
<1>3. /\ server = "up" /\ client[p].status # "gone"
      /\ fromMain' \in [Players -> Seq(FromMainMsgs)]
      /\ UNCHANGED table /\ orderly' \in BOOLEAN /\ typed' \in Nat
  BY ReadsFacts
<1>4. UNCHANGED <<sockets, table, left>> /\ server' \in ServerStates
  BY <1>1, <1>3
<1> QED  BY <1>2, <1>3, <1>4, SmallStep

LEMMA EndsInv ==
    ASSUME Inv, server = "up", NEW p \in Players, NEW unread, NEW requests,
           requests \in {<<>>, <<Plain("FAREWELL", NoOne)>>},
           Ends(p, unread, requests),
           UNCHANGED <<ports, joined, fresh, table>>,
           fromMain' \in [Players -> Seq(FromMainMsgs)],
           orderly' \in BOOLEAN, typed' \in Nat
    PROVE  Inv'
<1> DEFINE r == [client[p] EXCEPT !.status = "gone", !.poll = "none"]
           s == toMain[p] \o requests
<1>1. /\ client \in [Players -> Clients] /\ client[p].port \in 0..ports
      /\ Sockets /\ fresh \subseteq Players
      /\ toMain[p] \in Seq(ToMainMsgs)
  BY DEF Inv, Typing
<1>2. r \in Clients /\ r.port \in 0..ports' /\ r.poll = "none" /\ r.status = "gone"
  BY <1>1 DEF Clients, Statuses
<1>3. s \in Seq(ToMainMsgs)
  <2>1. Plain("FAREWELL", NoOne) \in ToMainMsgs
    BY MessageFacts DEF Plain, Requests
  <2>2. CASE requests = <<>>
    <3>1. <<>> \in Seq(ToMainMsgs)
      OBVIOUS
    <3> QED  BY <1>1, <2>2, <3>1
  <2>3. CASE requests = <<Plain("FAREWELL", NoOne)>>
    BY <1>1, <2>1, <2>3, Put
  <2> QED  BY <2>2, <2>3
<1>4. /\ client' = [client EXCEPT ![p] = r] /\ toMain' = [toMain EXCEPT ![p] = s]
      /\ open' = {e \in open : e[2] # p} /\ left' = left
      /\ server' \in ServerStates
  BY <1>1 DEF Ends, Send, ServerStates
<1>5. Sockets' /\ ports' >= ports
  BY <1>1, <1>4 DEF Sockets
<1>6. \A q \in Players \ {p} : \A n : <<n, q>> \in open => <<n, q>> \in open'
  BY <1>4
<1>7. UNCHANGED table /\ fresh' \subseteq Players /\ orderly' \in BOOLEAN
  BY <1>1
<1> HIDE DEF r, s
<1> QED  BY <1>2, <1>3, <1>4, <1>5, <1>6, <1>7, ClientStep

LEMMA DiesInv ==
    ASSUME Inv, server = "up", NEW p \in Players, NEW unread, Dies(p, unread),
           UNCHANGED table,
           fromMain' \in [Players -> Seq(FromMainMsgs)],
           orderly' \in BOOLEAN, typed' \in Nat
    PROVE  Inv'
<1>1. PICK requests \in {<<>>, <<Plain("FAREWELL", NoOne)>>} :
        Ends(p, unread, requests)
  BY DEF Dies
<1>2. UNCHANGED <<ports, joined, fresh, table>>
  BY DEF Dies
<1> QED  BY <1>1, <1>2, EndsInv

\* What the head of a queue of responses names.
LEMMA HeadFacts ==
    ASSUME NEW m \in FromMainMsgs
    PROVE  /\ m.who \in Names \cup {NoOne} /\ m.ok \in BOOLEAN /\ m.port \in Nat
           /\ m.type \in Responses
           /\ m.type \in {"BEGINREQ", "BEGINRESP"} => m.who \in Players
BY DEF FromMainMsgs, MessagesOf

LEMMA ReadBeginReqInv ==
    ASSUME Inv, NEW p \in Players, ReadBeginReq(p) PROVE Inv'
<1> DEFINE from == Head(fromMain[p]).who
           ok == CanBeInvited(p, from)
           m == Msg("BEGINREQACK", from, ok, 0)
           r == [client[p] EXCEPT !.inviteFrom = from]
<1>1. Reads(p, "BEGINREQ")
  BY DEF ReadBeginReq
<1>2. from \in Players
  BY <1>1, ReadsFacts, HeadFacts
<1>3. m \in ToMainMsgs /\ ~OfMatch(m) /\ Send(p, <<m>>)
  <2>1. ok \in BOOLEAN
    BY DEF CanBeInvited
  <2>2. Send(p, <<m>>)
    BY DEF ReadBeginReq
  <2> QED  BY <1>2, <2>1, <2>2, NamesFacts, MessageFacts DEF Requests, OfMatch
<1>4. client \in [Players -> Clients] /\ fresh \subseteq Players
  BY DEF Inv, Typing
<1>5. UNCHANGED <<sockets, server, left>>
  BY DEF ReadBeginReq
<1>6. CASE client' = [client EXCEPT ![p] = r] /\ fresh' = fresh \cup {p}
  <2>1. r \in Clients /\ SameMatch(r, client[p])
    BY <1>2, <1>4 DEF Clients, Statuses, SameMatch
  <2>2. fresh' \subseteq Players
    BY <1>4, <1>6
  <2> HIDE DEF r, m
  <2> QED  BY <1>1, <1>3, <1>5, <1>6, <2>1, <2>2, ReadStep
<1>7. CASE UNCHANGED <<client, fresh>>
  <2>1. /\ client' = [client EXCEPT ![p] = client[p]]
        /\ client[p] \in Clients /\ SameMatch(client[p], client[p])
        /\ fresh' \subseteq Players
    BY <1>4, <1>7 DEF SameMatch
  <2> HIDE DEF m
  <2> QED  BY <1>1, <1>3, <1>5, <2>1, ReadStep
<1>8. (client' = [client EXCEPT ![p] = r] /\ fresh' = fresh \cup {p})
        \/ UNCHANGED <<client, fresh>>
  BY <1>4 DEF ReadBeginReq
<1> QED  BY <1>6, <1>7, <1>8

\* p answers nothing, and is back at its prompt, or changes nothing at all.
LEMMA QuietRead ==
    ASSUME Inv, NEW p \in Players, NEW type, Reads(p, type),
           NEW r \in Clients, SameMatch(r, client[p]),
           client' = [client EXCEPT ![p] = r],
           UNCHANGED <<sockets, toMain, server, fresh, left>>
    PROVE  Inv'
<1>1. fresh' \subseteq Players
  BY DEF Inv, Typing
<1>2. UNCHANGED <<sockets, server, left>> /\ UNCHANGED toMain
  OBVIOUS
<1> QED  BY <1>1, <1>2, ReadStep

LEMMA ReadBeginReqAckInv ==
    ASSUME Inv, NEW p \in Players, ReadBeginReqAck(p) PROVE Inv'
<1> DEFINE r == [client[p] EXCEPT !.status = "logged", !.inviteTo = NoOne]
<1>1. /\ Reads(p, "BEGINREQACK")
      /\ UNCHANGED <<sockets, toMain, server, fresh, left>>
  BY DEF ReadBeginReqAck
<1>2. client \in [Players -> Clients]
  BY DEF Inv, Typing
<1>3. /\ r \in Clients /\ SameMatch(r, client[p])
      /\ client[p] \in Clients /\ SameMatch(client[p], client[p])
  BY <1>2 DEF Clients, Statuses, SameMatch
<1>4. \/ client' = [client EXCEPT ![p] = r]
      \/ client' = [client EXCEPT ![p] = client[p]]
  BY <1>2 DEF ReadBeginReqAck
<1> HIDE DEF r
<1> QED  BY <1>1, <1>3, <1>4, QuietRead

LEMMA ReadCancelInv ==
    ASSUME Inv, NEW p \in Players, ReadCancel(p) PROVE Inv'
<1> DEFINE r == [client[p] EXCEPT !.inviteFrom =
                    IF @ = Head(fromMain[p]).who THEN NoOne ELSE @]
<1>1. /\ Reads(p, "CANCEL")
      /\ UNCHANGED <<sockets, toMain, server, fresh, left>>
  BY DEF ReadCancel
<1>2. client \in [Players -> Clients]
  BY DEF Inv, Typing
<1>3. r \in Clients /\ SameMatch(r, client[p])
  BY <1>2 DEF Clients, Statuses, SameMatch
<1>4. client' = [client EXCEPT ![p] = r]
  BY <1>2 DEF ReadCancel
<1> HIDE DEF r
<1> QED  BY <1>1, <1>3, <1>4, QuietRead

LEMMA ReadSessionInv ==
    ASSUME Inv, NEW p \in Players, ReadSession(p) PROVE Inv'
<1>1. client \in [Players -> Clients]
  BY DEF Inv, Typing
<1> DEFINE r(status) == [client[p] EXCEPT !.status = status]
<1>2. \A status \in {"logged", "not_logged", client[p].status} :
         r(status) \in Clients /\ SameMatch(r(status), client[p])
  BY <1>1 DEF Clients, Statuses, SameMatch
<1>3. ASSUME NEW type, Reads(p, type), UNCHANGED <<sockets, toMain, server, fresh, left>>,
             NEW status \in {"logged", "not_logged", client[p].status},
             client' = [client EXCEPT ![p] = r(status)]
      PROVE  Inv'
  <2> HIDE DEF r
  <2> QED  BY <1>2, <1>3, QuietRead
<1>4. CASE /\ Reads(p, "LOGINACK")
           /\ client' = [client EXCEPT ![p].status =
                            IF Head(fromMain[p]).ok THEN "logged" ELSE @]
           /\ UNCHANGED <<sockets, toMain, server, fresh, left>>
  <2>1. PICK status \in {"logged", client[p].status} :
          client' = [client EXCEPT ![p] = r(status)]
    BY <1>1, <1>4
  <2> QED  BY <1>3, <1>4, <2>1
<1>5. CASE /\ Reads(p, "LOGOUTACK")
           /\ client' = [client EXCEPT ![p].status = "not_logged"]
           /\ UNCHANGED <<sockets, toMain, server, fresh, left>>
  <2>1. client' = [client EXCEPT ![p] = r("not_logged")]
    BY <1>1, <1>5
  <2> QED  BY <1>3, <1>5, <2>1
<1>6. CASE /\ Reads(p, "EXITACK")
           /\ Ends(p, Tail(fromMain[p]), <<>>)
           /\ UNCHANGED <<ports, joined, fresh>>
  <2>1. /\ server = "up" /\ UNCHANGED table
        /\ fromMain' \in [Players -> Seq(FromMainMsgs)]
        /\ orderly' \in BOOLEAN /\ typed' \in Nat
    BY <1>6, ReadsFacts
  <2>2. UNCHANGED <<ports, joined, fresh, table>>
    BY <1>6, <2>1
  <2> QED  BY <1>6, <2>1, <2>2, EndsInv
<1> QED  BY <1>4, <1>5, <1>6 DEF ReadSession

-----------------------------------------------------------------------------
(***************************************************************************)
(* Matches: p says m to the server, unless the requests are unchanged.     *)
(***************************************************************************)

LEMMA StartMessage ==
    ASSUME NEW who \in Players \cup {NoOne}
    PROVE  /\ Plain("START", who) \in ToMainMsgs
           /\ OfMatch(Plain("START", who)) /\ Entry(Plain("START", who)) = who
BY NamesFacts DEF Plain, Msg, ToMainMsgs, MessagesOf, Requests, OfMatch, Entry

LEMMA FinishMessage ==
    /\ Plain("FINISH", NoOne) \in ToMainMsgs
    /\ OfMatch(Plain("FINISH", NoOne)) /\ Entry(Plain("FINISH", NoOne)) = NoOne
BY DEF Plain, Msg, ToMainMsgs, MessagesOf, Requests, OfMatch, Entry

\* What a step of p needs: it is on a client that is there, and leaves the rest.
Acts(p) ==
    /\ server = "up" /\ client[p].status # "gone"
    /\ fromMain' \in [Players -> Seq(FromMainMsgs)]
    /\ UNCHANGED table
    /\ orderly' \in BOOLEAN /\ typed' \in Nat

LEMMA SaidStep ==
    ASSUME Inv, NEW p \in Players, Acts(p),
           NEW r \in Clients, NEW m \in ToMainMsgs,
           client' = [client EXCEPT ![p] = r], Send(p, <<m>>),
           Sockets', ports' >= ports, r.port \in 0..ports',
           r.poll # "none" => <<r.port, p>> \in open',
           \A q \in Players \ {p} : \A n : <<n, q>> \in open => <<n, q>> \in open',
           UNCHANGED server, fresh' \subseteq Players,
           \/ OfMatch(m) /\ r.poll = "none" /\ Entry(m) = NoOne
           \/ OfMatch(m) /\ r.poll = "conn" /\ Entry(m) = r.rival
           \/ r.poll = "listener"
    PROVE  Inv'
<1> DEFINE s == toMain[p] \o <<m>>
<1>1. toMain[p] \in Seq(ToMainMsgs) /\ server' \in ServerStates
  BY DEF Inv, Typing
<1>2. s \in Seq(ToMainMsgs)
  BY <1>1, Put
<1>3. OfMatch(m) => ToldBy(s, enemyUsername[p], Entry(m))
  BY <1>1, ToldLast
<1>4. Told(s, enemyUsername[p], r)
  BY <1>3 DEF Told
<1>5. toMain' = [toMain EXCEPT ![p] = s]
  BY DEF Send
<1>6. /\ server = "up" /\ fromMain' \in [Players -> Seq(FromMainMsgs)]
      /\ UNCHANGED table /\ orderly' \in BOOLEAN /\ typed' \in Nat
  BY DEF Acts
<1> HIDE DEF s
<1> QED  BY <1>1, <1>2, <1>4, <1>5, <1>6, ClientStep

LEMMA ReadsActs ==
    ASSUME Inv, NEW p \in Players, NEW type, Reads(p, type) PROVE Acts(p)
BY ReadsFacts DEF Acts

LEMMA ReadBeginRespInv ==
    ASSUME Inv, NEW p \in Players, ReadBeginResp(p) PROVE Inv'
<1> DEFINE from == Head(fromMain[p]).who
<1>1. /\ Reads(p, "BEGINRESP") /\ UNCHANGED <<server, fresh, left>>
  BY DEF ReadBeginResp
<1>2. from \in Players /\ from \in Names \cup {NoOne}
  BY <1>1, ReadsFacts, HeadFacts
<1>3. /\ client \in [Players -> Clients] /\ fresh \subseteq Players
      /\ client[p] \in Clients /\ Sockets
  BY DEF Inv, Typing
<1>4. CASE TooLate(p, from)
  <2> DEFINE m == Msg("BEGINRESPACK", from, FALSE, 0)
  <2>1. m \in ToMainMsgs /\ ~OfMatch(m)
    BY <1>2, MessageFacts DEF Requests, OfMatch
  <2>2. Send(p, <<m>>) /\ UNCHANGED sockets
    BY <1>4 DEF TooLate
  <2>3. client' = [client EXCEPT ![p] = client[p]] /\ SameMatch(client[p], client[p])
    BY <1>3, <1>4 DEF TooLate, SameMatch
  <2>4. fresh' \subseteq Players /\ UNCHANGED <<sockets, server, left>>
    BY <1>1, <1>3, <2>2
  <2> HIDE DEF m
  <2> QED  BY <1>1, <1>3, <2>1, <2>2, <2>3, <2>4, ReadStep
<1>5. CASE StartListening(p, from)
  <2> DEFINE m == Msg("BEGINRESPACK", from, TRUE, ports')
             r == [status |-> "on_match", inviteTo |-> NoOne,
                   inviteFrom |-> NoOne, rival |-> from,
                   accepting |-> TRUE, poll |-> "listener", port |-> ports']
  <2>1. /\ ports' = ports + 1 /\ ports \in Nat /\ joined' = joined
        /\ open' = open \cup {<<ports', p>>} /\ left' = left
    BY <1>1, <1>3, <1>5 DEF StartListening, createGameListingSocket, Sockets
  <2>2. Sockets' /\ ports' >= ports /\ ports' \in 0..ports'
    BY <1>3, <2>1 DEF Sockets
  <2>3. r \in Clients /\ r.port = ports' /\ r.poll = "listener"
    BY <1>2, <2>1 DEF Clients, Statuses
  <2>4. m \in ToMainMsgs
    <3>1. ports' \in Nat /\ TRUE \in BOOLEAN /\ "BEGINRESPACK" \in Requests
      BY <2>1 DEF Requests
    <3> HIDE DEF from
    <3> QED  BY <1>2, <3>1, MessageFacts
  <2>5. client' = [client EXCEPT ![p] = r] /\ Send(p, <<m>>)
    BY <1>5 DEF StartListening
  <2>6. fresh' \subseteq Players /\ UNCHANGED server
    BY <1>1, <1>3
  <2>7. /\ r.poll # "none" => <<r.port, p>> \in open'
        /\ \A q \in Players \ {p} : \A n : <<n, q>> \in open => <<n, q>> \in open'
    BY <2>1, <2>3
  <2>8. r.port \in 0..ports'
    BY <2>2, <2>3
  <2> HIDE DEF r, m
  <2> QED  BY <1>1, <2>2, <2>3, <2>4, <2>5, <2>6, <2>7, <2>8, ReadsActs, SaidStep
<1>6. CASE /\ client' = [client EXCEPT ![p].status = "logged", ![p].inviteTo = NoOne]
           /\ UNCHANGED <<sockets, toMain>>
  <2> DEFINE r == [client[p] EXCEPT !.status = "logged", !.inviteTo = NoOne]
  <2>1. r \in Clients /\ SameMatch(r, client[p])
    BY <1>3 DEF Clients, Statuses, SameMatch
  <2>2. client' = [client EXCEPT ![p] = r]
    BY <1>3, <1>6
  <2>3. UNCHANGED <<sockets, toMain, server, fresh, left>>
    BY <1>1, <1>6
  <2> HIDE DEF r
  <2> QED  BY <1>1, <2>1, <2>2, <2>3, QuietRead
<1> QED  BY <1>4, <1>5, <1>6 DEF ReadBeginResp

LEMMA ReadBeginRespAckInv ==
    ASSUME Inv, NEW p \in Players, ReadBeginRespAck(p) PROVE Inv'
<1> DEFINE from == Head(fromMain[p]).who
           port == Head(fromMain[p]).port
<1>1. Reads(p, "BEGINRESPACK")
  BY DEF ReadBeginRespAck
<1>2. Acts(p)
  BY <1>1, ReadsActs
<1>3. /\ client \in [Players -> Clients] /\ fresh \subseteq Players
      /\ client[p] \in Clients /\ Sockets
  BY DEF Inv, Typing
<1>4. CASE ConnectionRefused(p, from, port)
  <2>1. Dies(p, Tail(fromMain[p]))
    BY <1>4 DEF ConnectionRefused
  <2>2. /\ server = "up" /\ UNCHANGED table /\ orderly' \in BOOLEAN
        /\ fromMain' \in [Players -> Seq(FromMainMsgs)] /\ typed' \in Nat
    BY <1>2 DEF Acts
  <2> QED  BY <2>1, <2>2, DiesInv
<1>5. CASE /\ <<port, from>> \in open
           /\ client' = [client EXCEPT
                           ![p] = [status |-> "on_match", inviteTo |-> NoOne,
                                   inviteFrom |-> NoOne, rival |-> @.inviteFrom,
                                   accepting |-> @.accepting, poll |-> "conn",
                                   port |-> port]]
           /\ open' = open \cup {<<port, p>>}
           /\ joined' = joined \cup {<<port, p>>}
           /\ Send(p, <<Plain("START", client[p].inviteFrom)>>)
           /\ UNCHANGED <<ports, server, fresh, left>>
  <2> DEFINE who == client[p].inviteFrom
             m == Plain("START", who)
             r == [status |-> "on_match", inviteTo |-> NoOne,
                   inviteFrom |-> NoOne, rival |-> who,
                   accepting |-> client[p].accepting, poll |-> "conn",
                   port |-> port]
  <2>1. port \in 0..ports /\ ports \in Nat
    BY <1>3, <1>5 DEF Sockets
  <2>2. who \in Players \cup {NoOne}
    BY <1>3 DEF Clients
  <2>3. m \in ToMainMsgs /\ OfMatch(m) /\ Entry(m) = who
    BY <2>2, StartMessage
  <2>4. r \in Clients /\ r.rival = who /\ r.poll = "conn" /\ r.port = port
    BY <1>3, <2>1, <2>2 DEF Clients, Statuses
  <2>5. client' = [client EXCEPT ![p] = r] /\ Send(p, <<m>>)
    BY <1>3, <1>5
  <2>6. Sockets' /\ ports' >= ports /\ port \in 0..ports'
    BY <1>3, <1>5, <2>1 DEF Sockets
  <2>7. /\ <<port, p>> \in open'
        /\ \A q \in Players \ {p} : \A n : <<n, q>> \in open => <<n, q>> \in open'
    BY <1>5
  <2>8. UNCHANGED server /\ fresh' \subseteq Players
    BY <1>3, <1>5
  <2> HIDE DEF r, m, who, port
  <2> QED  BY <1>2, <2>3, <2>4, <2>5, <2>6, <2>7, <2>8, SaidStep
<1>6. CASE /\ client' = [client EXCEPT ![p].status = "logged", ![p].inviteFrom = NoOne]
           /\ UNCHANGED <<sockets, toMain, server, fresh, left>>
  <2> DEFINE r == [client[p] EXCEPT !.status = "logged", !.inviteFrom = NoOne]
  <2>1. r \in Clients /\ SameMatch(r, client[p])
    BY <1>3 DEF Clients, Statuses, SameMatch
  <2>2. client' = [client EXCEPT ![p] = r]
    BY <1>3, <1>6
  <2> HIDE DEF r
  <2> QED  BY <1>1, <1>6, <2>1, <2>2, QuietRead
<1> QED  BY <1>4, <1>5, <1>6 DEF ReadBeginRespAck, Join

LEMMA ReceiveInv == ASSUME Inv, NEW p \in Players, Receive(p) PROVE Inv'
BY ReadBeginReqInv, ReadBeginReqAckInv, ReadBeginRespInv, ReadBeginRespAckInv,
   ReadCancelInv, ReadSessionInv DEF Receive

LEMMA AloneActs ==
    ASSUME Inv, NEW p \in Players, Alone(p), orderly' \in BOOLEAN PROVE Acts(p)
BY DEF Inv, Typing, Alone, Acts

LEMMA SameOrder ==
    ASSUME Inv, UNCHANGED orderly PROVE orderly' \in BOOLEAN
<1>1. orderly \in BOOLEAN
  BY DEF Inv, Typing
<1> QED  BY <1>1

LEMMA AcceptInv == ASSUME Inv, NEW p \in Players, Accept(p) PROVE Inv'
<1> DEFINE who == client[p].rival
           m == Plain("START", who)
           r == [client[p] EXCEPT !.accepting = FALSE, !.poll = "conn"]
<1>1. /\ client \in [Players -> Clients] /\ fresh \subseteq Players
      /\ client[p] \in Clients /\ Sockets /\ client[p].port \in 0..ports
      /\ client[p].poll # "none" => <<client[p].port, p>> \in open
  BY DEF Inv, Typing, PollsOpenDescriptor
<1>2. Acts(p)
  <2>1. Alone(p) /\ UNCHANGED orderly
    BY DEF Accept
  <2> QED  BY <2>1, AloneActs, SameOrder
<1>3. who \in Players \cup {NoOne}
  BY <1>1 DEF Clients
<1>4. m \in ToMainMsgs /\ OfMatch(m) /\ Entry(m) = who
  BY <1>3, StartMessage
<1>5. /\ r \in Clients /\ r.rival = who /\ r.poll = "conn"
      /\ r.port = client[p].port
  BY <1>1 DEF Clients
<1>6. client' = [client EXCEPT ![p] = r] /\ Send(p, <<m>>)
  BY <1>1 DEF Accept
<1>7. UNCHANGED sockets /\ UNCHANGED left /\ UNCHANGED server /\ UNCHANGED fresh
  BY DEF Accept
<1>8. Sockets' /\ ports' >= ports /\ open' = open /\ ports' = ports
  BY <1>1, <1>7 DEF Sockets, sockets
<1>9. r.port \in 0..ports' /\ <<r.port, p>> \in open' /\ fresh' \subseteq Players
  <2>1. client[p].poll = "listener"
    BY DEF Accept
  <2> QED  BY <1>1, <1>5, <1>7, <1>8, <2>1
<1> HIDE DEF r, m, who
<1> QED  BY <1>2, <1>4, <1>5, <1>6, <1>7, <1>8, <1>9, SaidStep

LEMMA AcceptFailsInv == ASSUME Inv, NEW p \in Players, AcceptFails(p) PROVE Inv'
<1> DEFINE r == [client[p] EXCEPT !.accepting = FALSE, !.poll = "lost",
                                  !.status = "logged", !.rival = NoOne]
<1>1. /\ client \in [Players -> Clients] /\ fresh \subseteq Players
      /\ client[p] \in Clients /\ Sockets /\ client[p].port \in 0..ports
      /\ client[p].poll # "none" => <<client[p].port, p>> \in open
      /\ toMain \in [Players -> Seq(ToMainMsgs)] /\ server \in ServerStates
  BY DEF Inv, Typing, PollsOpenDescriptor
<1>2. Acts(p)
  <2>1. Alone(p) /\ UNCHANGED orderly
    BY DEF AcceptFails
  <2> QED  BY <2>1, AloneActs, SameOrder
<1>3. /\ r \in Clients /\ r.poll = "lost" /\ r.port = client[p].port
      /\ r.status = "logged"
  BY <1>1 DEF Clients, Statuses
<1>4. /\ client' = [client EXCEPT ![p] = r]
      /\ toMain' = [toMain EXCEPT ![p] = toMain[p]]
      /\ left' = left \cup {<<client[p].port, p>>}
      /\ client[p].poll = "conn"
      /\ open' = open /\ ports' = ports /\ joined' = joined
      /\ server' = server /\ fresh' = fresh
  BY <1>1 DEF AcceptFails, sockets
<1>5. Sockets' /\ ports' >= ports
  BY <1>1, <1>4 DEF Sockets
<1>6. r.port \in 0..ports' /\ <<r.port, p>> \in open'
  BY <1>1, <1>3, <1>4
<1>7. Told(toMain[p], enemyUsername[p], r)
  BY <1>3 DEF Told
<1>8. toMain[p] \in Seq(ToMainMsgs) /\ server' \in ServerStates /\ fresh' \subseteq Players
  BY <1>1, <1>4
<1>9. \A q \in Players \ {p} : \A n : <<n, q>> \in open => <<n, q>> \in open'
  BY <1>4
<1>10. /\ server = "up" /\ fromMain' \in [Players -> Seq(FromMainMsgs)]
       /\ UNCHANGED table /\ orderly' \in BOOLEAN /\ typed' \in Nat
  BY <1>2 DEF Acts
<1> HIDE DEF r
<1> QED  BY <1>3, <1>4, <1>5, <1>6, <1>7, <1>8, <1>9, <1>10, ClientStep

LEMMA DiesAnyTimeInv ==
    ASSUME Inv, NEW p \in Players, Alone(p), DiesAnyTime(p) PROVE Inv'
<1>1. orderly' \in BOOLEAN
  <2>1. orderly' = (orderly /\ client[p].status # "waiting")
    BY DEF DiesAnyTime
  <2> QED  BY <2>1, Zenon
<1>2. Acts(p)
  BY <1>1, AloneActs
<1>3. Dies(p, fromMain[p])
  BY DEF DiesAnyTime
<1> QED  BY <1>1, <1>2, <1>3, DiesInv DEF Acts

LEMMA closingGameInv ==
    ASSUME Inv, NEW p \in Players, Acts(p), closingGame(p),
           Send(p, <<Plain("FINISH", NoOne)>>), UNCHANGED <<server, fresh>>
    PROVE  Inv'
<1> DEFINE m == Plain("FINISH", NoOne)
           r == IF client[p].status = "on_match"
                THEN [client[p] EXCEPT !.status = "logged", !.inviteTo = NoOne,
                               !.inviteFrom = NoOne, !.rival = NoOne,
                               !.poll = "none", !.port = 0]
                ELSE [client[p] EXCEPT !.poll = "none", !.port = 0]
<1>1. /\ client \in [Players -> Clients] /\ fresh \subseteq Players
      /\ client[p] \in Clients /\ Sockets /\ client[p].port \in 0..ports
  BY DEF Inv, Typing
<1>2. m \in ToMainMsgs /\ OfMatch(m) /\ Entry(m) = NoOne
  BY FinishMessage
<1>3. r \in Clients /\ r.poll = "none" /\ r.port = 0
  BY <1>1 DEF Clients, Statuses
<1>4. /\ client' = [client EXCEPT ![p] = r]
      /\ open' = open \ {<<client[p].port, p>>}
      /\ left' = left \cup {<<client[p].port, p>>}
      /\ ports' = ports /\ joined' = joined
  BY <1>1 DEF closingGame
<1>5. Sockets' /\ ports' >= ports /\ r.port \in 0..ports'
  BY <1>1, <1>3, <1>4 DEF Sockets
<1>6. \A q \in Players \ {p} : \A n : <<n, q>> \in open => <<n, q>> \in open'
  BY <1>4
<1>7. UNCHANGED server /\ fresh' \subseteq Players
  BY <1>1
<1> HIDE DEF r, m
<1> QED  BY <1>2, <1>3, <1>4, <1>5, <1>6, <1>7, SaidStep DEF m

LEMMA AloneInv ==
    ASSUME Inv, NEW p \in Players, Crash(p) \/ EndMatch(p) \/ RivalEnds(p) \/ Kill(p)
    PROVE  Inv'
<1>1. ASSUME Crash(p) \/ Kill(p) PROVE Inv'
  BY <1>1, DiesAnyTimeInv DEF Crash, Kill
<1>2. ASSUME EndMatch(p) PROVE Inv'
  <2>1. /\ Alone(p) /\ UNCHANGED orderly /\ closingGame(p)
        /\ Send(p, <<Plain("FINISH", NoOne)>>) /\ UNCHANGED <<server, fresh>>
    BY <1>2 DEF EndMatch
  <2> QED  BY <2>1, SameOrder, AloneActs, closingGameInv
<1>3. ASSUME RivalEnds(p) PROVE Inv'
  <2>1. Alone(p) /\ UNCHANGED orderly
    BY <1>3 DEF RivalEnds
  <2>2. Acts(p) /\ orderly' \in BOOLEAN
    BY <2>1, SameOrder, AloneActs
  <2>3. CASE /\ closingGame(p) /\ Send(p, <<Plain("FINISH", NoOne)>>)
             /\ UNCHANGED <<server, fresh>>
    BY <2>2, <2>3, closingGameInv
  <2>4. CASE Dies(p, fromMain[p])
    BY <2>2, <2>4, DiesInv DEF Acts
  <2> QED  BY <1>3, <2>3, <2>4 DEF RivalEnds
<1> QED  BY <1>1, <1>2, <1>3

-----------------------------------------------------------------------------
(***************************************************************************)
(* The main thread.                                                        *)
(***************************************************************************)

LEMMA RequestFacts ==
    ASSUME Inv, NEW p \in Players, NEW types, Request(p, types)
    PROVE  /\ Head(toMain[p]) \in ToMainMsgs
           /\ Head(toMain[p]).type \in types
           /\ Head(toMain[p]).who \in Names \cup {NoOne}
           /\ Head(toMain[p]).ok \in BOOLEAN /\ Head(toMain[p]).port \in Nat
           /\ Head(toMain[p]).type = "START" =>
                 Head(toMain[p]).who \in Players \cup {NoOne}
<1>1. toMain[p] \in Seq(ToMainMsgs) /\ toMain[p] # <<>>
  BY DEF Inv, Typing, Request
<1>2. Head(toMain[p]) \in ToMainMsgs
  BY <1>1, Taken
<1> QED  BY <1>2 DEF Request, ToMainMsgs, MessagesOf

\* The table takes what the first request says of a match.
Served(p, m) ==
    /\ enemyUsername' \in [Players -> Players \cup {NoOne}]
    /\ OfMatch(m) => enemyUsername'[p] = Entry(m)
    /\ ~OfMatch(m) => enemyUsername'[p] = enemyUsername[p]
    /\ \A q \in Players \ {p} : enemyUsername'[q] = enemyUsername[q]

LEMMA MainStep ==
    ASSUME Inv, NEW p \in Players, NEW types, Request(p, types),
           isOnline' \subseteq Players,
           enemyUsername' \in [Players -> Players \cup {NoOne}],
           fromMain' \in [Players -> Seq(FromMainMsgs)],
           server' \in ServerStates,
           server' = "up" => Served(p, Head(toMain[p]))
    PROVE  Inv'
<1> DEFINE t == Tail(toMain[p])
<1>1. /\ toMain \in [Players -> Seq(ToMainMsgs)]
      /\ toMain[p] \in Seq(ToMainMsgs) /\ toMain[p] # <<>> /\ server = "up"
      /\ toMain' = [toMain EXCEPT ![p] = t]
  BY DEF Inv, Typing, Request
<1>2. t \in Seq(ToMainMsgs)
  BY <1>1, Taken
<1>3. /\ client' = client /\ ports' = ports /\ open' = open /\ joined' = joined
      /\ left' = left /\ fresh' = fresh /\ typed' = typed
  BY DEF Request, sockets, history
<1>4. UNCHANGED orderly
  BY DEF Request, history
<1> HIDE DEF t
<1>5. /\ toMain' \in [Players -> Seq(ToMainMsgs)] /\ toMain'[p] = t
      /\ \A q \in Players \ {p} : toMain'[q] = toMain[q]
  BY <1>1, <1>2
<1>6. Typing'
  <2>1. /\ client' \in [Players -> Clients] /\ Sockets' /\ fresh' \subseteq Players
        /\ \A q \in Players : PollsOpenDescriptor(q)' /\ client'[q].port \in 0..ports'
        /\ typed' \in Nat
    BY <1>3 DEF Inv, Typing, Sockets, PollsOpenDescriptor
  <2>2. orderly' \in BOOLEAN
    BY <1>4, SameOrder
  <2> QED  BY <1>5, <2>1, <2>2, Zenon DEF Typing
<1>7. ASSUME server' = "up", NEW q \in Players, client'[q].status # "gone"
      PROVE  Told(toMain'[q], enemyUsername'[q], client'[q])
  <2>1. Told(toMain[q], enemyUsername[q], client[q])
    BY <1>1, <1>3, <1>7 DEF Inv, Table
  <2>2. CASE q # p
    BY <1>3, <1>5, <1>7, <2>1, <2>2 DEF Served
  <2>3. CASE q = p
    <3>1. \A v : ToldBy(toMain[p], enemyUsername[p], v)
                   => ToldBy(t, enemyUsername'[p], v)
      BY <1>1, <1>7, ToldServed DEF Served, t
    <3> QED  BY <1>3, <1>5, <2>1, <2>3, <3>1 DEF Told
  <2> QED  BY <2>2, <2>3
<1> QED  BY <1>6, <1>7 DEF Inv, Table

LEMMA DeliverFacts ==
    ASSUME Inv, NEW q \in Players, NEW m \in FromMainMsgs, server = "up", Deliver(q, m)
    PROVE  fromMain' \in [Players -> Seq(FromMainMsgs)] /\ server' \in ServerStates
<1>1. fromMain \in [Players -> Seq(FromMainMsgs)] /\ fromMain[q] \in Seq(FromMainMsgs)
  BY DEF Inv, Typing
<1>2. Append(fromMain[q], m) \in Seq(FromMainMsgs)
  BY <1>1, Put
<1>3. fromMain' = [fromMain EXCEPT ![q] = Append(fromMain[q], m)]
  BY DEF Deliver
<1>4. server' \in ServerStates
  BY DEF Deliver, ServerStates
<1> QED  BY <1>1, <1>2, <1>3, <1>4

\* A request that is not about a match, served with the table unchanged.
LEMMA OtherRequest ==
    ASSUME Inv, NEW p \in Players, NEW types, Request(p, types),
           "START" \notin types, "FINISH" \notin types, UNCHANGED enemyUsername
    PROVE  /\ Served(p, Head(toMain[p]))
           /\ enemyUsername' \in [Players -> Players \cup {NoOne}]
<1>1. ~OfMatch(Head(toMain[p]))
  BY DEF Request, OfMatch
<1> QED  BY <1>1 DEF Inv, Typing, Served

\* The request is passed on under the name of its sender.
LEMMA Passed ==
    ASSUME Inv, NEW p \in Players, NEW types, Request(p, types), types \subseteq Responses
    PROVE  [Head(toMain[p]) EXCEPT !.who = p] \in FromMainMsgs
<1>1. Head(toMain[p]) \in MessagesOf(Requests) /\ Head(toMain[p]).type \in Responses
  BY RequestFacts DEF ToMainMsgs
<1> QED  BY <1>1, NamesFacts DEF MessagesOf, FromMainMsgs

LEMMA MainBeginInv == ASSUME Inv, NEW p \in Players, MainBegin(p) PROVE Inv'
<1> DEFINE types == {"BEGINREQ", "BEGINRESP"}
           m == Head(toMain[p])
           failed == IF m.type = "BEGINREQ" THEN "BEGINREQACK" ELSE "BEGINRESPACK"
           no == Msg(failed, m.who, FALSE, 0)
           yes == [m EXCEPT !.who = p]
<1>1. Request(p, types) /\ UNCHANGED table /\ server = "up"
  BY DEF MainBegin, Request
<1>2. yes \in FromMainMsgs
  BY <1>1, Passed DEF Responses
<1>3. no \in FromMainMsgs
  <2>1. m.who \in Names \cup {NoOne}
    BY <1>1, RequestFacts
  <2>2. failed \in Responses \ {"BEGINREQ", "BEGINRESP"}
    BY DEF Responses
  <2> HIDE DEF m, failed
  <2> QED  BY <2>1, <2>2 DEF Msg, FromMainMsgs, MessagesOf
<1>4. isOnline \subseteq Players
  BY DEF Inv, Typing
<1>5. (m.who \in isOnline /\ Deliver(m.who, yes)) \/ Deliver(p, no)
  BY DEF MainBegin, Relay
<1> HIDE DEF yes, no, m
<1>6. fromMain' \in [Players -> Seq(FromMainMsgs)] /\ server' \in ServerStates
  BY <1>1, <1>2, <1>3, <1>4, <1>5, DeliverFacts
<1>7. isOnline' \subseteq Players /\ UNCHANGED enemyUsername
  BY <1>1, <1>4 DEF table
<1> QED  BY <1>1, <1>6, <1>7, OtherRequest, MainStep

LEMMA MainBeginAckInv == ASSUME Inv, NEW p \in Players, MainBeginAck(p) PROVE Inv'
<1> DEFINE types == {"BEGINREQACK", "BEGINRESPACK"}
           m == Head(toMain[p])
           yes == [m EXCEPT !.who = p]
<1>1. Request(p, types) /\ UNCHANGED table /\ server = "up"
  BY DEF MainBeginAck, Request
<1>2. yes \in FromMainMsgs
  BY <1>1, Passed DEF Responses
<1>3. isOnline \subseteq Players
  BY DEF Inv, Typing
<1>4. (m.who \in isOnline /\ Deliver(m.who, yes)) \/ UNCHANGED <<fromMain, server>>
  BY DEF MainBeginAck, Relay
<1> HIDE DEF yes, m
<1>5. fromMain' \in [Players -> Seq(FromMainMsgs)] /\ server' \in ServerStates
  BY <1>1, <1>2, <1>3, <1>4, DeliverFacts DEF Inv, Typing
<1>6. isOnline' \subseteq Players /\ UNCHANGED enemyUsername
  BY <1>1, <1>3 DEF table
<1> QED  BY <1>1, <1>5, <1>6, OtherRequest, MainStep

LEMMA MainCancelInv == ASSUME Inv, NEW p \in Players, MainCancel(p) PROVE Inv'
<1> DEFINE types == {"CANCEL"}
           m == Head(toMain[p])
           yes == [m EXCEPT !.who = p]
<1>1. Request(p, types) /\ UNCHANGED table /\ server = "up"
  BY DEF MainCancel, Request
<1>2. yes \in FromMainMsgs
  BY <1>1, Passed DEF Responses
<1>3. isOnline \subseteq Players
  BY DEF Inv, Typing
<1>4. \/ m.who \in isOnline /\ Deliver(m.who, yes)
      \/ server' = "empty_reply" /\ UNCHANGED fromMain
  BY DEF MainCancel, Relay
<1> HIDE DEF yes, m
<1>5. fromMain' \in [Players -> Seq(FromMainMsgs)] /\ server' \in ServerStates
  <2>1. fromMain \in [Players -> Seq(FromMainMsgs)] /\ "empty_reply" \in ServerStates
    BY DEF Inv, Typing, ServerStates
  <2> QED  BY <1>1, <1>2, <1>3, <1>4, <2>1, DeliverFacts
<1>6. isOnline' \subseteq Players /\ UNCHANGED enemyUsername
  BY <1>1, <1>3 DEF table
<1> QED  BY <1>1, <1>5, <1>6, OtherRequest, MainStep

LEMMA MainMatchInv == ASSUME Inv, NEW p \in Players, MainMatch(p) PROVE Inv'
<1> DEFINE m == Head(toMain[p])
<1>1. Request(p, {"START", "FINISH"}) /\ isOnline' = isOnline /\ fromMain' = fromMain
  BY DEF MainMatch, table
<1>2. /\ enemyUsername \in [Players -> Players \cup {NoOne}]
      /\ isOnline' \subseteq Players
      /\ fromMain' \in [Players -> Seq(FromMainMsgs)]
      /\ server \in ServerStates /\ "no_rival" \in ServerStates
  BY <1>1 DEF Inv, Typing, ServerStates
<1>3. /\ m.type \in {"START", "FINISH"}
      /\ m.type = "START" => m.who \in Players \cup {NoOne}
  BY <1>1, RequestFacts
<1>4. CASE enemyUsername' = PlaysAgainst(p, m) /\ server' = server
  <2>1. /\ enemyUsername' = [enemyUsername EXCEPT ![p] = Entry(m)]
        /\ Entry(m) \in Players \cup {NoOne} /\ OfMatch(m)
    BY <1>3, <1>4 DEF PlaysAgainst, Entry, OfMatch
  <2>2. Served(p, m)
    BY <1>2, <2>1 DEF Served
  <2>3. enemyUsername' \in [Players -> Players \cup {NoOne}] /\ server' \in ServerStates
    BY <1>2, <1>4, <2>1
  <2> QED  BY <1>1, <1>2, <2>2, <2>3, MainStep
<1>5. CASE server' = "no_rival" /\ UNCHANGED table
  <2>1. enemyUsername' \in [Players -> Players \cup {NoOne}] /\ server' \in ServerStates
    BY <1>2, <1>5 DEF table
  <2> QED  BY <1>1, <1>2, <1>5, <2>1, MainStep
<1> QED  BY <1>4, <1>5 DEF MainMatch

LEMMA MainSessionInv == ASSUME Inv, NEW p \in Players, MainSession(p) PROVE Inv'
<1> DEFINE types == {"LOGIN", "LOGOUT", "EXIT", "FAREWELL"}
<1>1. Request(p, types) /\ UNCHANGED enemyUsername /\ server = "up"
  BY DEF MainSession, Request
<1>2. /\ isOnline \subseteq Players /\ server \in ServerStates
      /\ fromMain \in [Players -> Seq(FromMainMsgs)]
  BY DEF Inv, Typing
<1>3. isOnline' \subseteq Players
  BY <1>2 DEF MainSession
<1>4. \A type \in {"LOGINACK", "LOGOUTACK", "EXITACK"} :
        \A who \in Names \cup {NoOne} : \A ok \in BOOLEAN :
            Msg(type, who, ok, 0) \in FromMainMsgs
  BY DEF Msg, FromMainMsgs, MessagesOf, Responses
<1>5. \/ \E answer \in FromMainMsgs : Deliver(p, answer)
      \/ UNCHANGED <<fromMain, server>>
  <2>1. p \in Names \cup {NoOne} /\ NoOne \in Names \cup {NoOne}
    BY NamesFacts
  <2>2. /\ Msg("LOGINACK", p, p \notin isOnline, 0) \in FromMainMsgs
        /\ Plain("LOGOUTACK", p) \in FromMainMsgs
        /\ Plain("EXITACK", p) \in FromMainMsgs
    BY <1>4, <2>1 DEF Plain
  <2> QED  BY <2>2 DEF MainSession
<1>6. fromMain' \in [Players -> Seq(FromMainMsgs)] /\ server' \in ServerStates
  BY <1>1, <1>2, <1>5, DeliverFacts
<1> QED  BY <1>1, <1>3, <1>6, OtherRequest, MainStep

LEMMA MainStopsInv ==
    ASSUME Inv, NEW p \in Players, MainNoUsername(p) \/ MainSkip(p) PROVE Inv'
<1>1. PICK types : Request(p, types)
  BY DEF MainNoUsername, MainSkip
<1>2. UNCHANGED <<fromMain, table>> /\ server' \in {"no_username", "blocked"}
  BY DEF MainNoUsername, MainSkip
<1>3. /\ isOnline' \subseteq Players
      /\ enemyUsername' \in [Players -> Players \cup {NoOne}]
      /\ fromMain' \in [Players -> Seq(FromMainMsgs)]
      /\ server' \in ServerStates /\ server' # "up"
  BY <1>2 DEF Inv, Typing, table, ServerStates
<1> QED  BY <1>1, <1>3, MainStep

-----------------------------------------------------------------------------
(***************************************************************************)
(* Theorems.                                                               *)
(***************************************************************************)

LEMMA NextInv == Inv /\ [Next]_vars => Inv'
<1> SUFFICES ASSUME Inv, [Next]_vars PROVE Inv'
  OBVIOUS
<1>1. CASE UNCHANGED vars
  <2>1. UNCHANGED <<client, sockets, toMain, fromMain, table, server, fresh, left,
                    typed>> /\ UNCHANGED orderly
    BY <1>1 DEF vars, history
  <2>2. orderly' \in BOOLEAN
    BY <2>1, SameOrder
  <2>3. Typing'
    BY <2>1, <2>2 DEF Inv, Typing, Sockets, PollsOpenDescriptor, sockets, table
  <2>4. Table'
    BY <2>1 DEF Inv, Table, table
  <2> QED  BY <2>3, <2>4 DEF Inv
<1>2. ASSUME NEW p \in Players, Main(p) PROVE Inv'
  BY <1>2, MainBeginInv, MainBeginAckInv, MainCancelInv, MainMatchInv,
     MainSessionInv, MainStopsInv DEF Main
<1>3. ASSUME NEW p \in Players,
             \/ \E q \in Names : Begin(p, q)
             \/ \E accept \in BOOLEAN : Invite(p, accept)
             \/ Cancel(p) \/ Leave(p)
      PROVE  Inv'
  BY <1>3, BeginInv, InviteInv, CancelInv, LeaveInv
<1>4. ASSUME NEW p \in Players,
             \/ Receive(p) \/ Accept(p) \/ AcceptFails(p) \/ Crash(p)
             \/ EndMatch(p) \/ RivalEnds(p) \/ Kill(p)
      PROVE  Inv'
  BY <1>4, ReceiveInv, AcceptInv, AcceptFailsInv, AloneInv
<1> QED  BY <1>1, <1>2, <1>3, <1>4, Zenon DEF Next

\* Matchmaking keeps its types, and a client never polls a closed descriptor
\* (main.cpp), for any number of players, commands and deaths.
THEOREM MatchmakingTypes == Spec => []TypeOK
<1>1. Init => Inv
  BY InitInv
<1>2. Inv /\ [Next]_vars => Inv'
  BY NextInv
<1>3. Inv => TypeOK
  BY InvImpliesTypeOK
<1> QED  BY <1>1, <1>2, <1>3, PTL DEF Spec

\* Once the server has served what a client told it of its matches (START and
\* FINISH, mainThread.cpp), its table has the rival this client is connected to,
\* and none for a client at its prompt: whatever users do, and whoever dies.
THEOREM TableKnows == Spec => []TableKnowsMatches
<1>1. Init => Inv
  BY InitInv
<1>2. Inv /\ [Next]_vars => Inv'
  BY NextInv
<1>3. Inv => TableKnowsMatches
  BY InvImpliesTable
<1> QED  BY <1>1, <1>2, <1>3, PTL DEF Spec

-----------------------------------------------------------------------------
(***************************************************************************)
(* The handshake, as long as users are orderly: where its messages are and *)
(* what the clients wait for.                                              *)
(***************************************************************************)

Msgs == MessagesOf(Requests \cup Responses)

\* A message of T is in the queue s; there is at most one.
Has(s, T) == \E i \in 1..Len(s) : s[i] \in T
Once(s, T) == \A i, j \in 1..Len(s) : s[i] \in T /\ s[j] \in T => i = j

\* What is said to x, or on its behalf, as the queue it is in tells.
Ask(x)    == {m \in Msgs : m.type = "BEGINREQ" /\ m.who = x}
Answer(x) == {m \in Msgs : /\ m.who = x
                           /\ m.type = "BEGINRESP" \/ (m.type = "BEGINREQACK" /\ ~m.ok)}
Consent(x) == {m \in Msgs : m.type = "BEGINRESP" /\ m.ok /\ m.who = x}
Settle(x)  == {m \in Msgs : m.type = "BEGINRESPACK" /\ m.who = x}
Summon(x, n) == {m \in Settle(x) : m.ok /\ m.port = n}

\* What is not said: a cancellation, a "fail" to who accepted, an answer to nobody.
Unsaid == {m \in Msgs : \/ m.type = "CANCEL"
                        \/ m.type = "BEGINRESPACK" /\ ~m.ok
                        \/ m.type = "BEGINRESP" /\ m.who \notin Players}
Farewells   == {m \in Msgs : m.type = "FAREWELL"}
SessionReqs == {m \in Msgs : m.type \in {"LOGIN", "LOGOUT", "EXIT"}}
SessionAcks == {m \in Msgs : m.type \in {"LOGINACK", "LOGOUTACK", "EXITACK"}}
LogoutAcks  == {m \in Msgs : m.type = "LOGOUTACK"}
LoginAcks   == {m \in Msgs : m.type = "LOGINACK" /\ m.ok}

Everyone == Names \cup {NoOne}

Waits(p, q) ==
    client[p].status = "waiting" /\ client[p].inviteTo = q /\ q # NoOne
Accepts(q, p) ==
    /\ client[q].status = "waiting" /\ client[q].inviteTo = NoOne
    /\ client[q].inviteFrom = p /\ p # NoOne

\* The invitation of p to q, or the answer to it, is at the place w.
Place(p, q, w) ==
    \/ w = "asking"    /\ Has(toMain[p], Ask(q))
    \/ w = "asked"     /\ q \in Players /\ Has(fromMain[q], Ask(p))
    \/ w = "shown"     /\ q \in fresh /\ client[q].inviteFrom = p
    \/ w = "answering" /\ q \in Players /\ Has(toMain[q], Answer(p))
    \/ w = "answered"  /\ Has(fromMain[p], Answer(q))

\* An invitation is at one place at most, and p waits for whom it names.
Invitation(p) ==
    \A q, r \in Everyone : \A v, w :
        Place(p, q, v) /\ Place(p, r, w) => v = w /\ q = r /\ Waits(p, q)

\* The acceptance of q, or what settles it, is at the stage w.
Stage(q, p, w) ==
    \/ w = "consenting" /\ Has(toMain[q], Consent(p))
    \/ w = "consented"  /\ p \in Players /\ Has(fromMain[p], Consent(q))
    \/ w = "settling"   /\ p \in Players /\ Has(toMain[p], Settle(q))
    \/ w = "settled"    /\ Has(fromMain[q], Settle(p))

Acceptance(q) ==
    \A p, r \in Everyone : \A v, w :
        Stage(q, p, v) /\ Stage(q, r, w) => v = w /\ p = r /\ Accepts(q, p)

Sole(s) ==
    \A x \in Everyone : Once(s, Ask(x)) /\ Once(s, Answer(x)) /\ Once(s, Settle(x))

\* p is on the match of port n with q, or has been.
Stands(p, q, n) ==
    \/ client[p].status = "on_match" /\ client[p].rival = q /\ client[p].port = n
    \/ <<n, p>> \in left
    \/ client[p].status = "gone"

Summoned(p, q, n) == Has(toMain[p], Summon(q, n)) \/ Has(fromMain[q], Summon(p, n))

Standing(p) ==
    \A q \in Players, n \in Nat : Summoned(p, q, n) => Stands(p, q, n)

Agreed(p) ==
    client[p].status = "on_match" =>
        /\ client[p].rival \in Players
        /\ \/ Stands(client[p].rival, p, client[p].port)
           \/ Summoned(p, client[p].rival, client[p].port)

Silent(p) ==
    /\ ~Has(toMain[p], Unsaid) /\ ~Has(fromMain[p], Unsaid)
    /\ Has(toMain[p], Farewells) => client[p].status = "gone"

\* Only who waits or is gone has inviteTo set; the descriptor of a match is
\* polled on a match.
AtRest(p) ==
    /\ client[p].status \notin {"waiting", "gone"} => client[p].inviteTo = NoOne
    /\ client[p].poll \in {"listener", "conn"} => client[p].status = "on_match"

\* One login, logout or exit is unanswered at most; who is logged in is online.
Session(p) ==
    /\ Once(toMain[p], SessionReqs) /\ Once(fromMain[p], SessionAcks)
    /\ ~(Has(toMain[p], SessionReqs) /\ Has(fromMain[p], SessionAcks))
    /\ Has(toMain[p], SessionReqs) \/ Has(fromMain[p], SessionAcks)
          => client[p].status \in {"logged", "not_logged", "gone"}
    /\ client[p].status \in {"logged", "waiting", "on_match"}
          => p \in isOnline \/ Has(fromMain[p], LogoutAcks)
    /\ client[p].status # "gone" /\ Has(fromMain[p], LoginAcks) => p \in isOnline

Polite(p) ==
    /\ Sole(toMain[p]) /\ Sole(fromMain[p])
    /\ Invitation(p) /\ Acceptance(p) /\ Standing(p) /\ Agreed(p)
    /\ Silent(p) /\ AtRest(p) /\ Session(p)

Handshake == orderly => \A p \in Players : Polite(p)

-----------------------------------------------------------------------------
(***************************************************************************)
(* Messages in queues.                                                     *)
(***************************************************************************)

LEMMA Nothing == \A T : ~Has(<<>>, T) /\ Once(<<>>, T)
BY DEF Has, Once

LEMMA Fewer ==
    ASSUME NEW T, NEW U, T \subseteq U, NEW s
    PROVE  (Has(s, T) => Has(s, U)) /\ (Once(s, U) => Once(s, T))
BY DEF Has, Once

\* m is put at the end of the queue.
LEMMA HasPut ==
    ASSUME NEW S, NEW s \in Seq(S), NEW m \in S, NEW T
    PROVE  /\ Has(s \o <<m>>, T) <=> Has(s, T) \/ m \in T
           /\ Once(s, T) /\ ~(Has(s, T) /\ m \in T) => Once(s \o <<m>>, T)
<1> DEFINE t == s \o <<m>>
<1>1. /\ Len(s) \in Nat /\ Len(t) = Len(s) + 1
      /\ \A i \in 1..Len(s) : t[i] = s[i]
      /\ t[Len(s) + 1] = m
  BY Put
<1> HIDE DEF t
<1>2. /\ \A i \in 1..Len(t) : i \in 1..Len(s) \/ i = Len(s) + 1
      /\ \A i \in 1..Len(s) : i \in 1..Len(t)
      /\ Len(s) + 1 \in 1..Len(t)
  BY <1>1
<1>3. Has(t, T) <=> Has(s, T) \/ m \in T
  BY <1>1, <1>2 DEF Has
<1>4. ASSUME Once(s, T), ~(Has(s, T) /\ m \in T)
      PROVE  Once(t, T)
  <2> SUFFICES ASSUME NEW i \in 1..Len(t), NEW j \in 1..Len(t), t[i] \in T, t[j] \in T
               PROVE  i = j
    BY DEF Once
  <2>1. CASE m \in T
    <3>1. \A k \in 1..Len(s) : t[k] \notin T
      BY <1>1, <1>4, <2>1 DEF Has
    <3> QED  BY <1>2, <3>1
  <2>2. CASE m \notin T
    BY <1>1, <1>2, <1>4, <2>2 DEF Once
  <2> QED  BY <2>1, <2>2
<1> QED  BY <1>3, <1>4 DEF t

\* The first message is taken.
LEMMA HasTaken ==
    ASSUME NEW S, NEW s \in Seq(S), s # <<>>, NEW T
    PROVE  /\ Has(s, T) <=> Has(Tail(s), T) \/ Head(s) \in T
           /\ Once(s, T) => Once(Tail(s), T) /\ ~(Has(Tail(s), T) /\ Head(s) \in T)
<1> DEFINE t == Tail(s)
<1>1. /\ Head(s) = s[1]
      /\ Len(s) \in Nat \ {0} /\ Len(t) = Len(s) - 1
      /\ \A i \in 1..Len(t) : t[i] = s[i + 1]
  BY Taken
<1> HIDE DEF t
<1>2. /\ \A i \in 1..Len(t) : i + 1 \in 1..Len(s) /\ i + 1 # 1 /\ i \in Int
      /\ \A i \in 1..Len(s) : i = 1 \/ (i - 1 \in 1..Len(t) /\ (i - 1) + 1 = i)
      /\ 1 \in 1..Len(s)
  BY <1>1
<1>3. Has(s, T) <=> Has(t, T) \/ Head(s) \in T
  <2>1. ASSUME NEW i \in 1..Len(s), s[i] \in T
        PROVE  Has(t, T) \/ Head(s) \in T
    <3>1. CASE i = 1
      BY <1>1, <2>1, <3>1
    <3>2. CASE i # 1
      <4>1. i - 1 \in 1..Len(t) /\ t[i - 1] = s[i]
        BY <1>1, <1>2, <3>2
      <4> QED  BY <2>1, <4>1 DEF Has
    <3> QED  BY <3>1, <3>2
  <2>2. ASSUME Has(t, T) PROVE Has(s, T)
    BY <1>1, <1>2, <2>2 DEF Has
  <2>3. ASSUME Head(s) \in T PROVE Has(s, T)
    BY <1>1, <1>2, <2>3 DEF Has
  <2> QED  BY <2>1, <2>2, <2>3 DEF Has
<1>4. ASSUME Once(s, T) PROVE Once(t, T) /\ ~(Has(t, T) /\ Head(s) \in T)
  <2>1. ASSUME NEW i \in 1..Len(t), NEW j \in 1..Len(t), t[i] \in T, t[j] \in T
        PROVE  i = j
    <3>1. i + 1 = j + 1
      BY <1>1, <1>2, <1>4, <2>1 DEF Once
    <3> QED  BY <1>2, <3>1
  <2>2. ASSUME NEW i \in 1..Len(t), t[i] \in T, s[1] \in T
        PROVE  FALSE
    <3>1. i + 1 = 1
      BY <1>1, <1>2, <1>4, <2>2 DEF Once
    <3> QED  BY <1>2, <3>1
  <2> QED  BY <1>1, <2>1, <2>2 DEF Once, Has
<1> QED  BY <1>3, <1>4 DEF t

\* The queues g after m was put into that of p.
Puts(f, g, p, m) ==
    \A r \in Players : \A T :
        /\ Has(g[r], T) <=> Has(f[r], T) \/ (r = p /\ m \in T)
        /\ Once(f[r], T) /\ ~(r = p /\ m \in T /\ Has(f[r], T)) => Once(g[r], T)

\* The queues g after m was taken from that of p.
Takes(f, g, p, m) ==
    \A r \in Players : \A T :
        /\ Has(f[r], T) <=> Has(g[r], T) \/ (r = p /\ m \in T)
        /\ Once(f[r], T) => Once(g[r], T) /\ ~(r = p /\ m \in T /\ Has(g[r], T))

LEMMA PutsOne ==
    ASSUME NEW S, NEW f \in [Players -> Seq(S)], NEW p \in Players, NEW m \in S,
           NEW g, g = [f EXCEPT ![p] = @ \o <<m>>]
    PROVE  Puts(f, g, p, m)
<1>1. g[p] = f[p] \o <<m>> /\ \A r \in Players \ {p} : g[r] = f[r]
  OBVIOUS
<1>2. f[p] \in Seq(S)
  OBVIOUS
<1> SUFFICES ASSUME NEW r \in Players, NEW T
             PROVE  /\ Has(g[r], T) <=> Has(f[r], T) \/ (r = p /\ m \in T)
                    /\ Once(f[r], T) /\ ~(r = p /\ m \in T /\ Has(f[r], T)) => Once(g[r], T)
  BY DEF Puts
<1>3. CASE r = p
  BY <1>1, <1>2, <1>3, HasPut
<1>4. CASE r # p
  BY <1>1, <1>4
<1> QED  BY <1>3, <1>4

LEMMA TakesOne ==
    ASSUME NEW S, NEW f \in [Players -> Seq(S)], NEW p \in Players, f[p] # <<>>,
           NEW g, g = [f EXCEPT ![p] = Tail(@)]
    PROVE  Takes(f, g, p, Head(f[p]))
<1>1. g[p] = Tail(f[p]) /\ \A r \in Players \ {p} : g[r] = f[r]
  OBVIOUS
<1>2. f[p] \in Seq(S)
  OBVIOUS
<1> DEFINE m == Head(f[p])
<1>3. m = Head(f[p])
  OBVIOUS
<1> HIDE DEF m
<1> SUFFICES ASSUME NEW r \in Players, NEW T
             PROVE  /\ Has(f[r], T) <=> Has(g[r], T) \/ (r = p /\ m \in T)
                    /\ Once(f[r], T) => Once(g[r], T) /\ ~(r = p /\ m \in T /\ Has(g[r], T))
  BY <1>3 DEF Takes
<1>4. CASE r = p
  BY <1>1, <1>2, <1>3, <1>4, HasTaken
<1>5. CASE r # p
  BY <1>1, <1>5
<1> QED  BY <1>4, <1>5

\* Every message is of one kind.
LEMMA Kinds ==
    ASSUME NEW m \in Msgs
    PROVE  /\ \A x : m \in Ask(x) <=> m.type = "BEGINREQ" /\ m.who = x
           /\ \A x : m \in Answer(x) <=>
                        /\ m.who = x
                        /\ m.type = "BEGINRESP" \/ (m.type = "BEGINREQACK" /\ ~m.ok)
           /\ \A x : m \in Consent(x) <=> m.type = "BEGINRESP" /\ m.ok /\ m.who = x
           /\ \A x : m \in Settle(x) <=> m.type = "BEGINRESPACK" /\ m.who = x
           /\ \A x, n : m \in Summon(x, n) <=>
                          m.type = "BEGINRESPACK" /\ m.who = x /\ m.ok /\ m.port = n
           /\ m \in Unsaid <=> \/ m.type = "CANCEL"
                               \/ m.type = "BEGINRESPACK" /\ ~m.ok
                               \/ m.type = "BEGINRESP" /\ m.who \notin Players
           /\ m \in Farewells <=> m.type = "FAREWELL"
           /\ m \in SessionReqs <=> m.type \in {"LOGIN", "LOGOUT", "EXIT"}
           /\ m \in SessionAcks <=> m.type \in {"LOGINACK", "LOGOUTACK", "EXITACK"}
           /\ m \in LogoutAcks <=> m.type = "LOGOUTACK"
           /\ m \in LoginAcks <=> m.type = "LOGINACK" /\ m.ok
<1>1. m \in Unsaid <=> \/ m.type = "CANCEL"
                       \/ m.type = "BEGINRESPACK" /\ ~m.ok
                       \/ m.type = "BEGINRESP" /\ m.who \notin Players
  BY DEF Unsaid
<1>2. /\ \A x : m \in Ask(x) <=> m.type = "BEGINREQ" /\ m.who = x
      /\ \A x : m \in Answer(x) <=>
                   /\ m.who = x
                   /\ m.type = "BEGINRESP" \/ (m.type = "BEGINREQACK" /\ ~m.ok)
      /\ \A x : m \in Consent(x) <=> m.type = "BEGINRESP" /\ m.ok /\ m.who = x
      /\ \A x : m \in Settle(x) <=> m.type = "BEGINRESPACK" /\ m.who = x
      /\ \A x, n : m \in Summon(x, n) <=>
                     m.type = "BEGINRESPACK" /\ m.who = x /\ m.ok /\ m.port = n
  BY DEF Ask, Answer, Consent, Settle, Summon
<1>3. /\ m \in Farewells <=> m.type = "FAREWELL"
      /\ m \in SessionReqs <=> m.type \in {"LOGIN", "LOGOUT", "EXIT"}
      /\ m \in SessionAcks <=> m.type \in {"LOGINACK", "LOGOUTACK", "EXITACK"}
      /\ m \in LogoutAcks <=> m.type = "LOGOUTACK"
      /\ m \in LoginAcks <=> m.type = "LOGINACK" /\ m.ok
  BY DEF Farewells, SessionReqs, SessionAcks, LogoutAcks, LoginAcks
<1> QED  BY <1>1, <1>2, <1>3, Zenon

LEMMA MsgsFacts ==
    /\ ToMainMsgs \subseteq Msgs /\ FromMainMsgs \subseteq Msgs
    /\ \A m \in Msgs : m.who \in Everyone /\ m.ok \in BOOLEAN /\ m.port \in Nat
BY DEF ToMainMsgs, FromMainMsgs, Msgs, MessagesOf, Everyone

LEMMA QueueTypes ==
    ASSUME Inv
    PROVE  /\ toMain \in [Players -> Seq(Msgs)] /\ fromMain \in [Players -> Seq(Msgs)]
           /\ client \in [Players -> Clients] /\ ports \in Nat
<1>1. \A p \in Players : toMain[p] \in Seq(Msgs) /\ fromMain[p] \in Seq(Msgs)
  BY MsgsFacts, WiderSeq DEF Inv, Typing
<1> QED  BY <1>1 DEF Inv, Typing, Sockets

-----------------------------------------------------------------------------
(***************************************************************************)
(* What a step leaves alone.                                               *)
(***************************************************************************)

AllPolite == \A a \in Players : Polite(a)

\* The messages that Place, Stage and Silent speak of.
Tokens == {m \in Msgs : \/ m.type \in {"BEGINREQ", "BEGINRESP", "BEGINRESPACK", "CANCEL"}
                        \/ m.type = "BEGINREQACK" /\ ~m.ok}

NoMore(f, g) ==
    \A r \in Players : \A T \in SUBSET Tokens :
        (Has(g[r], T) => Has(f[r], T)) /\ (Once(f[r], T) => Once(g[r], T))

LEMMA AreTokens ==
    /\ \A x : /\ Ask(x) \in SUBSET Tokens /\ Answer(x) \in SUBSET Tokens
              /\ Consent(x) \in SUBSET Tokens /\ Settle(x) \in SUBSET Tokens
    /\ \A x, n : Summon(x, n) \in SUBSET Tokens
    /\ Unsaid \in SUBSET Tokens
BY DEF Ask, Answer, Consent, Settle, Summon, Unsaid, Tokens

\* The client of p, from old to new, keeps what it waits for and leaves a match
\* only for good.
Calm(p, old, new) ==
    /\ old.status = "waiting" =>
          new.status = "waiting" /\ new.inviteTo = old.inviteTo
            /\ new.inviteFrom = old.inviteFrom
    /\ new.inviteFrom \in {old.inviteFrom, NoOne}
    /\ old.status = "gone" => new.status = "gone"
    /\ old.status = "on_match" =>
          \/ new.status = "gone" \/ <<old.port, p>> \in left'
          \/ new.status = "on_match" /\ new.rival = old.rival /\ new.port = old.port
    /\ new.status = "on_match" =>
          old.status = "on_match" /\ new.rival = old.rival /\ new.port = old.port
    /\ new.status \notin {"waiting", "gone"} => new.inviteTo = NoOne
    /\ new.poll \in {"listener", "conn"} => new.status = "on_match"

LEMMA PlaceKept ==
    ASSUME NoMore(toMain, toMain'), NoMore(fromMain, fromMain'), fresh' \subseteq fresh,
           \A b \in Players : client'[b].inviteFrom \in {client[b].inviteFrom, NoOne},
           fresh' \subseteq Players,
           NEW a \in Players, NEW x, NEW w, Place(a, x, w)'
    PROVE  Place(a, x, w)
<1>1. a # NoOne
  BY NamesFacts
<1>2. CASE w = "asking" /\ Has(toMain'[a], Ask(x))
  BY <1>2, AreTokens DEF NoMore, Place
<1>3. CASE w = "asked" /\ x \in Players /\ Has(fromMain'[x], Ask(a))
  BY <1>3, AreTokens DEF NoMore, Place
<1>4. CASE w = "shown" /\ x \in fresh' /\ client'[x].inviteFrom = a
  BY <1>1, <1>4 DEF Place
<1>5. CASE w = "answering" /\ x \in Players /\ Has(toMain'[x], Answer(a))
  BY <1>5, AreTokens DEF NoMore, Place
<1>6. CASE w = "answered" /\ Has(fromMain'[a], Answer(x))
  BY <1>6, AreTokens DEF NoMore, Place
<1> QED  BY <1>2, <1>3, <1>4, <1>5, <1>6 DEF Place

LEMMA StageKept ==
    ASSUME NoMore(toMain, toMain'), NoMore(fromMain, fromMain'),
           NEW a \in Players, NEW x, NEW w, Stage(a, x, w)'
    PROVE  Stage(a, x, w)
<1>1. CASE w = "consenting" /\ Has(toMain'[a], Consent(x))
  BY <1>1, AreTokens DEF NoMore, Stage
<1>2. CASE w = "consented" /\ x \in Players /\ Has(fromMain'[x], Consent(a))
  BY <1>2, AreTokens DEF NoMore, Stage
<1>3. CASE w = "settling" /\ x \in Players /\ Has(toMain'[x], Settle(a))
  BY <1>3, AreTokens DEF NoMore, Stage
<1>4. CASE w = "settled" /\ Has(fromMain'[a], Settle(x))
  BY <1>4, AreTokens DEF NoMore, Stage
<1> QED  BY <1>1, <1>2, <1>3, <1>4 DEF Stage

LEMMA SoleKept ==
    ASSUME NEW f, NEW g, NoMore(f, g), NEW a \in Players, Sole(f[a])
    PROVE  Sole(g[a])
BY AreTokens DEF NoMore, Sole

\* a stays on its match, or leaves it for good.
LEMMA StandsKept ==
    ASSUME NEW a, NEW q, NEW n, left \subseteq left',
           client[a].status = "gone" => client'[a].status = "gone",
           client[a].status = "on_match" =>
              \/ client'[a].status = "gone" \/ <<client[a].port, a>> \in left'
              \/ /\ client'[a].status = "on_match" /\ client'[a].rival = client[a].rival
                 /\ client'[a].port = client[a].port,
           Stands(a, q, n)
    PROVE  Stands(a, q, n)'
BY DEF Stands

\* A step that adds no message of a handshake.
LEMMA Quiet ==
    ASSUME Inv, Inv', AllPolite, NEW p \in Players,
           \A a \in Players \ {p} : client'[a] = client[a],
           Calm(p, client[p], client'[p]),
           fresh' \subseteq fresh, left \subseteq left',
           NoMore(toMain, toMain'), NoMore(fromMain, fromMain'),
           \A a \in Players : Session(a)',
           \A a \in Players : Has(toMain'[a], Farewells) =>
               Has(toMain[a], Farewells) \/ client'[a].status = "gone",
           \A a, q \in Players : \A n \in Nat :
               client'[a].status = "on_match" /\ Summoned(a, q, n) => Summoned(a, q, n)'
    PROVE  AllPolite'
<1> USE QueueTypes
<1> SUFFICES ASSUME NEW a \in Players PROVE Polite(a)'
  BY DEF AllPolite
<1>0. Polite(a)
  BY DEF AllPolite
<1>1. \A b \in Players : Calm(b, client[b], client'[b])
  <2>1. \A b \in Players : Polite(b)
    BY DEF AllPolite
  <2> SUFFICES ASSUME NEW b \in Players, b # p PROVE Calm(b, client[b], client'[b])
    OBVIOUS
  <2> QED  BY <2>1 DEF Calm, Polite, AtRest
<1>2. \A b \in Players : client'[b].inviteFrom \in {client[b].inviteFrom, NoOne}
  BY <1>1 DEF Calm
<1>3. fresh' \subseteq Players
  BY DEF Inv, Typing
<1>4. Sole(toMain[a])' /\ Sole(fromMain[a])'
  BY <1>0, SoleKept DEF Polite
<1>5. Invitation(a)'
  <2>1. \A x, w : Place(a, x, w)' => Place(a, x, w)
    BY <1>2, <1>3, PlaceKept
  <2>2. \A x : Waits(a, x) => Waits(a, x)'
    BY <1>1 DEF Calm, Waits
  <2> QED  BY <1>0, <2>1, <2>2 DEF Polite, Invitation
<1>6. Acceptance(a)'
  <2>1. \A x, w : Stage(a, x, w)' => Stage(a, x, w)
    BY StageKept
  <2>2. \A x : Accepts(a, x) => Accepts(a, x)'
    BY <1>1 DEF Calm, Accepts
  <2> QED  BY <1>0, <2>1, <2>2 DEF Polite, Acceptance
<1>7. \A b \in Players : \A q, n : Stands(b, q, n) => Stands(b, q, n)'
  BY <1>1, StandsKept DEF Calm
<1>8. Standing(a)'
  <2> SUFFICES ASSUME NEW q \in Players, NEW n \in Nat, Summoned(a, q, n)'
               PROVE  Stands(a, q, n)'
    BY DEF Standing
  <2>1. Summoned(a, q, n)
    BY AreTokens DEF Summoned, NoMore
  <2> QED  BY <1>0, <1>7, <2>1 DEF Polite, Standing
<1>9. Agreed(a)'
  <2> SUFFICES ASSUME client'[a].status = "on_match"
               PROVE  /\ client'[a].rival \in Players
                      /\ \/ Stands(client[a].rival, a, client[a].port)'
                         \/ Summoned(a, client[a].rival, client[a].port)'
    BY DEF Agreed
  <2>1. /\ client[a].status = "on_match"
        /\ client'[a].rival = client[a].rival /\ client'[a].port = client[a].port
    BY <1>1 DEF Calm
  <2>2. /\ client[a].rival \in Players
        /\ \/ Stands(client[a].rival, a, client[a].port)
           \/ Summoned(a, client[a].rival, client[a].port)
    BY <1>0, <2>1 DEF Polite, Agreed
  <2>3. client[a].port \in Nat
    BY DEF Clients
  <2>4. PICK q \in Players, n \in Nat : q = client[a].rival /\ n = client[a].port
    BY <2>2, <2>3
  <2>5. Stands(q, a, n) \/ Summoned(a, q, n)
    BY <2>2, <2>4
  <2>6. Stands(q, a, n)' \/ Summoned(a, q, n)'
    BY <1>7, <2>5
  <2> QED  BY <2>1, <2>2, <2>4, <2>6 DEF Stands, Summoned
<1>10. Silent(a)'
  <2>1. ~Has(toMain'[a], Unsaid) /\ ~Has(fromMain'[a], Unsaid)
    BY <1>0, AreTokens DEF Polite, Silent, NoMore
  <2>2. Has(toMain'[a], Farewells) => client'[a].status = "gone"
    BY <1>0, <1>1 DEF Polite, Silent, Calm
  <2> QED  BY <2>1, <2>2 DEF Silent
<1>11. AtRest(a)'
  BY <1>1 DEF Calm, AtRest
<1> QED  BY <1>4, <1>5, <1>6, <1>8, <1>9, <1>10, <1>11 DEF Polite

\* A login, logout or exit is not asked for and not answered.
LEMMA SessionKept ==
    ASSUME NEW a, Session(a),
           Has(toMain'[a], SessionReqs) => Has(toMain[a], SessionReqs),
           Once(toMain[a], SessionReqs) => Once(toMain'[a], SessionReqs),
           Has(fromMain'[a], SessionAcks) => Has(fromMain[a], SessionAcks),
           Once(fromMain[a], SessionAcks) => Once(fromMain'[a], SessionAcks),
           Has(fromMain[a], LogoutAcks) => Has(fromMain'[a], LogoutAcks),
           Has(fromMain'[a], LoginAcks) => Has(fromMain[a], LoginAcks),
           client[a].status = "gone" => client'[a].status = "gone",
           a \in isOnline => a \in isOnline' \/ client'[a].status = "gone",
           \/ client'[a].status = client[a].status
           \/ client'[a].status = "gone"
           \/ /\ client[a].status \in {"waiting", "on_match"}
              /\ client'[a].status \in {"waiting", "on_match", "logged"}
           \/ /\ client[a].status = "logged" /\ client'[a].status = "waiting"
              /\ ~Has(toMain[a], SessionReqs) /\ ~Has(fromMain[a], SessionAcks)
    PROVE  Session(a)'
BY DEF Session

\* Queues that change by a message that is no token, or lose one.
LEMMA QuietPut ==
    ASSUME NEW f, NEW g, NEW p, NEW m, Puts(f, g, p, m), m \notin Tokens
    PROVE  NoMore(f, g)
BY DEF Puts, NoMore

LEMMA QuietTake ==
    ASSUME NEW f, NEW g, NEW p, NEW m, Takes(f, g, p, m)
    PROVE  NoMore(f, g)
BY DEF Takes, NoMore

LEMMA QuietSame == \A f : NoMore(f, f)
BY DEF NoMore

\* The messages of logins, logouts and exits in the queues f and g are the same.
OfSession == {m \in Msgs : m.type \in {"LOGIN", "LOGOUT", "EXIT", "LOGINACK",
                                       "LOGOUTACK", "EXITACK"}}
SameSessions(f, g) ==
    \A r \in Players : \A T \in SUBSET OfSession :
        (Has(g[r], T) <=> Has(f[r], T)) /\ (Once(f[r], T) => Once(g[r], T))

LEMMA AreOfSession ==
    /\ SessionReqs \in SUBSET OfSession /\ SessionAcks \in SUBSET OfSession
    /\ LogoutAcks \in SUBSET OfSession /\ LoginAcks \in SUBSET OfSession
BY DEF SessionReqs, SessionAcks, LogoutAcks, LoginAcks, OfSession

LEMMA SessionsPut ==
    ASSUME NEW f, NEW g, NEW p, NEW m, Puts(f, g, p, m), m \notin OfSession
    PROVE  SameSessions(f, g)
BY DEF Puts, SameSessions

LEMMA SessionsTake ==
    ASSUME NEW f, NEW g, NEW p, NEW m, Takes(f, g, p, m), m \notin OfSession
    PROVE  SameSessions(f, g)
BY DEF Takes, SameSessions

LEMMA SessionsSame == \A f : SameSessions(f, f)
BY DEF SameSessions

\* A step of p that has nothing to do with sessions.
LEMMA SessionsKept ==
    ASSUME AllPolite, NEW p \in Players,
           SameSessions(toMain, toMain'), SameSessions(fromMain, fromMain'),
           isOnline \subseteq isOnline',
           \A a \in Players \ {p} : client'[a] = client[a],
           \/ client'[p].status = client[p].status
           \/ client'[p].status = "gone"
           \/ /\ client[p].status \in {"waiting", "on_match"}
              /\ client'[p].status \in {"waiting", "on_match", "logged"}
           \/ /\ client[p].status = "logged" /\ client'[p].status = "waiting"
              /\ ~Has(toMain[p], SessionReqs) /\ ~Has(fromMain[p], SessionAcks),
           client[p].status = "gone" => client'[p].status = "gone"
    PROVE  \A a \in Players : Session(a)'
<1> SUFFICES ASSUME NEW a \in Players PROVE Session(a)'
  OBVIOUS
<1>1. Session(a)
  BY DEF AllPolite, Polite
<1>2. /\ Has(toMain'[a], SessionReqs) => Has(toMain[a], SessionReqs)
      /\ Once(toMain[a], SessionReqs) => Once(toMain'[a], SessionReqs)
      /\ Has(fromMain'[a], SessionAcks) => Has(fromMain[a], SessionAcks)
      /\ Once(fromMain[a], SessionAcks) => Once(fromMain'[a], SessionAcks)
      /\ Has(fromMain[a], LogoutAcks) => Has(fromMain'[a], LogoutAcks)
      /\ Has(fromMain'[a], LoginAcks) => Has(fromMain[a], LoginAcks)
  BY AreOfSession DEF SameSessions
<1>3. a \in isOnline => a \in isOnline' \/ client'[a].status = "gone"
  OBVIOUS
<1>4. CASE a = p
  BY <1>1, <1>2, <1>3, <1>4, SessionKept
<1>5. CASE a # p
  BY <1>1, <1>2, <1>3, <1>5, SessionKept
<1> QED  BY <1>4, <1>5

LEMMA AwaitingMeans ==
    ASSUME Inv, NEW p \in Players, ~Awaiting(p)
    PROVE  ~Has(toMain[p], SessionReqs) /\ ~Has(fromMain[p], SessionAcks)
<1>1. toMain[p] \in Seq(Msgs) /\ fromMain[p] \in Seq(Msgs)
  BY QueueTypes
<1>2. /\ \A i \in 1..Len(toMain[p]) : i \in DOMAIN toMain[p]
      /\ \A i \in 1..Len(fromMain[p]) : i \in DOMAIN fromMain[p]
  BY <1>1
<1> QED  BY <1>2 DEF Awaiting, Has, SessionReqs, SessionAcks

-----------------------------------------------------------------------------
(***************************************************************************)
(* The queues in the steps of the code.                                    *)
(***************************************************************************)

LEMMA SendPuts ==
    ASSUME Inv, NEW p \in Players, NEW m \in Msgs, Send(p, <<m>>)
    PROVE  Puts(toMain, toMain', p, m)
<1>1. toMain \in [Players -> Seq(Msgs)]
  BY QueueTypes
<1> QED  BY <1>1, PutsOne DEF Send

LEMMA DeliverPuts ==
    ASSUME Inv, NEW p \in Players, NEW m \in Msgs, Deliver(p, m)
    PROVE  Puts(fromMain, fromMain', p, m)
<1>1. fromMain \in [Players -> Seq(Msgs)]
  BY QueueTypes
<1>2. Append(fromMain[p], m) = fromMain[p] \o <<m>>
  BY <1>1
<1>3. fromMain' = [fromMain EXCEPT ![p] = fromMain[p] \o <<m>>]
  BY <1>2 DEF Deliver
<1> QED  BY <1>1, <1>3, PutsOne

LEMMA RequestTakes ==
    ASSUME Inv, NEW p \in Players, NEW types, Request(p, types)
    PROVE  /\ Head(toMain[p]) \in Msgs /\ Head(toMain[p]).type \in types
           /\ Takes(toMain, toMain', p, Head(toMain[p]))
           /\ client' = client /\ fresh' = fresh /\ left' = left /\ ports' = ports
<1>1. toMain \in [Players -> Seq(Msgs)] /\ toMain[p] # <<>>
  BY QueueTypes DEF Request
<1>2. Head(toMain[p]) \in Msgs
  BY RequestFacts, MsgsFacts
<1>3. Takes(toMain, toMain', p, Head(toMain[p]))
  BY <1>1, TakesOne DEF Request
<1> QED  BY <1>2, <1>3 DEF Request, history, sockets

LEMMA ReadTakes ==
    ASSUME Inv, NEW p \in Players, NEW type, Reads(p, type)
    PROVE  /\ Head(fromMain[p]) \in Msgs /\ Head(fromMain[p]).type = type
           /\ type \in {"BEGINREQ", "BEGINRESP"} => Head(fromMain[p]).who \in Players
           /\ Takes(fromMain, fromMain', p, Head(fromMain[p]))
           /\ client[p].status # "gone"
           /\ UNCHANGED <<isOnline, orderly, typed>>
<1>1. fromMain \in [Players -> Seq(Msgs)] /\ fromMain[p] # <<>>
  BY QueueTypes DEF Reads
<1>2. /\ Head(fromMain[p]) \in Msgs
      /\ type \in {"BEGINREQ", "BEGINRESP"} => Head(fromMain[p]).who \in Players
  BY ReadsFacts, HeadFacts, MsgsFacts
<1>3. Takes(fromMain, fromMain', p, Head(fromMain[p]))
  BY <1>1, TakesOne DEF Reads
<1> QED  BY <1>2, <1>3 DEF Reads, table

\* What is written is a message.
LEMMA Written ==
    ASSUME NEW type \in Requests \cup Responses, NEW who \in Everyone,
           NEW ok \in BOOLEAN, NEW port \in Nat
    PROVE  /\ Msg(type, who, ok, port) \in Msgs
           /\ Msg(type, who, ok, port).type = type /\ Msg(type, who, ok, port).who = who
           /\ Msg(type, who, ok, port).ok = ok /\ Msg(type, who, ok, port).port = port
BY DEF Msg, Msgs, MessagesOf, Everyone

LEMMA WrittenPlain ==
    ASSUME NEW type \in Requests \cup Responses, NEW who \in Everyone
    PROVE  /\ Plain(type, who) \in Msgs /\ Plain(type, who).type = type
           /\ Plain(type, who).who = who /\ Plain(type, who).ok
BY DEF Plain, Msg, Msgs, MessagesOf, Everyone

-----------------------------------------------------------------------------
(***************************************************************************)
(* Requests that are no part of a handshake, and a client on its own.      *)
(***************************************************************************)

LEMMA KeepsCalm ==
    ASSUME AllPolite, NEW p \in Players
    PROVE  Calm(p, client[p], client[p])
BY DEF AllPolite, Polite, AtRest, Calm

\* The main thread takes a request that settles nothing any more.
LEMMA QuietMain ==
    ASSUME Inv, Inv', AllPolite, NEW p \in Players, NEW types, Request(p, types),
           Head(toMain[p]).type # "BEGINRESPACK" \/ client[p].status = "gone",
           \/ fromMain' = fromMain
           \/ \E x \in Players, m \in Msgs \ Tokens : Puts(fromMain, fromMain', x, m),
           \A a \in Players : Session(a)'
    PROVE  AllPolite'
<1>1. /\ Head(toMain[p]) \in Msgs
      /\ Takes(toMain, toMain', p, Head(toMain[p]))
      /\ client' = client /\ fresh' = fresh /\ left' = left
  BY RequestTakes
<1>2. NoMore(toMain, toMain') /\ NoMore(fromMain, fromMain')
  BY <1>1, QuietTake, QuietPut, QuietSame
<1>3. \A a \in Players : Has(toMain'[a], Farewells) => Has(toMain[a], Farewells)
  BY <1>1 DEF Takes
<1>4. ASSUME NEW a \in Players, NEW q \in Players, NEW n \in Nat,
             client'[a].status = "on_match", Summoned(a, q, n)
      PROVE  Summoned(a, q, n)'
  <2>1. Has(fromMain[q], Summon(a, n)) => Has(fromMain'[q], Summon(a, n))
    BY DEF Puts
  <2>2. Has(toMain[a], Summon(q, n)) => Has(toMain'[a], Summon(q, n))
    <3>1. Head(toMain[p]) \in Summon(q, n) => a # p
      BY <1>1, <1>4, Kinds
    <3> QED  BY <1>1, <3>1 DEF Takes
  <2> QED  BY <1>4, <2>1, <2>2 DEF Summoned
<1>5. Calm(p, client[p], client'[p])
  BY <1>1, KeepsCalm DEF Calm
<1> QED  BY <1>1, <1>2, <1>3, <1>4, <1>5, Quiet

\* A client goes on by itself, and may tell the server.
LEMMA QuietAlone ==
    ASSUME Inv, Inv', AllPolite, NEW p \in Players,
           \A a \in Players \ {p} : client'[a] = client[a],
           Calm(p, client[p], client'[p]), fresh' \subseteq fresh, left \subseteq left',
           isOnline' = isOnline,
           \/ toMain' = toMain
           \/ \E m \in Msgs \ (Tokens \cup OfSession) :
                 /\ Puts(toMain, toMain', p, m)
                 /\ m \in Farewells => client'[p].status = "gone",
           \/ fromMain' = fromMain
           \/ \E m \in Msgs : /\ Takes(fromMain, fromMain', p, m)
                              /\ m.type # "BEGINRESPACK" /\ m \notin OfSession,
           \/ client'[p].status \in {client[p].status, "gone"}
           \/ client[p].status = "on_match" /\ client'[p].status = "logged"
    PROVE  AllPolite'
<1>1. NoMore(toMain, toMain') /\ NoMore(fromMain, fromMain')
  BY QuietTake, QuietPut, QuietSame
<1>2. SameSessions(toMain, toMain') /\ SameSessions(fromMain, fromMain')
  BY SessionsPut, SessionsTake, SessionsSame
<1>3. client[p].status = "gone" => client'[p].status = "gone"
  BY DEF Calm
<1>4. \A a \in Players : Session(a)'
  BY <1>2, <1>3, SessionsKept
<1>5. \A a \in Players : Has(toMain'[a], Farewells) =>
          Has(toMain[a], Farewells) \/ client'[a].status = "gone"
  BY DEF Puts
<1>6. ASSUME NEW a \in Players, NEW q \in Players, NEW n \in Nat, Summoned(a, q, n)
      PROVE  Summoned(a, q, n)'
  <2>1. Has(toMain[a], Summon(q, n)) => Has(toMain'[a], Summon(q, n))
    BY DEF Puts
  <2>2. \A m \in Msgs : m.type # "BEGINRESPACK" => m \notin Summon(a, n)
    BY Kinds
  <2>3. Has(fromMain[q], Summon(a, n)) => Has(fromMain'[q], Summon(a, n))
    BY <2>2 DEF Takes
  <2> QED  BY <1>6, <2>1, <2>3 DEF Summoned
<1> QED  BY <1>1, <1>4, <1>5, <1>6, Quiet

\* A request is taken, and no login, logout or exit is answered.
LEMMA SessionsLost ==
    ASSUME Inv, AllPolite, NEW p \in Players, NEW types, Request(p, types),
           SameSessions(fromMain, fromMain'), isOnline \subseteq isOnline'
    PROVE  \A a \in Players : Session(a)'
<1>1. /\ Takes(toMain, toMain', p, Head(toMain[p])) /\ client' = client
  BY RequestTakes
<1> SUFFICES ASSUME NEW a \in Players PROVE Session(a)'
  OBVIOUS
<1>2. Session(a)
  BY DEF AllPolite, Polite
<1>3. /\ Has(toMain'[a], SessionReqs) => Has(toMain[a], SessionReqs)
      /\ Once(toMain[a], SessionReqs) => Once(toMain'[a], SessionReqs)
  BY <1>1 DEF Takes
<1>4. /\ Has(fromMain'[a], SessionAcks) => Has(fromMain[a], SessionAcks)
      /\ Once(fromMain[a], SessionAcks) => Once(fromMain'[a], SessionAcks)
      /\ Has(fromMain[a], LogoutAcks) => Has(fromMain'[a], LogoutAcks)
      /\ Has(fromMain'[a], LoginAcks) => Has(fromMain[a], LoginAcks)
  BY AreOfSession DEF SameSessions
<1> QED  BY <1>1, <1>2, <1>3, <1>4, SessionKept

LEMMA MainStopsPolite ==
    ASSUME Inv, Inv', AllPolite, NEW p \in Players, MainNoUsername(p) \/ MainSkip(p)
    PROVE  AllPolite'
<1>1. PICK types : /\ Request(p, types)
                   /\ "BEGINRESPACK" \in types => client[p].status = "gone"
  BY DEF MainNoUsername, MainSkip
<1>2. fromMain' = fromMain /\ isOnline' = isOnline
  BY DEF MainNoUsername, MainSkip, table
<1>3. \A a \in Players : Session(a)'
  BY <1>1, <1>2, SessionsLost, SessionsSame
<1>4. Head(toMain[p]).type # "BEGINRESPACK" \/ client[p].status = "gone"
  BY <1>1, RequestTakes
<1> QED  BY <1>1, <1>2, <1>3, <1>4, QuietMain

LEMMA MainMatchPolite ==
    ASSUME Inv, Inv', AllPolite, NEW p \in Players, MainMatch(p)
    PROVE  AllPolite'
<1>1. Request(p, {"START", "FINISH"})
  BY DEF MainMatch
<1>2. fromMain' = fromMain /\ isOnline' = isOnline
  BY DEF MainMatch, table
<1>3. \A a \in Players : Session(a)'
  BY <1>1, <1>2, SessionsLost, SessionsSame
<1>4. Head(toMain[p]).type # "BEGINRESPACK"
  BY <1>1, RequestTakes
<1> QED  BY <1>1, <1>2, <1>3, <1>4, QuietMain

\* Nobody has cancelled.
LEMMA NoCancel ==
    ASSUME Inv, AllPolite, NEW p \in Players, MainCancel(p) \/ ReadCancel(p)
    PROVE  FALSE
<1>1. CASE MainCancel(p)
  <2>1. /\ Head(toMain[p]) \in Unsaid
        /\ Takes(toMain, toMain', p, Head(toMain[p]))
    BY <1>1, RequestTakes DEF MainCancel, Unsaid
  <2>2. Has(toMain[p], Unsaid)
    BY <2>1 DEF Takes
  <2> QED  BY <2>2 DEF AllPolite, Polite, Silent
<1>2. CASE ReadCancel(p)
  <2>1. /\ Head(fromMain[p]) \in Unsaid
        /\ Takes(fromMain, fromMain', p, Head(fromMain[p]))
    BY <1>2, ReadTakes DEF ReadCancel, Unsaid
  <2>2. Has(fromMain[p], Unsaid)
    BY <2>1 DEF Takes
  <2> QED  BY <2>2 DEF AllPolite, Polite, Silent
<1> QED  BY <1>1, <1>2

\* A login, logout or exit is answered, or a dead client's user logged out.
LEMMA MainSessionPolite ==
    ASSUME Inv, Inv', AllPolite, NEW p \in Players, MainSession(p)
    PROVE  AllPolite'
<1> DEFINE m == Head(toMain[p])
<1>1. Request(p, {"LOGIN", "LOGOUT", "EXIT", "FAREWELL"})
  BY DEF MainSession
<1>2. /\ m \in Msgs /\ m.type \in {"LOGIN", "LOGOUT", "EXIT", "FAREWELL"}
      /\ Takes(toMain, toMain', p, m) /\ client' = client
  BY <1>1, RequestTakes
<1>3. Session(p) /\ Silent(p) /\ \A a \in Players : Session(a)
  BY DEF AllPolite, Polite
<1>4. m.type # "BEGINRESPACK"
  BY <1>2
<1> HIDE DEF m
<1>5. CASE m.type = "FAREWELL"
  <2>1. /\ isOnline' = isOnline \ {p} /\ fromMain' = fromMain
    BY <1>5 DEF MainSession, m
  <2>2. client[p].status = "gone"
    <3>1. m \in Farewells
      BY <1>2, <1>5, Kinds
    <3>2. Has(toMain[p], Farewells)
      BY <1>2, <3>1 DEF Takes
    <3> QED  BY <1>3, <3>2 DEF Silent
  <2>3. \A a \in Players : Session(a)'
    <3> SUFFICES ASSUME NEW a \in Players PROVE Session(a)'
      OBVIOUS
    <3>1. Session(a)
      BY <1>3
    <3>2. /\ Has(toMain'[a], SessionReqs) => Has(toMain[a], SessionReqs)
          /\ Once(toMain[a], SessionReqs) => Once(toMain'[a], SessionReqs)
      BY <1>2 DEF Takes
    <3>3. a \in isOnline => a \in isOnline' \/ client'[a].status = "gone"
      BY <1>2, <2>1, <2>2
    <3> QED  BY <1>2, <2>1, <3>1, <3>2, <3>3, SessionKept
  <2> QED  BY <1>1, <1>4, <2>1, <2>3, QuietMain DEF m
<1>6. CASE m.type \in {"LOGIN", "LOGOUT", "EXIT"}
  <2>1. PICK ack \in Msgs :
          /\ ack.type = (IF m.type = "LOGIN" THEN "LOGINACK"
                         ELSE IF m.type = "LOGOUT" THEN "LOGOUTACK" ELSE "EXITACK")
          /\ Deliver(p, ack)
          /\ m.type = "LOGOUT" => isOnline' = isOnline \ {p}
          /\ m.type = "LOGIN" => isOnline' = isOnline \cup {p}
          /\ m.type = "EXIT" => isOnline' = isOnline
    <3>1. p \in Everyone /\ p \in Names
      BY NamesFacts DEF Everyone
    <3>2. CASE m.type = "LOGIN"
      <4>1. /\ isOnline' = isOnline \cup {p}
            /\ Deliver(p, Msg("LOGINACK", p, p \notin isOnline, 0))
        BY <3>2 DEF MainSession, m
      <4>2. /\ Msg("LOGINACK", p, p \notin isOnline, 0) \in Msgs
            /\ Msg("LOGINACK", p, p \notin isOnline, 0).type = "LOGINACK"
        BY <3>1 DEF Msg, Msgs, MessagesOf, Responses, Everyone
      <4> QED  BY <3>2, <4>1, <4>2
    <3>3. CASE m.type = "LOGOUT"
      <4>1. isOnline' = isOnline \ {p} /\ Deliver(p, Plain("LOGOUTACK", p))
        BY <3>3 DEF MainSession, m
      <4>2. Plain("LOGOUTACK", p) \in Msgs /\ Plain("LOGOUTACK", p).type = "LOGOUTACK"
        BY <3>1, WrittenPlain DEF Responses
      <4> QED  BY <3>3, <4>1, <4>2
    <3>4. CASE m.type = "EXIT"
      <4>1. isOnline' = isOnline /\ Deliver(p, Plain("EXITACK", p))
        BY <3>4 DEF MainSession, m
      <4>2. Plain("EXITACK", p) \in Msgs /\ Plain("EXITACK", p).type = "EXITACK"
        BY <3>1, WrittenPlain DEF Responses
      <4> QED  BY <3>4, <4>1, <4>2
    <3> QED  BY <1>6, <3>2, <3>3, <3>4
  <2>2. Puts(fromMain, fromMain', p, ack)
    BY <2>1, DeliverPuts
  <2>3. /\ m \in SessionReqs
        /\ ack \in SessionAcks /\ ack \notin Tokens
        /\ ack \in LogoutAcks <=> m.type = "LOGOUT"
        /\ ack \in LoginAcks => m.type = "LOGIN"
    BY <1>2, <1>6, <2>1, Kinds DEF Tokens
  <2>4. /\ Has(toMain[p], SessionReqs) /\ ~Has(toMain'[p], SessionReqs)
        /\ ~Has(fromMain[p], SessionAcks)
        /\ client[p].status \in {"logged", "not_logged", "gone"}
    BY <1>2, <1>3, <2>3 DEF Takes, Session
  <2>5. Session(p)'
    <3>1. Once(toMain'[p], SessionReqs) /\ Once(fromMain'[p], SessionAcks)
      BY <1>2, <1>3, <2>2, <2>4 DEF Takes, Puts, Session
    <3>2. ~Has(fromMain[p], LogoutAcks) /\ ~Has(fromMain[p], LoginAcks)
      <4>1. LogoutAcks \subseteq SessionAcks /\ LoginAcks \subseteq SessionAcks
        BY DEF LogoutAcks, LoginAcks, SessionAcks
      <4> QED  BY <2>4, <4>1, Fewer
    <3>3. client[p].status \in {"logged", "waiting", "on_match"} =>
            p \in isOnline' \/ Has(fromMain'[p], LogoutAcks)
      BY <1>2, <1>3, <1>6, <2>1, <2>2, <2>3, <3>2 DEF Session, Puts
    <3>4. Has(fromMain'[p], LoginAcks) => p \in isOnline'
      BY <2>1, <2>2, <2>3, <3>2 DEF Puts
    <3> QED  BY <1>2, <2>4, <3>1, <3>3, <3>4 DEF Session
  <2>6. ASSUME NEW a \in Players, a # p PROVE Session(a)'
    <3>1. /\ Has(toMain'[a], SessionReqs) => Has(toMain[a], SessionReqs)
          /\ Once(toMain[a], SessionReqs) => Once(toMain'[a], SessionReqs)
          /\ Has(fromMain'[a], SessionAcks) => Has(fromMain[a], SessionAcks)
          /\ Once(fromMain[a], SessionAcks) => Once(fromMain'[a], SessionAcks)
          /\ Has(fromMain[a], LogoutAcks) => Has(fromMain'[a], LogoutAcks)
          /\ Has(fromMain'[a], LoginAcks) => Has(fromMain[a], LoginAcks)
      BY <1>2, <2>2, <2>6 DEF Takes, Puts
    <3>2. a \in isOnline => a \in isOnline'
      BY <1>6, <2>1, <2>6
    <3> QED  BY <1>2, <1>3, <3>1, <3>2, SessionKept
  <2>7. \A a \in Players : Session(a)'
    BY <2>5, <2>6
  <2> QED  BY <1>1, <1>4, <2>2, <2>3, <2>7, QuietMain DEF m
<1> QED  BY <1>2, <1>5, <1>6

-----------------------------------------------------------------------------
(***************************************************************************)
(* A client on a match, at its prompt, or dying.                           *)
(***************************************************************************)

LEMMA AboutMatch ==
    ASSUME NEW m \in Msgs, m.type \in {"START", "FINISH", "FAREWELL"}
    PROVE  m \in Msgs \ (Tokens \cup OfSession) /\ (m \in Farewells <=> m.type = "FAREWELL")
BY Kinds DEF Tokens, OfSession

\* p is on a match when its descriptor is the listener or a connection.
LEMMA PolledOnMatch ==
    ASSUME AllPolite, NEW p \in Players, client[p].poll \in {"listener", "conn"}
    PROVE  client[p].status = "on_match"
BY DEF AllPolite, Polite, AtRest

LEMMA AcceptPolite ==
    ASSUME Inv, Inv', AllPolite, NEW p \in Players, Accept(p) PROVE AllPolite'
<1> DEFINE m == Plain("START", client[p].rival)
<1>1. /\ client \in [Players -> Clients] /\ client[p].poll = "listener"
      /\ client' = [client EXCEPT ![p].accepting = FALSE, ![p].poll = "conn"]
      /\ Send(p, <<m>>)
      /\ fromMain' = fromMain /\ isOnline' = isOnline /\ fresh' = fresh /\ left' = left
  BY QueueTypes DEF Accept, Alone, table
<1>2. /\ client'[p].poll = "conn" /\ client'[p].status = client[p].status
      /\ client'[p].inviteTo = client[p].inviteTo
      /\ client'[p].inviteFrom = client[p].inviteFrom
      /\ client'[p].rival = client[p].rival /\ client'[p].port = client[p].port
      /\ \A a \in Players \ {p} : client'[a] = client[a]
  BY <1>1 DEF Clients
<1>3. client[p].status = "on_match" /\ AtRest(p)
  BY <1>1, PolledOnMatch DEF AllPolite, Polite
<1>4. Calm(p, client[p], client'[p])
  BY <1>2, <1>3 DEF Calm, AtRest
<1>5. /\ m \in Msgs \ (Tokens \cup OfSession) /\ m \notin Farewells
  <2>1. client[p].rival \in Everyone
    BY <1>1, NamesFacts DEF Clients, Everyone
  <2>2. m \in Msgs /\ m.type = "START"
    BY <2>1, WrittenPlain DEF Requests
  <2> QED  BY <2>2, AboutMatch
<1>6. Puts(toMain, toMain', p, m)
  BY <1>1, <1>5, SendPuts
<1> HIDE DEF m
<1> QED  BY <1>1, <1>2, <1>4, <1>5, <1>6, QuietAlone

LEMMA AcceptFailsPolite ==
    ASSUME Inv, Inv', AllPolite, NEW p \in Players, AcceptFails(p) PROVE AllPolite'
<1>1. /\ client \in [Players -> Clients] /\ client[p].poll = "conn"
      /\ client' = [client EXCEPT ![p].accepting = FALSE, ![p].poll = "lost",
                                  ![p].status = "logged", ![p].rival = NoOne]
      /\ left' = left \cup {<<client[p].port, p>>}
      /\ toMain' = toMain /\ fromMain' = fromMain /\ isOnline' = isOnline
      /\ fresh' = fresh
  BY QueueTypes DEF AcceptFails, Alone, table
<1>2. /\ client'[p].poll = "lost" /\ client'[p].status = "logged"
      /\ client'[p].inviteTo = client[p].inviteTo
      /\ client'[p].inviteFrom = client[p].inviteFrom
      /\ \A a \in Players \ {p} : client'[a] = client[a]
  BY <1>1 DEF Clients
<1>3. client[p].status = "on_match" /\ AtRest(p)
  BY <1>1, PolledOnMatch DEF AllPolite, Polite
<1>4. Calm(p, client[p], client'[p])
  BY <1>1, <1>2, <1>3 DEF Calm, AtRest
<1> QED  BY <1>1, <1>2, <1>3, <1>4, QuietAlone

\* closingGame: the match of p is left, or was none.
LEMMA ClosingCalm ==
    ASSUME Inv, AllPolite, NEW p \in Players, closingGame(p)
    PROVE  /\ Calm(p, client[p], client'[p]) /\ left \subseteq left'
           /\ \A a \in Players \ {p} : client'[a] = client[a]
           /\ \/ client'[p].status = client[p].status
              \/ client[p].status = "on_match" /\ client'[p].status = "logged"
<1>1. client \in [Players -> Clients] /\ AtRest(p)
  BY QueueTypes DEF AllPolite, Polite
<1>2. left' = left \cup {<<client[p].port, p>>}
  BY DEF closingGame
<1>3. CASE client[p].status = "on_match"
  <2>1. /\ client'[p].status = "logged" /\ client'[p].inviteTo = NoOne
        /\ client'[p].inviteFrom = NoOne /\ client'[p].poll = "none"
        /\ \A a \in Players \ {p} : client'[a] = client[a]
    BY <1>1, <1>3 DEF closingGame, Clients
  <2> QED  BY <1>2, <1>3, <2>1 DEF Calm
<1>4. CASE client[p].status # "on_match"
  <2>1. /\ client'[p].status = client[p].status /\ client'[p].inviteTo = client[p].inviteTo
        /\ client'[p].inviteFrom = client[p].inviteFrom /\ client'[p].poll = "none"
        /\ \A a \in Players \ {p} : client'[a] = client[a]
    BY <1>1, <1>4 DEF closingGame, Clients
  <2> QED  BY <1>1, <1>2, <1>4, <2>1 DEF Calm, AtRest
<1> QED  BY <1>3, <1>4

LEMMA ClosingPolite ==
    ASSUME Inv, Inv', AllPolite, NEW p \in Players, closingGame(p),
           Send(p, <<Plain("FINISH", NoOne)>>),
           fromMain' = fromMain, isOnline' = isOnline, fresh' = fresh
    PROVE  AllPolite'
<1>1. PICK m \in Msgs : m = Plain("FINISH", NoOne) /\ m.type = "FINISH"
  BY WrittenPlain DEF Requests, Everyone
<1>2. m \in Msgs \ (Tokens \cup OfSession) /\ m \notin Farewells
  BY <1>1, AboutMatch
<1>3. Puts(toMain, toMain', p, m)
  BY <1>1, SendPuts
<1>4. /\ Calm(p, client[p], client'[p]) /\ left \subseteq left'
      /\ \A a \in Players \ {p} : client'[a] = client[a]
      /\ \/ client'[p].status = client[p].status
         \/ client[p].status = "on_match" /\ client'[p].status = "logged"
  BY ClosingCalm
<1> QED  BY <1>2, <1>3, <1>4, QuietAlone

\* The process of p ends, unless it is waiting for an answer.
LEMMA EndsPolite ==
    ASSUME Inv, Inv', AllPolite, NEW p \in Players, NEW unread,
           NEW requests \in {<<>>, <<Plain("FAREWELL", NoOne)>>},
           Ends(p, unread, requests),
           client[p].status # "waiting",
           isOnline' = isOnline, fresh' = fresh,
           \/ fromMain' = fromMain
           \/ \E m \in Msgs : /\ Takes(fromMain, fromMain', p, m)
                              /\ m.type # "BEGINRESPACK" /\ m \notin OfSession
    PROVE  AllPolite'
<1>1. /\ client \in [Players -> Clients]
      /\ client' = [client EXCEPT ![p].status = "gone", ![p].poll = "none"]
      /\ Send(p, requests) /\ left' = left
  BY QueueTypes DEF Ends
<1>2. /\ client'[p].status = "gone" /\ client'[p].poll = "none"
      /\ client'[p].inviteFrom = client[p].inviteFrom
      /\ \A a \in Players \ {p} : client'[a] = client[a]
  BY <1>1 DEF Clients
<1>3. Calm(p, client[p], client'[p])
  BY <1>2 DEF Calm
<1>4. \/ toMain' = toMain
      \/ \E m \in Msgs \ (Tokens \cup OfSession) : Puts(toMain, toMain', p, m)
  <2>1. CASE requests = <<>>
    <3>1. toMain \in [Players -> Seq(Msgs)]
      BY QueueTypes
    <3>2. toMain[p] \o <<>> = toMain[p]
      BY <3>1
    <3> QED  BY <1>1, <2>1, <3>1, <3>2 DEF Send
  <2>2. CASE requests = <<Plain("FAREWELL", NoOne)>>
    <3>1. PICK m \in Msgs : m = Plain("FAREWELL", NoOne) /\ m.type = "FAREWELL"
      BY WrittenPlain DEF Requests, Everyone
    <3>2. Puts(toMain, toMain', p, m)
      BY <1>1, <2>2, <3>1, SendPuts
    <3> QED  BY <3>1, <3>2, AboutMatch
  <2> QED  BY <2>1, <2>2
<1> QED  BY <1>1, <1>2, <1>3, <1>4, QuietAlone

LEMMA DiesPolite ==
    ASSUME Inv, Inv', AllPolite, NEW p \in Players, NEW unread, Dies(p, unread),
           client[p].status # "waiting",
           isOnline' = isOnline, fromMain' = fromMain
    PROVE  AllPolite'
<1>1. PICK requests \in {<<>>, <<Plain("FAREWELL", NoOne)>>} : Ends(p, unread, requests)
  BY DEF Dies
<1>2. fresh' = fresh
  BY DEF Dies
<1> QED  BY <1>1, <1>2, EndsPolite

LEMMA AlonePolite ==
    ASSUME Inv, Inv', AllPolite, orderly', NEW p \in Players,
           EndMatch(p) \/ RivalEnds(p) \/ Kill(p) \/ Crash(p)
    PROVE  AllPolite'
<1>1. fromMain' = fromMain /\ isOnline' = isOnline
  BY DEF EndMatch, RivalEnds, Kill, Crash, Alone, table
<1>2. CASE EndMatch(p)
  BY <1>1, <1>2, ClosingPolite DEF EndMatch
<1>3. CASE RivalEnds(p)
  <2>1. client[p].status = "on_match"
    BY <1>3, PolledOnMatch DEF RivalEnds
  <2>2. CASE closingGame(p) /\ Send(p, <<Plain("FINISH", NoOne)>>) /\ fresh' = fresh
    BY <1>1, <2>2, ClosingPolite
  <2>3. CASE Dies(p, fromMain[p])
    BY <1>1, <2>1, <2>3, DiesPolite
  <2> QED  BY <1>3, <2>2, <2>3 DEF RivalEnds
<1>4. CASE Kill(p) \/ Crash(p)
  <2>1. DiesAnyTime(p)
    BY <1>4 DEF Kill, Crash
  <2>2. client[p].status # "waiting" /\ Dies(p, fromMain[p])
    BY <2>1 DEF DiesAnyTime
  <2> QED  BY <1>1, <2>2, DiesPolite
<1> QED  BY <1>2, <1>3, <1>4

\* A login, logout or exit is asked for.
LEMMA LeavePolite ==
    ASSUME Inv, Inv', AllPolite, orderly', NEW p \in Players, Leave(p)
    PROVE  AllPolite'
<1>1. PICK type \in {"LOGOUT", "EXIT", "LOGIN"}, statuses \in SUBSET {"logged", "not_logged"} :
        Type(p, statuses, Plain(type, NoOne), TRUE)
  BY DEF Leave
<1>2. PICK m \in Msgs : m = Plain(type, NoOne) /\ m.type = type
  BY WrittenPlain DEF Requests, Everyone
<1>3. /\ Send(p, <<m>>) /\ ~Awaiting(p) /\ client[p].status \in {"logged", "not_logged"}
      /\ fromMain' = fromMain /\ isOnline' = isOnline /\ left' = left
  BY <1>1, <1>2 DEF Type, table
<1>4. client' = client /\ fresh' = fresh
  BY DEF Leave
<1>5. Puts(toMain, toMain', p, m)
  BY <1>3, SendPuts
<1>6. ~Has(toMain[p], SessionReqs) /\ ~Has(fromMain[p], SessionAcks)
  BY <1>3, AwaitingMeans
<1>7. m \notin Tokens /\ m \in SessionReqs /\ m \notin Farewells
  BY <1>2, Kinds DEF Tokens
<1>8. \A a \in Players : Session(a)'
  <2> SUFFICES ASSUME NEW a \in Players PROVE Session(a)'
    OBVIOUS
  <2>1. Session(a)
    BY DEF AllPolite, Polite
  <2>2. CASE a = p
    <3>1. Once(toMain'[p], SessionReqs)
      BY <1>5, <1>6, <2>1, <2>2 DEF Puts, Session
    <3> QED  BY <1>3, <1>4, <1>6, <2>1, <2>2, <3>1 DEF Session
  <2>3. CASE a # p
    <3>1. /\ Has(toMain'[a], SessionReqs) => Has(toMain[a], SessionReqs)
          /\ Once(toMain[a], SessionReqs) => Once(toMain'[a], SessionReqs)
      BY <1>5, <2>3 DEF Puts
    <3> QED  BY <1>3, <1>4, <2>1, <3>1, SessionKept
  <2> QED  BY <2>2, <2>3
<1>9. NoMore(toMain, toMain') /\ NoMore(fromMain, fromMain')
  BY <1>3, <1>5, <1>7, QuietPut, QuietSame
<1>10. Calm(p, client[p], client'[p])
  BY <1>4, KeepsCalm
<1>11. \A a \in Players : Has(toMain'[a], Farewells) => Has(toMain[a], Farewells)
  BY <1>5, <1>7 DEF Puts
<1>12. \A a, q \in Players : \A n \in Nat : Summoned(a, q, n) => Summoned(a, q, n)'
  BY <1>3, <1>5 DEF Puts, Summoned
<1> QED  BY <1>3, <1>4, <1>8, <1>9, <1>10, <1>11, <1>12, Quiet

\* A login, logout or exit is answered to p.
LEMMA ReadSessionPolite ==
    ASSUME Inv, Inv', AllPolite, NEW p \in Players, ReadSession(p) PROVE AllPolite'
<1>1. PICK type \in {"LOGINACK", "LOGOUTACK", "EXITACK"} :
        /\ Reads(p, type) /\ fresh' = fresh /\ left' = left /\ toMain' = toMain
        /\ \/ /\ type = "LOGINACK"
              /\ client' = [client EXCEPT ![p].status =
                              IF Head(fromMain[p]).ok THEN "logged" ELSE @]
           \/ /\ type = "LOGOUTACK"
              /\ client' = [client EXCEPT ![p].status = "not_logged"]
           \/ /\ type = "EXITACK"
              /\ client' = [client EXCEPT ![p].status = "gone", ![p].poll = "none"]
  <2>1. CASE Reads(p, "EXITACK") /\ Ends(p, Tail(fromMain[p]), <<>>) /\ fresh' = fresh
    <3>1. toMain \in [Players -> Seq(Msgs)]
      BY QueueTypes
    <3>2. toMain[p] \o <<>> = toMain[p]
      BY <3>1
    <3>3. toMain' = toMain
      BY <2>1, <3>1, <3>2 DEF Ends, Send
    <3> QED  BY <2>1, <3>3 DEF Ends
  <2> QED  BY <2>1 DEF ReadSession
<1> DEFINE m == Head(fromMain[p])
<1>2. /\ m \in Msgs /\ m.type = type
      /\ Takes(fromMain, fromMain', p, m)
      /\ client[p].status # "gone" /\ isOnline' = isOnline
  BY <1>1, ReadTakes
<1>3. m \in SessionAcks /\ (m \in LogoutAcks <=> type = "LOGOUTACK")
        /\ (m \in LoginAcks <=> type = "LOGINACK" /\ m.ok)
  BY <1>2, Kinds
<1>4. client \in [Players -> Clients]
  BY QueueTypes
<1>5. \/ /\ type = "LOGINACK" /\ client'[p].poll = client[p].poll
         /\ client'[p].status = IF m.ok THEN "logged" ELSE client[p].status
      \/ /\ type = "LOGOUTACK" /\ client'[p].poll = client[p].poll
         /\ client'[p].status = "not_logged"
      \/ type = "EXITACK" /\ client'[p].poll = "none" /\ client'[p].status = "gone"
  BY <1>1, <1>4 DEF Clients
<1>6. /\ client'[p].inviteFrom = client[p].inviteFrom
      /\ client'[p].inviteTo = client[p].inviteTo
      /\ \A a \in Players \ {p} : client'[a] = client[a]
  BY <1>1, <1>4 DEF Clients
<1> HIDE DEF m
<1>7. Session(p) /\ AtRest(p) /\ \A a \in Players : Session(a)
  BY DEF AllPolite, Polite
<1>8. /\ Has(fromMain[p], SessionAcks) /\ ~Has(fromMain'[p], SessionAcks)
      /\ ~Has(toMain'[p], SessionReqs)
      /\ client[p].status \in {"logged", "not_logged"}
  BY <1>1, <1>2, <1>3, <1>7 DEF Takes, Session
<1>9. Calm(p, client[p], client'[p])
  BY <1>5, <1>6, <1>7, <1>8 DEF Calm, AtRest
<1>10. Session(p)'
  <2>1. Once(toMain'[p], SessionReqs) /\ Once(fromMain'[p], SessionAcks)
    BY <1>1, <1>2, <1>7 DEF Takes, Session
  <2>2. ~Has(fromMain'[p], LogoutAcks) /\ ~Has(fromMain'[p], LoginAcks)
    <3>1. LogoutAcks \subseteq SessionAcks /\ LoginAcks \subseteq SessionAcks
      BY DEF LogoutAcks, LoginAcks, SessionAcks
    <3> QED  BY <1>8, <3>1, Fewer
  <2>3. Has(fromMain[p], LogoutAcks) => type = "LOGOUTACK"
    BY <1>2, <1>3, <2>2 DEF Takes
  <2>4. type = "LOGINACK" /\ m.ok => p \in isOnline
    BY <1>2, <1>3, <1>7 DEF Takes, Session
  <2>5. client'[p].status \in {"logged", "waiting", "on_match"} => p \in isOnline
    BY <1>5, <1>7, <1>8, <2>3, <2>4 DEF Session
  <2> QED  BY <1>2, <1>5, <1>8, <2>1, <2>2, <2>5 DEF Session
<1>11. ASSUME NEW a \in Players, a # p PROVE Session(a)'
  <2>1. /\ Has(fromMain'[a], SessionAcks) => Has(fromMain[a], SessionAcks)
        /\ Once(fromMain[a], SessionAcks) => Once(fromMain'[a], SessionAcks)
        /\ Has(fromMain[a], LogoutAcks) => Has(fromMain'[a], LogoutAcks)
        /\ Has(fromMain'[a], LoginAcks) => Has(fromMain[a], LoginAcks)
    BY <1>2, <1>11 DEF Takes
  <2> QED  BY <1>1, <1>2, <1>6, <1>7, <1>11, <2>1, SessionKept
<1>12. \A a \in Players : Session(a)'
  BY <1>10, <1>11
<1>13. NoMore(toMain, toMain') /\ NoMore(fromMain, fromMain')
  BY <1>1, <1>2, QuietTake, QuietSame
<1>14. ASSUME NEW a \in Players, NEW q \in Players, NEW n \in Nat, Summoned(a, q, n)
       PROVE  Summoned(a, q, n)'
  <2>1. m \notin Summon(a, n)
    BY <1>2, Kinds
  <2> QED  BY <1>1, <1>2, <1>14, <2>1 DEF Takes, Summoned
<1> QED  BY <1>1, <1>6, <1>9, <1>12, <1>13, <1>14, Quiet

-----------------------------------------------------------------------------
(***************************************************************************)
(* The steps of the handshake.                                             *)
(***************************************************************************)

LEMMA NoPlace ==
    ASSUME AllPolite, NEW p \in Players, \A q : ~Waits(p, q)
    PROVE  \A x \in Everyone : \A w : ~Place(p, x, w)
BY DEF AllPolite, Polite, Invitation

LEMMA OnlyPlace ==
    ASSUME AllPolite, NEW p \in Players, NEW q \in Everyone, NEW v, Place(p, q, v)
    PROVE  /\ Waits(p, q)
           /\ \A x \in Everyone : \A w : Place(p, x, w) => w = v /\ x = q
BY DEF AllPolite, Polite, Invitation

LEMMA NoStage ==
    ASSUME AllPolite, NEW q \in Players, \A p : ~Accepts(q, p)
    PROVE  \A x \in Everyone : \A w : ~Stage(q, x, w)
BY DEF AllPolite, Polite, Acceptance

LEMMA OnlyStage ==
    ASSUME AllPolite, NEW q \in Players, NEW p \in Everyone, NEW v, Stage(q, p, v)
    PROVE  /\ Accepts(q, p)
           /\ \A x \in Everyone : \A w : Stage(q, x, w) => w = v /\ x = p
BY DEF AllPolite, Polite, Acceptance

\* Who waits is online: it has not asked to log out.
LEMMA WaitingOnline ==
    ASSUME AllPolite, NEW p \in Players, client[p].status = "waiting"
    PROVE  p \in isOnline
<1>1. Session(p)
  BY DEF AllPolite, Polite
<1>2. ~Has(fromMain[p], SessionAcks)
  BY <1>1 DEF Session
<1>3. LogoutAcks \subseteq SessionAcks
  BY DEF LogoutAcks, SessionAcks
<1>4. ~Has(fromMain[p], LogoutAcks)
  BY <1>2, <1>3, Fewer
<1> QED  BY <1>1, <1>4 DEF Session

LEMMA SoleTake ==
    ASSUME NEW f, NEW g, NEW p, NEW m, Takes(f, g, p, m), \A a \in Players : Sole(f[a])
    PROVE  \A a \in Players : Sole(g[a])
BY DEF Takes, Sole

LEMMA SolePut ==
    ASSUME NEW f, NEW g, NEW p \in Players, NEW m, Puts(f, g, p, m),
           \A a \in Players : Sole(f[a]),
           \A x \in Everyone : /\ m \in Ask(x) => ~Has(f[p], Ask(x))
                               /\ m \in Answer(x) => ~Has(f[p], Answer(x))
                               /\ m \in Settle(x) => ~Has(f[p], Settle(x))
    PROVE  \A a \in Players : Sole(g[a])
BY DEF Puts, Sole

\* What settles an acceptance, and what is not said.
Settles == {m \in Msgs : m.type = "BEGINRESPACK"} \cup Unsaid
SameSettles(f, g) ==
    \A r \in Players : \A T \in SUBSET Settles : Has(g[r], T) <=> Has(f[r], T)

LEMMA AreSettles ==
    Unsaid \in SUBSET Settles /\ \A x, n : Summon(x, n) \in SUBSET Settles
BY DEF Settles, Summon, Settle

LEMMA SettlesPut ==
    ASSUME NEW f, NEW g, NEW p, NEW m, Puts(f, g, p, m), m \notin Settles
    PROVE  SameSettles(f, g)
BY DEF Puts, SameSettles

LEMMA SettlesTake ==
    ASSUME NEW f, NEW g, NEW p, NEW m, Takes(f, g, p, m), m \notin Settles
    PROVE  SameSettles(f, g)
BY DEF Takes, SameSettles

LEMMA SettlesSame == \A f : SameSettles(f, f)
BY DEF SameSettles

\* A step that settles nothing leaves matches and sessions as they are.
LEMMA RestKept ==
    ASSUME Inv, AllPolite, NEW p \in Players,
           SameSettles(toMain, toMain'), SameSettles(fromMain, fromMain'),
           left' = left,
           \A a \in Players \ {p} : client'[a] = client[a],
           client'[p].status \in {"gone", "on_match"} \/
             client[p].status \in {"gone", "on_match"} =>
               client'[p].status = client[p].status,
           client'[p].rival = client[p].rival, client'[p].port = client[p].port,
           AtRest(p)',
           \A a \in Players : Has(toMain'[a], Farewells) => Has(toMain[a], Farewells)
    PROVE  \A a \in Players : Standing(a)' /\ Agreed(a)' /\ Silent(a)' /\ AtRest(a)'
<1> SUFFICES ASSUME NEW a \in Players
             PROVE  Standing(a)' /\ Agreed(a)' /\ Silent(a)' /\ AtRest(a)'
  OBVIOUS
<1>1. Standing(a) /\ Agreed(a) /\ Silent(a) /\ AtRest(a)
  BY DEF AllPolite, Polite
<1>2. \A b, q \in Players : \A n : Summoned(b, q, n)' <=> Summoned(b, q, n)
  BY AreSettles DEF SameSettles, Summoned
<1>3. \A b \in Players : \A q, n : Stands(b, q, n)' <=> Stands(b, q, n)
  BY DEF Stands
<1>4. Standing(a)'
  BY <1>1, <1>2, <1>3 DEF Standing
<1>5. Agreed(a)'
  <2> SUFFICES ASSUME client'[a].status = "on_match"
               PROVE  /\ client'[a].rival \in Players
                      /\ \/ Stands(client[a].rival, a, client[a].port)'
                         \/ Summoned(a, client[a].rival, client[a].port)'
    BY DEF Agreed
  <2>1. /\ client[a].status = "on_match"
        /\ client'[a].rival = client[a].rival /\ client'[a].port = client[a].port
    OBVIOUS
  <2>2. PICK q, n : q \in Players /\ q = client[a].rival /\ n = client[a].port
    BY <1>1, <2>1 DEF Agreed
  <2>3. Stands(q, a, n) \/ Summoned(a, q, n)
    BY <1>1, <2>1, <2>2 DEF Agreed
  <2>4. Stands(q, a, n)' \/ Summoned(a, q, n)'
    BY <1>2, <2>2, <1>3, <2>3
  <2> QED  BY <2>1, <2>2, <2>4 DEF Stands, Summoned
<1>6. Silent(a)'
  <2>1. ~Has(toMain'[a], Unsaid) /\ ~Has(fromMain'[a], Unsaid)
    BY <1>1, AreSettles DEF Silent, SameSettles
  <2>2. Has(toMain'[a], Farewells) => client'[a].status = "gone"
    BY <1>1 DEF Silent
  <2> QED  BY <2>1, <2>2 DEF Silent
<1>7. AtRest(a)'
  BY <1>1 DEF AtRest
<1> QED  BY <1>4, <1>5, <1>6, <1>7

LEMMA AllSole ==
    AllPolite => \A a \in Players : Sole(toMain[a]) /\ Sole(fromMain[a])
BY DEF AllPolite, Polite

\* The parts of Polite, for everybody.
LEMMA PoliteParts ==
    ASSUME \A a \in Players : Sole(toMain'[a]), \A a \in Players : Sole(fromMain'[a]),
           \A a \in Players : Invitation(a)', \A a \in Players : Acceptance(a)',
           \A a \in Players : Standing(a)' /\ Agreed(a)' /\ Silent(a)' /\ AtRest(a)',
           \A a \in Players : Session(a)'
    PROVE  AllPolite'
BY DEF AllPolite, Polite

\* The invitation of p is only at v, for q; the places of the others are kept.
LEMMA InvitationMoves ==
    ASSUME AllPolite, NEW p \in Players, NEW q, NEW v,
           \A x \in Everyone : \A w : Place(p, x, w)' => w = v /\ x = q /\ Waits(p, q)',
           \A a \in Players \ {p} : \A x \in Everyone : \A w : Place(a, x, w)' => Place(a, x, w),
           \A a \in Players \ {p} : \A x \in Everyone : Waits(a, x) => Waits(a, x)'
    PROVE  \A a \in Players : Invitation(a)'
<1> SUFFICES ASSUME NEW a \in Players PROVE Invitation(a)'
  OBVIOUS
<1>1. CASE a = p
  BY <1>1 DEF Invitation
<1>2. CASE a # p
  <2>1. Invitation(a)
    BY DEF AllPolite, Polite
  <2> QED  BY <1>2, <2>1 DEF Invitation
<1> QED  BY <1>1, <1>2

LEMMA AcceptanceMoves ==
    ASSUME AllPolite, NEW q \in Players, NEW p, NEW v,
           \A x \in Everyone : \A w : Stage(q, x, w)' => w = v /\ x = p /\ Accepts(q, p)',
           \A a \in Players \ {q} : \A x \in Everyone : \A w : Stage(a, x, w)' => Stage(a, x, w),
           \A a \in Players \ {q} : \A x \in Everyone : Accepts(a, x) => Accepts(a, x)'
    PROVE  \A a \in Players : Acceptance(a)'
<1> SUFFICES ASSUME NEW a \in Players PROVE Acceptance(a)'
  OBVIOUS
<1>1. CASE a = q
  BY <1>1 DEF Acceptance
<1>2. CASE a # q
  <2>1. Acceptance(a)
    BY DEF AllPolite, Polite
  <2> QED  BY <1>2, <2>1 DEF Acceptance
<1> QED  BY <1>1, <1>2

\* No acceptance moves.
LEMMA AcceptanceStays ==
    ASSUME AllPolite,
           \A a \in Players : \A x \in Everyone : \A w : Stage(a, x, w)' => Stage(a, x, w),
           \A a \in Players : \A x \in Everyone : Accepts(a, x) => Accepts(a, x)'
    PROVE  \A a \in Players : Acceptance(a)'
BY DEF AllPolite, Polite, Acceptance

-----------------------------------------------------------------------------
LEMMA BeginPolite ==
    ASSUME Inv, Inv', AllPolite, orderly', NEW p \in Players, NEW q \in Names, Begin(p, q)
    PROVE  AllPolite'
<1>0. q \in Everyone /\ q # NoOne
  BY ConstantsAssumption DEF Everyone
<1>1. PICK m \in Msgs : m = Plain("BEGINREQ", q) /\ m.type = "BEGINREQ" /\ m.who = q
  BY <1>0, WrittenPlain DEF Requests
<1>2. /\ Send(p, <<m>>) /\ ~Awaiting(p) /\ client[p].status = "logged"
      /\ fromMain' = fromMain /\ isOnline' = isOnline /\ left' = left /\ fresh' = fresh
      /\ client' = [client EXCEPT ![p].status = "waiting", ![p].inviteTo = q]
  BY <1>1 DEF Begin, Type, table
<1>3. Puts(toMain, toMain', p, m)
  BY <1>2, SendPuts
<1>4. ~Has(toMain[p], SessionReqs) /\ ~Has(fromMain[p], SessionAcks)
  BY <1>2, AwaitingMeans
<1>5. /\ client'[p].status = "waiting" /\ client'[p].inviteTo = q
      /\ client'[p].inviteFrom = client[p].inviteFrom /\ client'[p].poll = client[p].poll
      /\ client'[p].rival = client[p].rival /\ client'[p].port = client[p].port
      /\ \A a \in Players \ {p} : client'[a] = client[a]
  BY <1>2, QueueTypes DEF Clients
<1>6. AtRest(p)'
  <2>1. AtRest(p)
    BY DEF AllPolite, Polite
  <2> QED  BY <1>2, <1>5, <2>1 DEF AtRest
<1>7. /\ m \notin OfSession /\ m \notin Settles /\ m \notin Farewells
      /\ \A x : (m \in Ask(x) <=> x = q) /\ m \notin Answer(x) /\ m \notin Consent(x)
                /\ m \notin Settle(x)
  BY <1>1, Kinds DEF OfSession, Settles
<1>8. /\ \A x \in Everyone : \A w : ~Place(p, x, w)
      /\ \A x \in Everyone : \A w : ~Stage(p, x, w)
  BY <1>2, NoPlace, NoStage DEF Waits, Accepts
<1>9. (\A a \in Players : Sole(toMain'[a])) /\ \A a \in Players : Sole(fromMain'[a])
  <2>1. ~Has(toMain[p], Ask(q))
    BY <1>0, <1>8 DEF Place
  <2>2. \A x \in Everyone : /\ m \in Ask(x) => ~Has(toMain[p], Ask(x))
                            /\ m \in Answer(x) => ~Has(toMain[p], Answer(x))
                            /\ m \in Settle(x) => ~Has(toMain[p], Settle(x))
    BY <1>7, <2>1
  <2>3. \A a \in Players : Sole(toMain'[a])
    BY <1>3, <2>2, AllSole, SolePut
  <2> QED  BY <1>2, <2>3, AllSole
<1>10. \A a \in Players : Invitation(a)'
  <2>1. ASSUME NEW a \in Players, NEW x \in Everyone, NEW w, Place(a, x, w)'
        PROVE  Place(a, x, w) \/ (a = p /\ x = q /\ w = "asking")
    <3>1. \A y \in Players : client'[y].inviteFrom = client[y].inviteFrom
      BY <1>5
    <3>2. /\ Has(toMain'[a], Ask(x)) => Has(toMain[a], Ask(x)) \/ (a = p /\ x = q)
          /\ \A y \in Players : Has(toMain'[y], Answer(a)) => Has(toMain[y], Answer(a))
      BY <1>3, <1>7 DEF Puts
    <3>3. fresh \subseteq Players
      BY DEF Inv, Typing
    <3> QED  BY <1>2, <2>1, <3>1, <3>2, <3>3 DEF Place
  <2>2. Waits(p, q)'
    BY <1>0, <1>5 DEF Waits
  <2>3. \A a \in Players \ {p} : \A x \in Everyone : Waits(a, x) => Waits(a, x)'
    BY <1>5 DEF Waits
  <2> QED  BY <1>8, <2>1, <2>2, <2>3, InvitationMoves
<1>11. \A a \in Players : Acceptance(a)'
  <2>1. ASSUME NEW a \in Players, NEW x \in Everyone, NEW w, Stage(a, x, w)'
        PROVE  Stage(a, x, w)
    <3>1. /\ Has(toMain'[a], Consent(x)) => Has(toMain[a], Consent(x))
          /\ \A y \in Players : Has(toMain'[y], Settle(a)) => Has(toMain[y], Settle(a))
      BY <1>3, <1>7 DEF Puts
    <3> QED  BY <1>2, <2>1, <3>1 DEF Stage
  <2>2. \A a \in Players : \A x \in Everyone : Accepts(a, x) => Accepts(a, x)'
    BY <1>2, <1>5 DEF Accepts
  <2> QED  BY <2>1, <2>2, AcceptanceStays
<1>12. \A a \in Players : Session(a)'
  <2>1. SameSessions(toMain, toMain') /\ SameSessions(fromMain, fromMain')
    BY <1>2, <1>3, <1>7, SessionsPut, SessionsSame
  <2> QED  BY <1>2, <1>4, <1>5, <2>1, SessionsKept
<1>13. \A a \in Players : Standing(a)' /\ Agreed(a)' /\ Silent(a)' /\ AtRest(a)'
  <2>1. SameSettles(toMain, toMain') /\ SameSettles(fromMain, fromMain')
    BY <1>2, <1>3, <1>7, SettlesPut, SettlesSame
  <2>2. \A a \in Players : Has(toMain'[a], Farewells) => Has(toMain[a], Farewells)
    BY <1>3, <1>7 DEF Puts
  <2> QED  BY <1>2, <1>5, <1>6, <2>1, <2>2, RestKept
<1> QED  BY <1>9, <1>10, <1>11, <1>12, <1>13, PoliteParts

LEMMA InvitePolite ==
    ASSUME Inv, Inv', AllPolite, orderly', NEW p \in Players, NEW accept \in BOOLEAN,
           Invite(p, accept)
    PROVE  AllPolite'
<1>1. PICK from : from = client[p].inviteFrom
  OBVIOUS
<1>2. client \in [Players -> Clients] /\ from \in Players /\ from \in Everyone
  BY <1>1, QueueTypes, NamesFacts DEF Invite, Clients, Everyone
<1>3. PICK m \in Msgs : /\ m = Msg("BEGINRESP", from, accept, 0)
                        /\ m.type = "BEGINRESP" /\ m.who = from /\ m.ok = accept
  BY <1>2, Written DEF Requests
<1>4. /\ Send(p, <<m>>) /\ ~Awaiting(p) /\ client[p].status = "logged" /\ p \in fresh
      /\ fromMain' = fromMain /\ isOnline' = isOnline /\ left' = left
      /\ fresh' = fresh \ {p}
      /\ client' = [client EXCEPT ![p].status = IF accept THEN "waiting" ELSE @]
  BY <1>1, <1>3 DEF Invite, Type, table
<1>5. Puts(toMain, toMain', p, m)
  BY <1>4, SendPuts
<1>6. ~Has(toMain[p], SessionReqs) /\ ~Has(fromMain[p], SessionAcks)
  BY <1>4, AwaitingMeans
<1>7. /\ client'[p].status = IF accept THEN "waiting" ELSE "logged"
      /\ client'[p].inviteTo = client[p].inviteTo
      /\ client'[p].inviteFrom = client[p].inviteFrom /\ client'[p].poll = client[p].poll
      /\ client'[p].rival = client[p].rival /\ client'[p].port = client[p].port
      /\ \A a \in Players \ {p} : client'[a] = client[a]
  BY <1>2, <1>4 DEF Clients
<1>8. AtRest(p) /\ AtRest(p)' /\ client[p].inviteTo = NoOne
  <2>1. AtRest(p)
    BY DEF AllPolite, Polite
  <2> QED  BY <1>4, <1>7, <2>1 DEF AtRest
<1>9. /\ m \notin OfSession /\ m \notin Settles /\ m \notin Farewells
      /\ \A x : /\ m \notin Ask(x) /\ (m \in Answer(x) <=> x = from)
                /\ (m \in Consent(x) <=> x = from /\ accept) /\ m \notin Settle(x)
  BY <1>2, <1>3, Kinds DEF OfSession, Settles
<1>10. /\ Waits(from, p) /\ from # p
       /\ \A x \in Everyone : \A w : Place(from, x, w) => w = "shown" /\ x = p
  <2>1. Place(from, p, "shown") /\ p \in Everyone
    BY <1>1, <1>4, NamesFacts DEF Place, Everyone
  <2>2. /\ Waits(from, p)
        /\ \A x \in Everyone : \A w : Place(from, x, w) => w = "shown" /\ x = p
    BY <1>2, <2>1, OnlyPlace
  <2> QED  BY <1>4, <2>2 DEF Waits
<1>11. \A x \in Everyone : \A w : ~Stage(p, x, w)
  BY <1>4, NoStage DEF Accepts
<1>12. (\A a \in Players : Sole(toMain'[a])) /\ \A a \in Players : Sole(fromMain'[a])
  <2>1. ~Has(toMain[p], Answer(from))
    <3>1. p \in Everyone
      BY NamesFacts DEF Everyone
    <3> QED  BY <1>10, <3>1 DEF Place
  <2>2. \A x \in Everyone : /\ m \in Ask(x) => ~Has(toMain[p], Ask(x))
                            /\ m \in Answer(x) => ~Has(toMain[p], Answer(x))
                            /\ m \in Settle(x) => ~Has(toMain[p], Settle(x))
    BY <1>9, <2>1
  <2>3. \A a \in Players : Sole(toMain'[a])
    BY <1>5, <2>2, AllSole, SolePut
  <2> QED  BY <1>4, <2>3, AllSole
<1>13. \A a \in Players : Invitation(a)'
  <2>1. ASSUME NEW a \in Players, NEW x \in Everyone, NEW w, Place(a, x, w)'
        PROVE  \/ Place(a, x, w) /\ ~(w = "shown" /\ x = p)
               \/ a = from /\ x = p /\ w = "answering"
    <3>1. \A y \in Players : client'[y].inviteFrom = client[y].inviteFrom
      BY <1>7
    <3>2. /\ Has(toMain'[a], Ask(x)) => Has(toMain[a], Ask(x))
          /\ \A y \in Players : Has(toMain'[y], Answer(a)) =>
                Has(toMain[y], Answer(a)) \/ (y = p /\ a = from)
      BY <1>5, <1>9 DEF Puts
    <3>3. fresh \subseteq Players
      BY DEF Inv, Typing
    <3> QED  BY <1>4, <2>1, <3>1, <3>2, <3>3 DEF Place
  <2>2. Waits(from, p)'
    BY <1>2, <1>7, <1>10 DEF Waits
  <2>3. \A a \in Players \ {from} : \A x \in Everyone : Waits(a, x) => Waits(a, x)'
    BY <1>4, <1>7 DEF Waits
  <2>4. \A x \in Everyone : \A w : Place(from, x, w)' => w = "answering" /\ x = p /\ Waits(from, p)'
    BY <1>2, <1>10, <2>1, <2>2
  <2> QED  BY <1>2, <2>1, <2>3, <2>4, InvitationMoves
<1>14. \A a \in Players : Acceptance(a)'
  <2>1. ASSUME NEW a \in Players, NEW x \in Everyone, NEW w, Stage(a, x, w)'
        PROVE  \/ Stage(a, x, w)
               \/ a = p /\ x = from /\ w = "consenting" /\ accept
    <3>1. /\ Has(toMain'[a], Consent(x)) =>
                Has(toMain[a], Consent(x)) \/ (a = p /\ x = from /\ accept)
          /\ \A y \in Players : Has(toMain'[y], Settle(a)) => Has(toMain[y], Settle(a))
      BY <1>5, <1>9 DEF Puts
    <3> QED  BY <1>4, <2>1, <3>1 DEF Stage
  <2>2. \A a \in Players \ {p} : \A x \in Everyone : Accepts(a, x) => Accepts(a, x)'
    BY <1>7 DEF Accepts
  <2>3. accept => Accepts(p, from)'
    BY <1>1, <1>2, <1>7, <1>8, NamesFacts DEF Accepts
  <2> QED  BY <1>11, <2>1, <2>2, <2>3, AcceptanceMoves
<1>15. \A a \in Players : Session(a)'
  <2>1. SameSessions(toMain, toMain') /\ SameSessions(fromMain, fromMain')
    BY <1>4, <1>5, <1>9, SessionsPut, SessionsSame
  <2> QED  BY <1>4, <1>6, <1>7, <2>1, SessionsKept
<1>16. \A a \in Players : Standing(a)' /\ Agreed(a)' /\ Silent(a)' /\ AtRest(a)'
  <2>1. SameSettles(toMain, toMain') /\ SameSettles(fromMain, fromMain')
    BY <1>4, <1>5, <1>9, SettlesPut, SettlesSame
  <2>2. \A a \in Players : Has(toMain'[a], Farewells) => Has(toMain[a], Farewells)
    BY <1>5, <1>9 DEF Puts
  <2> QED  BY <1>4, <1>7, <1>8, <2>1, <2>2, RestKept
<1> QED  BY <1>12, <1>13, <1>14, <1>15, <1>16, PoliteParts

\* What stays when the main thread answers a request of an invitation.
LEMMA MainRest ==
    ASSUME Inv, AllPolite, NEW p \in Players, NEW types, Request(p, types),
           Head(toMain[p]) \notin Settles, Head(toMain[p]) \notin OfSession,
           NEW y \in Players, NEW m \in Msgs, m \notin Settles, m \notin OfSession,
           Puts(fromMain, fromMain', y, m), isOnline' = isOnline,
           \A x \in Everyone : /\ m \in Ask(x) => ~Has(fromMain[y], Ask(x))
                               /\ m \in Answer(x) => ~Has(fromMain[y], Answer(x)),
           \A a \in Players : Invitation(a)', \A a \in Players : Acceptance(a)'
    PROVE  AllPolite'
<1>1. /\ Takes(toMain, toMain', p, Head(toMain[p]))
      /\ client' = client /\ fresh' = fresh /\ left' = left
  BY RequestTakes
<1>2. \A a \in Players : Sole(toMain'[a])
  BY <1>1, AllSole, SoleTake
<1>3. \A a \in Players : Sole(fromMain'[a])
  <2>1. \A x \in Everyone : m \notin Settle(x)
    BY Kinds DEF Settles
  <2>2. \A x \in Everyone : /\ m \in Ask(x) => ~Has(fromMain[y], Ask(x))
                            /\ m \in Answer(x) => ~Has(fromMain[y], Answer(x))
                            /\ m \in Settle(x) => ~Has(fromMain[y], Settle(x))
    BY <2>1
  <2> QED  BY <2>2, AllSole, SolePut
<1>4. \A a \in Players : Session(a)'
  <2>1. SameSessions(toMain, toMain') /\ SameSessions(fromMain, fromMain')
    BY <1>1, SessionsTake, SessionsPut
  <2> QED  BY <1>1, <2>1, SessionsKept
<1>5. \A a \in Players : Standing(a)' /\ Agreed(a)' /\ Silent(a)' /\ AtRest(a)'
  <2>1. SameSettles(toMain, toMain') /\ SameSettles(fromMain, fromMain')
    BY <1>1, SettlesTake, SettlesPut
  <2>2. \A a \in Players : Has(toMain'[a], Farewells) => Has(toMain[a], Farewells)
    BY <1>1 DEF Takes
  <2>3. AtRest(p)'
    BY <1>1 DEF AllPolite, Polite, AtRest
  <2> QED  BY <1>1, <2>1, <2>2, <2>3, RestKept
<1> QED  BY <1>2, <1>3, <1>4, <1>5, PoliteParts

\* The request m as it is passed on.
LEMMA PassedOn ==
    ASSUME NEW p \in Players, NEW m \in Msgs, NEW n, n = [m EXCEPT !.who = p]
    PROVE  n \in Msgs /\ n.type = m.type /\ n.who = p /\ n.ok = m.ok /\ n.port = m.port
BY NamesFacts DEF Msgs, MessagesOf

\* A question goes on to the other client, or fails.
LEMMA MainAskPolite ==
    ASSUME Inv, Inv', AllPolite, NEW p \in Players, MainBegin(p),
           Head(toMain[p]).type = "BEGINREQ"
    PROVE  AllPolite'
<1>1. PICK m \in Msgs, q \in Everyone :
        /\ m = Head(toMain[p]) /\ m.type = "BEGINREQ" /\ m.who = q
        /\ Takes(toMain, toMain', p, m)
  BY RequestTakes, MsgsFacts DEF MainBegin
<1>2. /\ Request(p, {"BEGINREQ", "BEGINRESP"}) /\ isOnline' = isOnline
      /\ client' = client /\ fresh' = fresh
  BY RequestTakes DEF MainBegin, table
<1>3. /\ m \notin OfSession /\ m \notin Settles
      /\ \A x : /\ (m \in Ask(x) <=> x = q) /\ m \notin Answer(x)
                /\ m \notin Consent(x) /\ m \notin Settle(x)
  BY <1>1, Kinds DEF OfSession, Settles
<1>4. /\ Waits(p, q)
      /\ \A x \in Everyone : \A w : Place(p, x, w) => w = "asking" /\ x = q
  <2>1. Place(p, q, "asking")
    BY <1>1, <1>3 DEF Place, Takes
  <2> QED  BY <2>1, OnlyPlace
<1>5. ~Has(toMain'[p], Ask(q))
  <2>1. Once(toMain[p], Ask(q))
    BY AllSole DEF Sole
  <2> QED  BY <1>1, <1>3, <2>1 DEF Takes
<1>6. \A a \in Players : \A x : Has(toMain'[a], Ask(x)) => Has(toMain[a], Ask(x))
  BY <1>1 DEF Takes
<1>7. \A y \in Players : \A T : Has(toMain'[y], T) => Has(toMain[y], T)
  BY <1>1 DEF Takes
<1>8. fresh \subseteq Players
  BY DEF Inv, Typing
<1>9. CASE q \in isOnline
  <2>1. q \in Players
    BY <1>9 DEF Inv, Typing
  <2>2. PICK n : Deliver(q, n) /\ n \in Msgs /\ n.type = "BEGINREQ" /\ n.who = p
    <3>1. PICK n : n = [m EXCEPT !.who = p]
      OBVIOUS
    <3>2. Deliver(q, n)
      BY <1>1, <1>9, <3>1 DEF MainBegin, Relay
    <3>3. n \in Msgs /\ n.type = m.type /\ n.who = p
      BY <3>1, PassedOn
    <3> QED  BY <1>1, <3>2, <3>3
  <2>3. Puts(fromMain, fromMain', q, n)
    BY <2>1, <2>2, DeliverPuts
  <2>4. /\ n \notin OfSession /\ n \notin Settles
        /\ \A x : /\ (n \in Ask(x) <=> x = p) /\ n \notin Answer(x)
                  /\ n \notin Consent(x) /\ n \notin Settle(x)
    BY <2>2, Kinds DEF OfSession, Settles
  <2>5. ASSUME NEW a \in Players, NEW x \in Everyone, NEW w, Place(a, x, w)'
        PROVE  \/ Place(a, x, w) /\ ~(a = p /\ x = q /\ w = "asking")
               \/ a = p /\ x = q /\ w = "asked"
    <3>1. /\ \A y \in Players : Has(fromMain'[y], Ask(a)) =>
                Has(fromMain[y], Ask(a)) \/ (y = q /\ a = p)
          /\ Has(fromMain'[a], Answer(x)) => Has(fromMain[a], Answer(x))
      BY <2>3, <2>4 DEF Puts
    <3> QED  BY <1>2, <1>5, <1>7, <1>8, <2>5, <3>1 DEF Place
  <2>6. \A a \in Players : Invitation(a)'
    <3>1. \A a \in Players : \A x : Waits(a, x) => Waits(a, x)'
      BY <1>2 DEF Waits
    <3> QED  BY <1>4, <2>5, <3>1, InvitationMoves
  <2>7. \A a \in Players : Acceptance(a)'
    <3>1. ASSUME NEW a \in Players, NEW x \in Everyone, NEW w, Stage(a, x, w)'
          PROVE  Stage(a, x, w)
      <4>1. /\ \A y \in Players : Has(fromMain'[y], Consent(a)) => Has(fromMain[y], Consent(a))
            /\ Has(fromMain'[a], Settle(x)) => Has(fromMain[a], Settle(x))
        BY <2>3, <2>4 DEF Puts
      <4> QED  BY <1>7, <3>1, <4>1 DEF Stage
    <3>2. \A a \in Players : \A x \in Everyone : Accepts(a, x) => Accepts(a, x)'
      BY <1>2 DEF Accepts
    <3> QED  BY <3>1, <3>2, AcceptanceStays
  <2>8. \A x \in Everyone : /\ n \in Ask(x) => ~Has(fromMain[q], Ask(x))
                            /\ n \in Answer(x) => ~Has(fromMain[q], Answer(x))
    <3>1. ~Has(fromMain[q], Ask(p))
      BY <1>1, <1>4, <2>1 DEF Place
    <3> QED  BY <2>4, <3>1
  <2> QED  BY <1>1, <1>2, <1>3, <2>1, <2>2, <2>3, <2>4, <2>6, <2>7, <2>8, MainRest
<1>10. CASE q \notin isOnline
  <2>1. PICK n \in Msgs : /\ Deliver(p, n) /\ n.type = "BEGINREQACK" /\ n.who = q /\ ~n.ok
    <3>1. Deliver(p, Msg("BEGINREQACK", q, FALSE, 0))
      BY <1>1, <1>10 DEF MainBegin, Relay
    <3> QED  BY <3>1, Written DEF Responses
  <2>2. Puts(fromMain, fromMain', p, n)
    BY <2>1, DeliverPuts
  <2>3. /\ n \notin OfSession /\ n \notin Settles
        /\ \A x : /\ (n \in Answer(x) <=> x = q) /\ n \notin Ask(x)
                  /\ n \notin Consent(x) /\ n \notin Settle(x)
    BY <2>1, Kinds DEF OfSession, Settles
  <2>4. ASSUME NEW a \in Players, NEW x \in Everyone, NEW w, Place(a, x, w)'
        PROVE  \/ Place(a, x, w) /\ ~(a = p /\ x = q /\ w = "asking")
               \/ a = p /\ x = q /\ w = "answered"
    <3>1. /\ \A y \in Players : Has(fromMain'[y], Ask(a)) => Has(fromMain[y], Ask(a))
          /\ Has(fromMain'[a], Answer(x)) => Has(fromMain[a], Answer(x)) \/ (a = p /\ x = q)
      BY <2>2, <2>3 DEF Puts
    <3> QED  BY <1>2, <1>5, <1>7, <1>8, <2>4, <3>1 DEF Place
  <2>5. \A a \in Players : Invitation(a)'
    <3>1. \A a \in Players : \A x : Waits(a, x) => Waits(a, x)'
      BY <1>2 DEF Waits
    <3> QED  BY <1>4, <2>4, <3>1, InvitationMoves
  <2>6. \A a \in Players : Acceptance(a)'
    <3>1. ASSUME NEW a \in Players, NEW x \in Everyone, NEW w, Stage(a, x, w)'
          PROVE  Stage(a, x, w)
      <4>1. /\ \A y \in Players : Has(fromMain'[y], Consent(a)) => Has(fromMain[y], Consent(a))
            /\ Has(fromMain'[a], Settle(x)) => Has(fromMain[a], Settle(x))
        BY <2>2, <2>3 DEF Puts
      <4> QED  BY <1>7, <3>1, <4>1 DEF Stage
    <3>2. \A a \in Players : \A x \in Everyone : Accepts(a, x) => Accepts(a, x)'
      BY <1>2 DEF Accepts
    <3> QED  BY <3>1, <3>2, AcceptanceStays
  <2>7. \A x \in Everyone : /\ n \in Ask(x) => ~Has(fromMain[p], Ask(x))
                            /\ n \in Answer(x) => ~Has(fromMain[p], Answer(x))
    <3>1. ~Has(fromMain[p], Answer(q))
      BY <1>1, <1>4 DEF Place
    <3> QED  BY <2>3, <3>1
  <2> QED  BY <1>1, <1>2, <1>3, <2>2, <2>3, <2>5, <2>6, <2>7, MainRest
<1> QED  BY <1>9, <1>10

\* An answer of p goes on to q, who asked.
LEMMA AnswerPassed ==
    ASSUME Inv, Inv', AllPolite, NEW p \in Players, NEW q \in Players,
           NEW types, Request(p, types), isOnline' = isOnline,
           NEW m \in Answer(q), m = Head(toMain[p]),
           NEW n \in Msgs, Deliver(q, n), n.type = m.type, n.who = p, n.ok = m.ok
    PROVE  AllPolite'
<1> DEFINE consent == m.type = "BEGINRESP" /\ m.ok
<1>0. consent <=> m.type = "BEGINRESP" /\ m.ok
  OBVIOUS
<1> HIDE DEF consent
<1>1. /\ m \in Msgs /\ m.who = q
      /\ m.type = "BEGINRESP" \/ (m.type = "BEGINREQACK" /\ ~m.ok)
      /\ Takes(toMain, toMain', p, m)
      /\ client' = client /\ fresh' = fresh
  BY RequestTakes DEF Answer
<1>4. /\ m \notin OfSession /\ m \notin Settles
      /\ \A x : /\ m \notin Ask(x) /\ (m \in Answer(x) <=> x = q)
                /\ (m \in Consent(x) <=> x = q /\ consent) /\ m \notin Settle(x)
  BY <1>0, <1>1, Kinds DEF OfSession, Settles
<1>5. p \in Everyone /\ q \in Everyone
  BY NamesFacts DEF Everyone
<1>6. /\ Waits(q, p)
      /\ \A x \in Everyone : \A w : Place(q, x, w) => w = "answering" /\ x = p
  <2>1. Place(q, p, "answering")
    BY <1>1, <1>4 DEF Place, Takes
  <2> QED  BY <1>5, <2>1, OnlyPlace
<1>9. Puts(fromMain, fromMain', q, n)
  BY DeliverPuts
<1>10. /\ n \notin OfSession /\ n \notin Settles
       /\ \A x : /\ n \notin Ask(x) /\ (n \in Answer(x) <=> x = p)
                 /\ (n \in Consent(x) <=> x = p /\ consent) /\ n \notin Settle(x)
  BY <1>0, <1>1, Kinds DEF OfSession, Settles
<1>11. /\ ~Has(toMain'[p], Answer(q)) /\ (consent => ~Has(toMain'[p], Consent(q)))
  <2>1. Once(toMain[p], Answer(q))
    BY <1>5, AllSole DEF Sole
  <2>2. Consent(q) \subseteq Answer(q)
    BY DEF Consent, Answer
  <2>3. Once(toMain[p], Consent(q))
    BY <2>1, <2>2, Fewer
  <2> QED  BY <1>1, <1>4, <2>1, <2>3 DEF Takes
<1>12. \A y \in Players : \A T : Has(toMain'[y], T) => Has(toMain[y], T)
  BY <1>1 DEF Takes
<1>13. fresh \subseteq Players
  BY DEF Inv, Typing
<1>14. ASSUME NEW a \in Players, NEW x \in Everyone, NEW w, Place(a, x, w)'
       PROVE  \/ Place(a, x, w) /\ ~(a = q /\ x = p /\ w = "answering")
              \/ a = q /\ x = p /\ w = "answered"
  <2>1. /\ \A y \in Players : Has(fromMain'[y], Ask(a)) => Has(fromMain[y], Ask(a))
        /\ Has(fromMain'[a], Answer(x)) => Has(fromMain[a], Answer(x)) \/ (a = q /\ x = p)
    BY <1>9, <1>10 DEF Puts
  <2> QED  BY <1>1, <1>11, <1>12, <1>13, <1>14, <2>1 DEF Place
<1>15. \A a \in Players : Invitation(a)'
  <2>1. \A a \in Players : \A x : Waits(a, x) => Waits(a, x)'
    BY <1>1 DEF Waits
  <2> QED  BY <1>6, <1>14, <2>1, InvitationMoves
<1>16. ASSUME NEW a \in Players, NEW x \in Everyone, NEW w, Stage(a, x, w)'
       PROVE  \/ Stage(a, x, w) /\ ~(consent /\ a = p /\ x = q /\ w = "consenting")
              \/ consent /\ a = p /\ x = q /\ w = "consented"
  <2>1. /\ \A y \in Players : Has(fromMain'[y], Consent(a)) =>
              Has(fromMain[y], Consent(a)) \/ (consent /\ y = q /\ a = p)
        /\ Has(fromMain'[a], Settle(x)) => Has(fromMain[a], Settle(x))
    BY <1>9, <1>10 DEF Puts
  <2> QED  BY <1>11, <1>12, <1>16, <2>1 DEF Stage
<1>17. \A a \in Players : Acceptance(a)'
  <2>1. \A a \in Players : \A x : Accepts(a, x) => Accepts(a, x)'
    BY <1>1 DEF Accepts
  <2>2. CASE consent
    <3>1. Stage(p, q, "consenting")
      BY <1>1, <1>4, <2>2 DEF Stage, Takes
    <3>2. /\ Accepts(p, q)
          /\ \A x \in Everyone : \A w : Stage(p, x, w) => w = "consenting" /\ x = q
      BY <1>5, <3>1, OnlyStage
    <3> QED  BY <1>16, <2>1, <2>2, <3>2, AcceptanceMoves
  <2>3. CASE ~consent
    BY <1>16, <2>1, <2>3, AcceptanceStays
  <2> QED  BY <2>2, <2>3
<1>18. \A x \in Everyone : /\ n \in Ask(x) => ~Has(fromMain[q], Ask(x))
                           /\ n \in Answer(x) => ~Has(fromMain[q], Answer(x))
  <2>1. ~Has(fromMain[q], Answer(p))
    BY <1>5, <1>6 DEF Place
  <2> QED  BY <1>10, <2>1
<1> QED  BY <1>4, <1>9, <1>10, <1>15, <1>17, <1>18, MainRest

\* An answer goes on to who asked, who is online.
LEMMA MainAnswerPolite ==
    ASSUME Inv, Inv', AllPolite, NEW p \in Players, MainBegin(p),
           Head(toMain[p]).type = "BEGINRESP"
    PROVE  AllPolite'
<1>1. PICK m \in Msgs, q \in Everyone :
        /\ m = Head(toMain[p]) /\ m.type = "BEGINRESP" /\ m.who = q
        /\ Takes(toMain, toMain', p, m)
  BY RequestTakes, MsgsFacts DEF MainBegin
<1>2. Request(p, {"BEGINREQ", "BEGINRESP"}) /\ isOnline' = isOnline
  BY DEF MainBegin, table
<1>3. q \in Players
  <2>1. m \notin Unsaid
    BY <1>1 DEF AllPolite, Polite, Silent, Takes
  <2> QED  BY <1>1, <2>1 DEF Unsaid
<1>4. m \in Answer(q)
  BY <1>1, Kinds
<1>5. q \in isOnline
  <2>1. p \in Everyone
    BY NamesFacts DEF Everyone
  <2>2. Place(q, p, "answering")
    BY <1>1, <1>4 DEF Place, Takes
  <2>3. Waits(q, p)
    BY <1>3, <2>1, <2>2, OnlyPlace
  <2> QED  BY <1>3, <2>3, WaitingOnline DEF Waits
<1>6. PICK n : n = [m EXCEPT !.who = p]
  OBVIOUS
<1>7. Deliver(q, n)
  BY <1>1, <1>5, <1>6 DEF MainBegin, Relay
<1>8. n \in Msgs /\ n.type = m.type /\ n.who = p /\ n.ok = m.ok
  BY <1>1, <1>6, PassedOn
<1> QED  BY <1>1, <1>2, <1>3, <1>4, <1>7, <1>8, AnswerPassed

\* Whether a question was taken is passed on, or told to nobody.
LEMMA MainAskAckPolite ==
    ASSUME Inv, Inv', AllPolite, NEW p \in Players, MainBeginAck(p),
           Head(toMain[p]).type = "BEGINREQACK"
    PROVE  AllPolite'
<1>1. PICK m \in Msgs, q \in Everyone :
        /\ m = Head(toMain[p]) /\ m.type = "BEGINREQACK" /\ m.who = q
        /\ Takes(toMain, toMain', p, m) /\ client' = client
  BY RequestTakes, MsgsFacts DEF MainBeginAck
<1>2. Request(p, {"BEGINREQACK", "BEGINRESPACK"}) /\ isOnline' = isOnline
  BY DEF MainBeginAck, table
<1>3. m \notin OfSession
  BY <1>1 DEF OfSession
<1>4. CASE q \notin isOnline
  <2>1. fromMain' = fromMain
    BY <1>1, <1>4 DEF MainBeginAck, Relay
  <2>2. \A a \in Players : Session(a)'
    BY <1>2, <2>1, SessionsLost, SessionsSame
  <2> QED  BY <1>1, <1>2, <2>1, <2>2, QuietMain
<1>5. CASE q \in isOnline
  <2>0. q \in Players
    BY <1>5 DEF Inv, Typing
  <2>1. PICK n : n = [m EXCEPT !.who = p]
    OBVIOUS
  <2>2. Deliver(q, n)
    BY <1>1, <1>5, <2>1 DEF MainBeginAck, Relay
  <2>3. n \in Msgs /\ n.type = m.type /\ n.who = p /\ n.ok = m.ok
    BY <1>1, <2>1, PassedOn
  <2>4. CASE m.ok
    <3>1. n \in Msgs \ Tokens /\ n \notin OfSession
      BY <1>1, <2>3, <2>4 DEF Tokens, OfSession
    <3>2. Puts(fromMain, fromMain', q, n)
      BY <2>0, <2>2, <2>3, DeliverPuts
    <3>3. SameSessions(fromMain, fromMain')
      BY <3>1, <3>2, SessionsPut
    <3>4. \A a \in Players : Session(a)'
      BY <1>2, <3>3, SessionsLost
    <3>5. Head(toMain[p]).type # "BEGINRESPACK"
      BY <1>1
    <3> QED  BY <1>2, <2>0, <3>1, <3>2, <3>4, <3>5, QuietMain
  <2>5. CASE ~m.ok
    <3>1. m \in Answer(q)
      BY <1>1, <2>5, Kinds
    <3> QED  BY <1>1, <1>2, <2>0, <2>2, <2>3, <3>1, AnswerPassed
  <2> QED  BY <2>4, <2>5
<1> QED  BY <1>4, <1>5

\* Where to connect to goes on to who has accepted, who is online.
LEMMA MainSettlePolite ==
    ASSUME Inv, Inv', AllPolite, NEW p \in Players, MainBeginAck(p),
           Head(toMain[p]).type = "BEGINRESPACK"
    PROVE  AllPolite'
<1>1. PICK m \in Msgs, q \in Everyone :
        /\ m = Head(toMain[p]) /\ m.type = "BEGINRESPACK" /\ m.who = q
        /\ Takes(toMain, toMain', p, m)
        /\ client' = client /\ fresh' = fresh /\ left' = left
  BY RequestTakes, MsgsFacts DEF MainBeginAck
<1>2. Request(p, {"BEGINREQACK", "BEGINRESPACK"}) /\ isOnline' = isOnline
  BY DEF MainBeginAck, table
<1>3. m.ok /\ m \notin OfSession /\ m \notin Unsaid
  <2>1. m \notin Unsaid
    BY <1>1 DEF AllPolite, Polite, Silent, Takes
  <2> QED  BY <1>1, <2>1 DEF Unsaid, OfSession
<1>4. m \in Settle(q)
  BY <1>1, Kinds
<1>5. p \in Everyone
  BY NamesFacts DEF Everyone
<1>6. NoMore(toMain, toMain')
  BY <1>1, QuietTake
<1>7. CASE q \notin Players
  <2>1. q \notin isOnline
    BY <1>7 DEF Inv, Typing
  <2>2. fromMain' = fromMain
    BY <1>1, <2>1 DEF MainBeginAck, Relay
  <2>3. \A a \in Players : Session(a)'
    BY <1>2, <2>2, SessionsLost, SessionsSame
  <2>4. NoMore(fromMain, fromMain')
    BY <2>2, QuietSame
  <2>5. ASSUME NEW a \in Players, NEW x \in Players, NEW k \in Nat, Summoned(a, x, k)
        PROVE  Summoned(a, x, k)'
    <3>1. m \notin Summon(x, k)
      BY <1>1, <1>7, Kinds
    <3> QED  BY <1>1, <2>2, <2>5, <3>1 DEF Summoned, Takes
  <2>6. \A a \in Players : Has(toMain'[a], Farewells) => Has(toMain[a], Farewells)
    BY <1>1 DEF Takes
  <2>7. Calm(p, client[p], client'[p])
    BY <1>1, KeepsCalm DEF Calm
  <2> QED  BY <1>1, <1>6, <2>3, <2>4, <2>5, <2>6, <2>7, Quiet
<1>8. CASE q \in Players
  <2>1. /\ Accepts(q, p)
        /\ \A x \in Everyone : \A w : Stage(q, x, w) => w = "settling" /\ x = p
    <3>1. Stage(q, p, "settling")
      BY <1>1, <1>4 DEF Stage, Takes
    <3> QED  BY <1>5, <1>8, <3>1, OnlyStage
  <2>2. q \in isOnline
    BY <1>8, <2>1, WaitingOnline DEF Accepts
  <2>3. PICK n : n = [m EXCEPT !.who = p]
    OBVIOUS
  <2>4. Deliver(q, n)
    BY <1>1, <2>2, <2>3 DEF MainBeginAck, Relay
  <2>5. n \in Msgs /\ n.type = m.type /\ n.who = p /\ n.ok = m.ok /\ n.port = m.port
    BY <1>1, <2>3, PassedOn
  <2>6. Puts(fromMain, fromMain', q, n)
    BY <1>8, <2>4, <2>5, DeliverPuts
  <2>7. /\ n \notin OfSession /\ n \notin Unsaid
        /\ \A x : /\ n \notin Ask(x) /\ n \notin Answer(x)
                  /\ n \notin Consent(x) /\ (n \in Settle(x) <=> x = p)
        /\ \A x, k : n \in Summon(x, k) <=> x = p /\ k = m.port
    BY <1>1, <1>3, <2>5, Kinds DEF OfSession
  <2>8. ~Has(toMain'[p], Settle(q))
    <3>1. Once(toMain[p], Settle(q))
      BY <1>1, AllSole DEF Sole
    <3> QED  BY <1>1, <1>4, <3>1 DEF Takes
  <2>9. \A y \in Players : \A T : Has(toMain'[y], T) => Has(toMain[y], T)
    BY <1>1 DEF Takes
  <2>10. \A a \in Players : Sole(toMain'[a])
    BY <1>1, AllSole, SoleTake
  <2>11. \A a \in Players : Sole(fromMain'[a])
    <3>1. ~Has(fromMain[q], Settle(p))
      BY <1>5, <2>1 DEF Stage
    <3>2. \A x \in Everyone : /\ n \in Ask(x) => ~Has(fromMain[q], Ask(x))
                              /\ n \in Answer(x) => ~Has(fromMain[q], Answer(x))
                              /\ n \in Settle(x) => ~Has(fromMain[q], Settle(x))
      BY <2>7, <3>1
    <3> QED  BY <1>8, <2>6, <3>2, AllSole, SolePut
  <2>12. \A a \in Players : Invitation(a)'
    <3>1. ASSUME NEW a \in Players, NEW x \in Everyone, NEW w, Place(a, x, w)'
          PROVE  Place(a, x, w)
      <4>1. \A y \in Players : /\ Has(fromMain'[y], Ask(a)) => Has(fromMain[y], Ask(a))
                               /\ Has(fromMain'[y], Answer(x)) => Has(fromMain[y], Answer(x))
        BY <2>6, <2>7 DEF Puts
      <4>2. fresh \subseteq Players
        BY DEF Inv, Typing
      <4> QED  BY <1>1, <2>9, <3>1, <4>1, <4>2 DEF Place
    <3>2. \A a \in Players : \A x : Waits(a, x) => Waits(a, x)'
      BY <1>1 DEF Waits
    <3> QED  BY <3>1, <3>2 DEF AllPolite, Polite, Invitation
  <2>13. \A a \in Players : Acceptance(a)'
    <3>1. ASSUME NEW a \in Players, NEW x \in Everyone, NEW w, Stage(a, x, w)'
          PROVE  \/ Stage(a, x, w) /\ ~(a = q /\ x = p /\ w = "settling")
                 \/ a = q /\ x = p /\ w = "settled"
      <4>1. /\ \A y \in Players : Has(fromMain'[y], Consent(a)) => Has(fromMain[y], Consent(a))
            /\ Has(fromMain'[a], Settle(x)) => Has(fromMain[a], Settle(x)) \/ (a = q /\ x = p)
        BY <2>6, <2>7 DEF Puts
      <4> QED  BY <2>8, <2>9, <3>1, <4>1 DEF Stage
    <3>2. \A a \in Players : \A x : Accepts(a, x) => Accepts(a, x)'
      BY <1>1 DEF Accepts
    <3>3. \A x \in Everyone : \A w :
              Stage(q, x, w)' => w = "settled" /\ x = p /\ Accepts(q, p)'
      BY <1>5, <1>8, <2>1, <3>1, <3>2
    <3>4. \A a \in Players \ {q} : \A x \in Everyone : \A w :
              Stage(a, x, w)' => Stage(a, x, w)
      BY <3>1
    <3>5. \A a \in Players \ {q} : \A x \in Everyone : Accepts(a, x) => Accepts(a, x)'
      BY <3>2
    <3> QED  BY <1>8, <3>3, <3>4, <3>5, AcceptanceMoves
  <2>14. ASSUME NEW a \in Players, NEW x \in Players, NEW k
         PROVE  Summoned(a, x, k)' <=> Summoned(a, x, k)
    <3>1. \A y, j : m \in Summon(y, j) <=> y = q /\ j = m.port
      BY <1>1, <1>3, Kinds
    <3>2. Has(toMain[a], Summon(x, k)) <=>
            Has(toMain'[a], Summon(x, k)) \/ (a = p /\ x = q /\ k = m.port)
      BY <1>1, <3>1 DEF Takes
    <3>3. Has(fromMain'[x], Summon(a, k)) <=>
            Has(fromMain[x], Summon(a, k)) \/ (a = p /\ x = q /\ k = m.port)
      BY <2>6, <2>7 DEF Puts
    <3> QED  BY <3>2, <3>3 DEF Summoned
  <2>15. ASSUME NEW a \in Players
         PROVE  Standing(a)' /\ Agreed(a)' /\ Silent(a)' /\ AtRest(a)'
    <3>1. Standing(a) /\ Agreed(a) /\ Silent(a) /\ AtRest(a)
      BY DEF AllPolite, Polite
    <3>2. \A b, x, k : Stands(b, x, k)' <=> Stands(b, x, k)
      BY <1>1 DEF Stands
    <3>3. Standing(a)'
      BY <2>14, <3>1, <3>2 DEF Standing
    <3>4. Agreed(a)'
      <4> SUFFICES ASSUME client[a].status = "on_match"
                   PROVE  /\ client[a].rival \in Players
                          /\ \/ Stands(client[a].rival, a, client[a].port)'
                             \/ Summoned(a, client[a].rival, client[a].port)'
        BY <1>1 DEF Agreed, Stands, Summoned
      <4>1. PICK x, k : x \in Players /\ x = client[a].rival /\ k = client[a].port
        BY <3>1 DEF Agreed
      <4>2. Stands(x, a, k) \/ Summoned(a, x, k)
        BY <3>1, <4>1 DEF Agreed
      <4>3. Stands(x, a, k)' \/ Summoned(a, x, k)'
        BY <2>14, <3>2, <4>1, <4>2
      <4> QED  BY <1>1, <4>1, <4>3 DEF Stands, Summoned
    <3>5. Silent(a)'
      <4>1. ~Has(toMain'[a], Unsaid) /\ (Has(toMain'[a], Farewells) => Has(toMain[a], Farewells))
        BY <2>9, <3>1 DEF Silent
      <4>2. ~Has(fromMain'[a], Unsaid)
        BY <2>6, <2>7, <3>1 DEF Silent, Puts
      <4> QED  BY <1>1, <3>1, <4>1, <4>2 DEF Silent
    <3>6. AtRest(a)'
      BY <1>1, <3>1 DEF AtRest
    <3> QED  BY <3>3, <3>4, <3>5, <3>6
  <2>16. \A a \in Players : Session(a)'
    <3>1. SameSessions(fromMain, fromMain')
      BY <2>6, <2>7, SessionsPut
    <3> QED  BY <1>2, <3>1, SessionsLost
  <2> QED  BY <2>10, <2>11, <2>12, <2>13, <2>15, <2>16, PoliteParts
<1> QED  BY <1>7, <1>8

\* What stays when a client reads a message of an invitation.
LEMMA ReadRest ==
    ASSUME Inv, AllPolite, NEW p \in Players, NEW type, Reads(p, type),
           Head(fromMain[p]) \notin Settles, Head(fromMain[p]) \notin OfSession,
           \/ toMain' = toMain
           \/ \E m \in Msgs \ (Settles \cup OfSession \cup Farewells) :
                 /\ Puts(toMain, toMain', p, m)
                 /\ \A x \in Everyone : /\ m \in Ask(x) => ~Has(toMain[p], Ask(x))
                                        /\ m \in Answer(x) => ~Has(toMain[p], Answer(x)),
           left' = left,
           \A a \in Players \ {p} : client'[a] = client[a],
           client'[p].rival = client[p].rival, client'[p].port = client[p].port,
           \/ client'[p].status = client[p].status
           \/ client[p].status = "waiting" /\ client'[p].status = "logged",
           AtRest(p)',
           \A a \in Players : Invitation(a)', \A a \in Players : Acceptance(a)'
    PROVE  AllPolite'
<1>1. /\ Takes(fromMain, fromMain', p, Head(fromMain[p]))
      /\ client[p].status # "gone" /\ isOnline' = isOnline
  BY ReadTakes
<1>2. \A a \in Players : Sole(fromMain'[a])
  BY <1>1, AllSole, SoleTake
<1>3. \A a \in Players : Sole(toMain'[a])
  <2>1. CASE toMain' = toMain
    BY <2>1, AllSole
  <2>2. ASSUME NEW m \in Msgs \ (Settles \cup OfSession \cup Farewells),
               Puts(toMain, toMain', p, m),
               \A x \in Everyone : /\ m \in Ask(x) => ~Has(toMain[p], Ask(x))
                                   /\ m \in Answer(x) => ~Has(toMain[p], Answer(x))
        PROVE  \A a \in Players : Sole(toMain'[a])
    <3>1. \A x \in Everyone : m \notin Settle(x)
      BY Kinds DEF Settles
    <3>2. \A x \in Everyone : /\ m \in Ask(x) => ~Has(toMain[p], Ask(x))
                              /\ m \in Answer(x) => ~Has(toMain[p], Answer(x))
                              /\ m \in Settle(x) => ~Has(toMain[p], Settle(x))
      BY <2>2, <3>1
    <3> QED  BY <2>2, <3>2, AllSole, SolePut
  <2> QED  BY <2>1, <2>2
<1>4. \A a \in Players : Session(a)'
  <2>1. SameSessions(toMain, toMain') /\ SameSessions(fromMain, fromMain')
    BY <1>1, SessionsTake, SessionsPut, SessionsSame
  <2> QED  BY <1>1, <2>1, SessionsKept
<1>5. \A a \in Players : Standing(a)' /\ Agreed(a)' /\ Silent(a)' /\ AtRest(a)'
  <2>1. SameSettles(toMain, toMain') /\ SameSettles(fromMain, fromMain')
    BY <1>1, SettlesTake, SettlesPut, SettlesSame
  <2>2. \A a \in Players : Has(toMain'[a], Farewells) => Has(toMain[a], Farewells)
    BY DEF Puts
  <2> QED  BY <1>1, <2>1, <2>2, RestKept
<1> QED  BY <1>2, <1>3, <1>4, <1>5, PoliteParts

\* p is asked: it shows the invitation, or answers that it cannot be invited.
LEMMA ReadBeginReqPolite ==
    ASSUME Inv, Inv', AllPolite, NEW p \in Players, ReadBeginReq(p)
    PROVE  AllPolite'
<1>1. PICK m \in Msgs, from \in Players :
        /\ m = Head(fromMain[p]) /\ m.type = "BEGINREQ" /\ m.who = from
        /\ Takes(fromMain, fromMain', p, m)
        /\ client[p].status # "gone" /\ isOnline' = isOnline
  BY ReadTakes DEF ReadBeginReq
<1>2. /\ Reads(p, "BEGINREQ") /\ left' = left
      /\ client \in [Players -> Clients] /\ fresh \subseteq Players
  BY QueueTypes DEF ReadBeginReq, Inv, Typing
<1>3. p \in Everyone /\ from \in Everyone
  BY NamesFacts DEF Everyone
<1>4. /\ m \notin OfSession /\ m \notin Settles
      /\ \A x : /\ (m \in Ask(x) <=> x = from) /\ m \notin Answer(x)
                /\ m \notin Consent(x) /\ m \notin Settle(x)
  BY <1>1, Kinds DEF OfSession, Settles
<1>5. PICK ok \in BOOLEAN : ok = CanBeInvited(p, from)
  BY DEF CanBeInvited
<1>6. PICK n \in Msgs : /\ Send(p, <<n>>) /\ n.type = "BEGINREQACK"
                        /\ n.who = from /\ n.ok = ok
  <2>1. Send(p, <<Msg("BEGINREQACK", from, ok, 0)>>)
    BY <1>1, <1>5 DEF ReadBeginReq
  <2> QED  BY <1>3, <2>1, Written DEF Requests
<1>7. Puts(toMain, toMain', p, n)
  BY <1>6, SendPuts
<1>8. /\ n \notin OfSession /\ n \notin Settles /\ n \notin Farewells
      /\ \A x : /\ n \notin Ask(x) /\ (n \in Answer(x) <=> x = from /\ ~ok)
                /\ n \notin Consent(x) /\ n \notin Settle(x)
  BY <1>6, Kinds DEF OfSession, Settles
<1>9. \/ ok /\ client' = [client EXCEPT ![p].inviteFrom = from] /\ fresh' = fresh \cup {p}
      \/ ~ok /\ client' = client /\ fresh' = fresh
  BY <1>1, <1>5 DEF ReadBeginReq
<1>10. /\ client'[p].status = client[p].status
       /\ client'[p].inviteTo = client[p].inviteTo /\ client'[p].poll = client[p].poll
       /\ client'[p].rival = client[p].rival /\ client'[p].port = client[p].port
       /\ client'[p].inviteFrom = IF ok THEN from ELSE client[p].inviteFrom
       /\ \A a \in Players \ {p} : client'[a] = client[a]
  BY <1>2, <1>9 DEF Clients
<1>11. ok => client[p].status \notin {"waiting", "on_match"}
  BY <1>5 DEF CanBeInvited
<1>12. AtRest(p)'
  <2>1. AtRest(p)
    BY DEF AllPolite, Polite
  <2> QED  BY <1>10, <2>1 DEF AtRest
<1>13. /\ Waits(from, p)
       /\ \A x \in Everyone : \A w : Place(from, x, w) => w = "asked" /\ x = p
  <2>1. Place(from, p, "asked")
    BY <1>1, <1>4 DEF Place, Takes
  <2> QED  BY <1>3, <2>1, OnlyPlace
<1>14. ~Has(fromMain'[p], Ask(from))
  <2>1. Once(fromMain[p], Ask(from))
    BY <1>3, AllSole DEF Sole
  <2> QED  BY <1>1, <1>4, <2>1 DEF Takes
<1>15. \A y \in Players : \A T : Has(fromMain'[y], T) => Has(fromMain[y], T)
  BY <1>1 DEF Takes
<1>16. PICK v : v = IF ok THEN "shown" ELSE "answering"
  OBVIOUS
<1>17. ASSUME NEW a \in Players, NEW x \in Everyone, NEW w, Place(a, x, w)'
       PROVE  \/ Place(a, x, w) /\ ~(a = from /\ x = p /\ w = "asked")
              \/ a = from /\ x = p /\ w = v
  <2>1. /\ Has(toMain'[a], Ask(x)) => Has(toMain[a], Ask(x))
        /\ \A y \in Players : Has(toMain'[y], Answer(a)) =>
              Has(toMain[y], Answer(a)) \/ (y = p /\ a = from /\ ~ok)
    BY <1>7, <1>8 DEF Puts
  <2>2. x \in fresh' /\ client'[x].inviteFrom = a =>
          \/ x \in fresh /\ client[x].inviteFrom = a
          \/ x = p /\ a = from /\ ok
    BY <1>2, <1>9, <1>10
  <2> QED  BY <1>14, <1>15, <1>16, <1>17, <2>1, <2>2 DEF Place
<1>18. \A a \in Players : Invitation(a)'
  <2>1. \A a \in Players : \A x : Waits(a, x) => Waits(a, x)'
    BY <1>10 DEF Waits
  <2>2. \A x \in Everyone : \A w : Place(from, x, w)' => w = v /\ x = p /\ Waits(from, p)'
    BY <1>13, <1>17, <2>1
  <2>3. \A a \in Players \ {from} : \A x \in Everyone : \A w :
            Place(a, x, w)' => Place(a, x, w)
    BY <1>17
  <2> QED  BY <2>1, <2>2, <2>3, InvitationMoves
<1>19. \A a \in Players : Acceptance(a)'
  <2>1. ASSUME NEW a \in Players, NEW x \in Everyone, NEW w, Stage(a, x, w)'
        PROVE  Stage(a, x, w)
    <3>1. /\ Has(toMain'[a], Consent(x)) => Has(toMain[a], Consent(x))
          /\ \A y \in Players : Has(toMain'[y], Settle(a)) => Has(toMain[y], Settle(a))
      BY <1>7, <1>8 DEF Puts
    <3> QED  BY <1>15, <2>1, <3>1 DEF Stage
  <2>2. \A a \in Players : \A x \in Everyone : Accepts(a, x) => Accepts(a, x)'
    BY <1>10, <1>11 DEF Accepts
  <2> QED  BY <2>1, <2>2, AcceptanceStays
<1>20. \A x \in Everyone : /\ n \in Ask(x) => ~Has(toMain[p], Ask(x))
                           /\ n \in Answer(x) => ~Has(toMain[p], Answer(x))
  <2>1. ~Has(toMain[p], Answer(from))
    BY <1>3, <1>13 DEF Place
  <2> QED  BY <1>8, <2>1
<1>21. n \in Msgs \ (Settles \cup OfSession \cup Farewells)
  BY <1>8
<1> QED  BY <1>1, <1>2, <1>4, <1>7, <1>10, <1>12, <1>18, <1>19, <1>20, <1>21, ReadRest

-----------------------------------------------------------------------------
\* p is told that nothing comes of its invitation.
LEMMA Declined ==
    ASSUME Inv, Inv', AllPolite, NEW p \in Players, NEW type, Reads(p, type),
           NEW m \in Msgs, m = Head(fromMain[p]), m \in Answer(m.who),
           m.type = "BEGINRESP" => m.who \in Players /\ ~m.ok,
           client' = [client EXCEPT ![p].status = "logged", ![p].inviteTo = NoOne],
           toMain' = toMain, fresh' = fresh, left' = left
    PROVE  AllPolite'
<1>1. PICK q \in Everyone : q = m.who
  BY MsgsFacts
<1>2. /\ Takes(fromMain, fromMain', p, m) /\ isOnline' = isOnline
      /\ client \in [Players -> Clients] /\ fresh \subseteq Players
  BY ReadTakes, QueueTypes DEF Inv, Typing
<1>3. /\ m.type = "BEGINRESP" \/ (m.type = "BEGINREQACK" /\ ~m.ok)
      /\ m \in Answer(q)
  BY <1>1, Kinds
<1>4. /\ m \notin OfSession /\ m \notin Settles
      /\ \A x : /\ m \notin Ask(x) /\ (m \in Answer(x) <=> x = q)
                /\ m \notin Consent(x) /\ m \notin Settle(x)
  BY <1>1, <1>3, Kinds DEF OfSession, Settles
<1>5. /\ Waits(p, q)
      /\ \A x \in Everyone : \A w : Place(p, x, w) => w = "answered" /\ x = q
  <2>1. Place(p, q, "answered")
    BY <1>2, <1>3 DEF Place, Takes
  <2> QED  BY <2>1, OnlyPlace
<1>6. /\ client'[p].status = "logged" /\ client'[p].inviteTo = NoOne
      /\ client'[p].inviteFrom = client[p].inviteFrom /\ client'[p].poll = client[p].poll
      /\ client'[p].rival = client[p].rival /\ client'[p].port = client[p].port
      /\ \A a \in Players \ {p} : client'[a] = client[a]
  BY <1>2 DEF Clients
<1>7. AtRest(p)'
  <2>1. AtRest(p)
    BY DEF AllPolite, Polite
  <2> QED  BY <1>5, <1>6, <2>1 DEF AtRest, Waits
<1>8. ~Has(fromMain'[p], Answer(q))
  <2>1. Once(fromMain[p], Answer(q))
    BY AllSole DEF Sole
  <2> QED  BY <1>2, <1>3, <2>1 DEF Takes
<1>9. \A y \in Players : \A T : Has(fromMain'[y], T) => Has(fromMain[y], T)
  BY <1>2 DEF Takes
<1>10. \A a \in Players : Invitation(a)'
  <2>1. ASSUME NEW a \in Players, NEW x \in Everyone, NEW w, Place(a, x, w)'
        PROVE  Place(a, x, w) /\ ~(a = p /\ x = q /\ w = "answered")
    <3>1. \A y \in Players : client'[y].inviteFrom = client[y].inviteFrom
      BY <1>6
    <3> QED  BY <1>2, <1>8, <1>9, <2>1, <3>1 DEF Place
  <2>2. \A x \in Everyone : \A w :
            Place(p, x, w)' => w = "answered" /\ x = q /\ Waits(p, q)'
    BY <1>5, <2>1
  <2>3. \A a \in Players \ {p} : \A x \in Everyone : Waits(a, x) => Waits(a, x)'
    BY <1>6 DEF Waits
  <2>4. \A a \in Players \ {p} : \A x \in Everyone : \A w : Place(a, x, w)' => Place(a, x, w)
    BY <2>1
  <2> QED  BY <2>2, <2>3, <2>4, InvitationMoves
<1>11. \A a \in Players : Acceptance(a)'
  <2>1. ASSUME NEW a \in Players, NEW x \in Everyone, NEW w, Stage(a, x, w)'
        PROVE  Stage(a, x, w)
    BY <1>9, <2>1 DEF Stage
  <2>2. \A a \in Players : \A x \in Everyone : Accepts(a, x) => Accepts(a, x)'
    BY <1>5, <1>6 DEF Accepts, Waits
  <2> QED  BY <2>1, <2>2, AcceptanceStays
<1> QED  BY <1>4, <1>5, <1>6, <1>7, <1>10, <1>11, ReadRest DEF Waits

LEMMA ReadBeginReqAckPolite ==
    ASSUME Inv, Inv', AllPolite, NEW p \in Players, ReadBeginReqAck(p)
    PROVE  AllPolite'
<1>1. PICK m \in Msgs :
        /\ m = Head(fromMain[p]) /\ m.type = "BEGINREQACK"
        /\ Takes(fromMain, fromMain', p, m) /\ isOnline' = isOnline
  BY ReadTakes DEF ReadBeginReqAck
<1>2. /\ Reads(p, "BEGINREQACK") /\ toMain' = toMain /\ fresh' = fresh /\ left' = left
  BY DEF ReadBeginReqAck
<1>3. CASE m.ok
  <2>1. client' = client
    BY <1>1, <1>3 DEF ReadBeginReqAck
  <2>2. Calm(p, client[p], client'[p])
    BY <2>1, KeepsCalm DEF Calm
  <2>3. m.type # "BEGINRESPACK" /\ m \notin OfSession
    BY <1>1 DEF OfSession
  <2> QED  BY <1>1, <1>2, <2>1, <2>2, <2>3, QuietAlone
<1>4. CASE ~m.ok
  <2>1. m \in Answer(m.who)
    BY <1>1, <1>4, Kinds
  <2>2. client' = [client EXCEPT ![p].status = "logged", ![p].inviteTo = NoOne]
    BY <1>1, <1>4 DEF ReadBeginReqAck
  <2> QED  BY <1>1, <1>2, <2>1, <2>2, Declined
<1> QED  BY <1>3, <1>4

\* Who is on no match stands by those it has left, wherever it goes.
LEMMA StandsOn ==
    ASSUME NEW p \in Players, client[p].status \notin {"on_match", "gone"},
           \A a \in Players \ {p} : client'[a] = client[a], left' = left
    PROVE  \A b \in Players : \A x, k : Stands(b, x, k) => Stands(b, x, k)'
BY DEF Stands

\* p has its invitation accepted by q, and tells q where it listens.
LEMMA ListenPolite ==
    ASSUME Inv, Inv', AllPolite, NEW p \in Players, NEW q \in Players,
           Reads(p, "BEGINRESP"),
           NEW m \in Consent(q), m = Head(fromMain[p]), Waits(p, q),
           StartListening(p, q), fresh' = fresh, left' = left
    PROVE  AllPolite'
<1>1. /\ m \in Msgs /\ m.type = "BEGINRESP" /\ m.ok /\ m.who = q
      /\ Takes(fromMain, fromMain', p, m) /\ isOnline' = isOnline
      /\ client \in [Players -> Clients] /\ fresh \subseteq Players /\ ports \in Nat
  BY ReadTakes, QueueTypes DEF Consent, Inv, Typing
<1>2. p \in Everyone /\ q \in Everyone
  BY NamesFacts DEF Everyone
<1>3. /\ m \notin OfSession /\ m \notin Settles
      /\ \A x : /\ m \notin Ask(x) /\ (m \in Answer(x) <=> x = q)
                /\ (m \in Consent(x) <=> x = q) /\ m \notin Settle(x)
      /\ \A x, j : m \notin Summon(x, j)
  BY <1>1, Kinds DEF OfSession, Settles
<1>4. PICK k \in Nat : k = ports'
  BY <1>1 DEF StartListening, createGameListingSocket
<1>5. PICK n \in Msgs : /\ Send(p, <<n>>) /\ n.type = "BEGINRESPACK"
                        /\ n.who = q /\ n.ok /\ n.port = k
  <2>1. Send(p, <<Msg("BEGINRESPACK", q, TRUE, k)>>)
    BY <1>4 DEF StartListening
  <2>2. PICK n : n = Msg("BEGINRESPACK", q, TRUE, k)
    OBVIOUS
  <2>3. /\ n \in Msgs /\ n.type = "BEGINRESPACK" /\ n.who = q
        /\ n.ok /\ n.port = k
    BY <1>2, <1>4, <2>2 DEF Msg, Msgs, MessagesOf, Everyone, Requests
  <2> QED  BY <2>1, <2>2, <2>3
<1>6. Puts(toMain, toMain', p, n)
  BY <1>5, SendPuts
<1>7. /\ n \notin OfSession /\ n \notin Unsaid /\ n \notin Farewells
      /\ \A x : /\ n \notin Ask(x) /\ n \notin Answer(x) /\ n \notin Consent(x)
                /\ (n \in Settle(x) <=> x = q)
      /\ \A x, j : n \in Summon(x, j) <=> x = q /\ j = k
  BY <1>5, Kinds DEF OfSession
<1>8. /\ client'[p].status = "on_match" /\ client'[p].inviteTo = NoOne
      /\ client'[p].inviteFrom = NoOne /\ client'[p].rival = q /\ client'[p].port = k
      /\ \A a \in Players \ {p} : client'[a] = client[a]
  BY <1>1, <1>4 DEF StartListening
<1>9. client[p].status = "waiting" /\ client[p].inviteTo = q /\ q # NoOne
  BY DEF Waits
<1>10. \A x \in Everyone : \A w : Place(p, x, w) => w = "answered" /\ x = q
  <2>1. Place(p, q, "answered")
    BY <1>1, <1>3 DEF Place, Takes
  <2> QED  BY <1>2, <2>1, OnlyPlace
<1>11. /\ Accepts(q, p)
       /\ \A x \in Everyone : \A w : Stage(q, x, w) => w = "consented" /\ x = p
  <2>1. Stage(q, p, "consented")
    BY <1>1, <1>3 DEF Stage, Takes
  <2> QED  BY <1>2, <2>1, OnlyStage
<1>12. q # p
  BY <1>9, <1>11 DEF Accepts
<1>13. ~Has(fromMain'[p], Answer(q)) /\ ~Has(fromMain'[p], Consent(q))
  <2>1. Once(fromMain[p], Answer(q))
    BY <1>2, AllSole DEF Sole
  <2>2. Consent(q) \subseteq Answer(q)
    BY DEF Consent, Answer
  <2>3. ~Has(fromMain'[p], Answer(q))
    BY <1>1, <1>3, <2>1 DEF Takes
  <2> QED  BY <2>2, <2>3, Fewer
<1>14. \A y \in Players : \A T : Has(fromMain'[y], T) => Has(fromMain[y], T)
  BY <1>1 DEF Takes
<1>15. \A a \in Players : Sole(fromMain'[a])
  BY <1>1, AllSole, SoleTake
<1>16. \A a \in Players : Sole(toMain'[a])
  <2>1. ~Has(toMain[p], Settle(q))
    BY <1>2, <1>11 DEF Stage
  <2>2. \A x \in Everyone : /\ n \in Ask(x) => ~Has(toMain[p], Ask(x))
                            /\ n \in Answer(x) => ~Has(toMain[p], Answer(x))
                            /\ n \in Settle(x) => ~Has(toMain[p], Settle(x))
    BY <1>7, <2>1
  <2> QED  BY <1>6, <2>2, AllSole, SolePut
<1>17. \A a \in Players : Invitation(a)'
  <2>1. ASSUME NEW a \in Players, NEW x \in Everyone, NEW w, Place(a, x, w)'
        PROVE  Place(a, x, w) /\ ~(a = p /\ x = q /\ w = "answered")
    <3>1. x \in fresh' /\ client'[x].inviteFrom = a => x \in fresh /\ client[x].inviteFrom = a
      BY <1>1, <1>8, NamesFacts
    <3>2. /\ Has(toMain'[a], Ask(x)) => Has(toMain[a], Ask(x))
          /\ \A y \in Players : Has(toMain'[y], Answer(a)) => Has(toMain[y], Answer(a))
      BY <1>6, <1>7 DEF Puts
    <3> QED  BY <1>13, <1>14, <2>1, <3>1, <3>2 DEF Place
  <2>2. \A x \in Everyone : \A w :
            Place(p, x, w)' => w = "answered" /\ x = q /\ Waits(p, q)'
    BY <1>10, <2>1
  <2>3. \A a \in Players \ {p} : \A x \in Everyone : Waits(a, x) => Waits(a, x)'
    BY <1>8 DEF Waits
  <2>4. \A a \in Players \ {p} : \A x \in Everyone : \A w : Place(a, x, w)' => Place(a, x, w)
    BY <2>1
  <2> QED  BY <2>2, <2>3, <2>4, InvitationMoves
<1>18. \A a \in Players : Acceptance(a)'
  <2>1. ASSUME NEW a \in Players, NEW x \in Everyone, NEW w, Stage(a, x, w)'
        PROVE  \/ Stage(a, x, w) /\ ~(a = q /\ x = p /\ w = "consented")
               \/ a = q /\ x = p /\ w = "settling"
    <3>1. /\ Has(toMain'[a], Consent(x)) => Has(toMain[a], Consent(x))
          /\ \A y \in Players : Has(toMain'[y], Settle(a)) =>
                Has(toMain[y], Settle(a)) \/ (y = p /\ a = q)
      BY <1>6, <1>7 DEF Puts
    <3> QED  BY <1>13, <1>14, <2>1, <3>1 DEF Stage
  <2>2. \A a \in Players : \A x : Accepts(a, x) => Accepts(a, x)'
    BY <1>8, <1>9 DEF Accepts
  <2>3. \A x \in Everyone : \A w :
            Stage(q, x, w)' => w = "settling" /\ x = p /\ Accepts(q, p)'
    BY <1>2, <1>11, <2>1, <2>2
  <2>4. \A a \in Players \ {q} : \A x \in Everyone : \A w : Stage(a, x, w)' => Stage(a, x, w)
    BY <2>1
  <2> QED  BY <2>2, <2>3, <2>4, AcceptanceMoves
<1>19. \A a \in Players : Session(a)'
  <2>1. SameSessions(toMain, toMain') /\ SameSessions(fromMain, fromMain')
    BY <1>1, <1>3, <1>6, <1>7, SessionsTake, SessionsPut
  <2> QED  BY <1>1, <1>8, <1>9, <2>1, SessionsKept
<1>20. \A a, x \in Players : \A j :
          Summoned(a, x, j)' <=> Summoned(a, x, j) \/ (a = p /\ x = q /\ j = k)
  <2> SUFFICES ASSUME NEW a \in Players, NEW x \in Players, NEW j
               PROVE  Summoned(a, x, j)' <=>
                        Summoned(a, x, j) \/ (a = p /\ x = q /\ j = k)
    OBVIOUS
  <2>1. Has(toMain'[a], Summon(x, j)) <=>
          Has(toMain[a], Summon(x, j)) \/ (a = p /\ x = q /\ j = k)
    BY <1>6, <1>7 DEF Puts
  <2>2. Has(fromMain'[x], Summon(a, j)) <=> Has(fromMain[x], Summon(a, j))
    BY <1>1, <1>3 DEF Takes
  <2> QED  BY <2>1, <2>2 DEF Summoned
<1>21. \A b \in Players : \A x, j : Stands(b, x, j) => Stands(b, x, j)'
  BY <1>8, <1>9, StandsOn
<1>22. Stands(p, q, k)'
  BY <1>8 DEF Stands
<1>23. ASSUME NEW a \in Players
       PROVE  Standing(a)' /\ Agreed(a)' /\ Silent(a)' /\ AtRest(a)'
  <2>1. Standing(a) /\ Agreed(a) /\ Silent(a) /\ AtRest(a)
    BY DEF AllPolite, Polite
  <2>2. Standing(a)'
    BY <1>20, <1>21, <1>22, <2>1 DEF Standing
  <2>3. Agreed(a)'
    <3>1. CASE a = p
      <4>1. Summoned(p, q, k)'
        BY <1>20
      <4> QED  BY <1>8, <3>1, <4>1 DEF Agreed, Summoned
    <3>2. CASE a # p
      <4> SUFFICES ASSUME client[a].status = "on_match"
                   PROVE  /\ client[a].rival \in Players
                          /\ \/ Stands(client[a].rival, a, client[a].port)'
                             \/ Summoned(a, client[a].rival, client[a].port)'
        BY <1>8, <3>2 DEF Agreed, Stands, Summoned
      <4>1. PICK x, j : x \in Players /\ x = client[a].rival /\ j = client[a].port
        BY <2>1 DEF Agreed
      <4>2. Stands(x, a, j) \/ Summoned(a, x, j)
        BY <2>1, <4>1 DEF Agreed
      <4>3. Stands(x, a, j)' \/ Summoned(a, x, j)'
        BY <1>20, <1>21, <4>1, <4>2
      <4>4. client'[a] = client[a]
        BY <1>8, <3>2
      <4> QED  BY <4>1, <4>3, <4>4 DEF Stands, Summoned
    <3> QED  BY <3>1, <3>2
  <2>4. Silent(a)'
    <3>1. ~Has(toMain'[a], Unsaid) /\ (Has(toMain'[a], Farewells) => Has(toMain[a], Farewells))
      BY <1>6, <1>7, <2>1 DEF Silent, Puts
    <3>2. ~Has(fromMain'[a], Unsaid)
      BY <1>14, <2>1 DEF Silent
    <3>3. client[a].status = "gone" => client'[a].status = "gone"
      BY <1>8, <1>9
    <3> QED  BY <2>1, <3>1, <3>2, <3>3 DEF Silent
  <2>5. AtRest(a)'
    BY <1>8, <2>1 DEF AtRest
  <2> QED  BY <2>2, <2>3, <2>4, <2>5
<1> QED  BY <1>15, <1>16, <1>17, <1>18, <1>19, <1>23, PoliteParts

LEMMA ReadBeginRespPolite ==
    ASSUME Inv, Inv', AllPolite, NEW p \in Players, ReadBeginResp(p)
    PROVE  AllPolite'
<1>1. PICK m \in Msgs, q \in Players :
        /\ m = Head(fromMain[p]) /\ m.type = "BEGINRESP" /\ m.who = q
        /\ Takes(fromMain, fromMain', p, m)
  BY ReadTakes DEF ReadBeginResp
<1>2. Reads(p, "BEGINRESP") /\ fresh' = fresh /\ left' = left
  BY DEF ReadBeginResp
<1>3. m \in Answer(q) /\ m \in Answer(m.who) /\ (m.ok => m \in Consent(q))
  BY <1>1, Kinds
<1>4. Waits(p, q)
  <2>1. q \in Everyone
    BY NamesFacts DEF Everyone
  <2>2. Place(p, q, "answered")
    BY <1>1, <1>3 DEF Place, Takes
  <2> QED  BY <2>1, <2>2, OnlyPlace
<1>5. IsAvailable(p, q)
  BY <1>4 DEF Waits, IsAvailable
<1>6. CASE m.ok
  <2>1. StartListening(p, q)
    BY <1>1, <1>5, <1>6 DEF ReadBeginResp
  <2> QED  BY <1>1, <1>2, <1>3, <1>4, <1>6, <2>1, ListenPolite
<1>7. CASE ~m.ok
  <2>1. /\ client' = [client EXCEPT ![p].status = "logged", ![p].inviteTo = NoOne]
        /\ toMain' = toMain
    BY <1>1, <1>5, <1>7 DEF ReadBeginResp
  <2> QED  BY <1>1, <1>2, <1>3, <1>7, <2>1, Declined
<1> QED  BY <1>6, <1>7

\* p is told where to connect to by q, who stands by their match: p is on it, or
\* has died.
LEMMA SummonedPolite ==
    ASSUME Inv, Inv', AllPolite, NEW p \in Players, NEW q \in Players,
           Reads(p, "BEGINRESPACK"),
           NEW m \in Settle(q), m.ok, m = Head(fromMain[p]),
           NEW n \in Msgs \ (Tokens \cup OfSession), Puts(toMain, toMain', p, n),
           n \in Farewells => client'[p].status = "gone",
           \A a \in Players \ {p} : client'[a] = client[a],
           client'[p].inviteFrom \in {client[p].inviteFrom, NoOne},
           \/ client'[p].status = "gone" /\ client'[p].poll = "none"
           \/ /\ client'[p].status = "on_match" /\ client'[p].inviteTo = NoOne
              /\ client'[p].rival = q /\ client'[p].port = m.port,
           fresh' = fresh, left' = left
    PROVE  AllPolite'
<1>1. /\ m \in Msgs /\ m.type = "BEGINRESPACK" /\ m.who = q
      /\ Takes(fromMain, fromMain', p, m) /\ isOnline' = isOnline
      /\ fresh \subseteq Players
  BY ReadTakes DEF Settle, Inv, Typing
<1>2. PICK k \in Nat : k = m.port
  BY <1>1, MsgsFacts
<1>3. p \in Everyone /\ q \in Everyone
  BY NamesFacts DEF Everyone
<1>4. /\ m \notin OfSession /\ m \notin Unsaid
      /\ \A x : m \notin Ask(x) /\ m \notin Answer(x) /\ m \notin Consent(x)
      /\ \A x, j : m \in Summon(x, j) <=> x = q /\ j = k
  BY <1>1, <1>2, Kinds DEF OfSession
<1>5. /\ client[p].status = "waiting"
      /\ \A x \in Everyone : \A w : Stage(p, x, w) => w = "settled" /\ x = q
  <2>1. Stage(p, q, "settled")
    BY <1>1 DEF Stage, Takes
  <2>2. /\ Accepts(p, q)
        /\ \A x \in Everyone : \A w : Stage(p, x, w) => w = "settled" /\ x = q
    BY <1>3, <2>1, OnlyStage
  <2> QED  BY <2>2 DEF Accepts
<1>6. \A x \in Everyone : \A w : ~Place(p, x, w)
  <2>1. Accepts(p, q)
    <3>1. Stage(p, q, "settled")
      BY <1>1 DEF Stage, Takes
    <3> QED  BY <1>3, <3>1, OnlyStage
  <2> QED  BY <2>1, NoPlace DEF Accepts, Waits
<1>7. ~Has(fromMain'[p], Settle(q))
  <2>1. Once(fromMain[p], Settle(q))
    BY <1>3, AllSole DEF Sole
  <2> QED  BY <1>1, <2>1 DEF Takes
<1>8. NoMore(toMain, toMain') /\ NoMore(fromMain, fromMain')
  BY <1>1, QuietPut, QuietTake
<1>9. (\A a \in Players : Sole(toMain'[a])) /\ \A a \in Players : Sole(fromMain'[a])
  BY <1>8, AllSole, SoleKept
<1>10. \A b \in Players : client'[b].inviteFrom \in {client[b].inviteFrom, NoOne}
  OBVIOUS
<1>11. \A a \in Players : Invitation(a)'
  <2>1. \A a \in Players : \A x \in Everyone : \A w : Place(a, x, w)' => Place(a, x, w)
    BY <1>1, <1>8, <1>10, PlaceKept
  <2>2. \A a \in Players \ {p} : \A x \in Everyone : Waits(a, x) => Waits(a, x)'
    BY DEF Waits
  <2>3. \A x \in Everyone : \A w :
            Place(p, x, w)' => w = "asked" /\ x = q /\ Waits(p, q)'
    BY <1>6, <2>1
  <2>4. \A a \in Players \ {p} : \A x \in Everyone : \A w : Place(a, x, w)' => Place(a, x, w)
    BY <2>1
  <2> QED  BY <2>2, <2>3, <2>4, InvitationMoves
<1>12. \A a \in Players : Acceptance(a)'
  <2>1. \A a \in Players : \A x \in Everyone : \A w : Stage(a, x, w)' => Stage(a, x, w)
    BY <1>8, StageKept
  <2>2. ~Stage(p, q, "settled")'
    BY <1>7 DEF Stage
  <2>3. \A x \in Everyone : \A w :
            Stage(p, x, w)' => w = "settled" /\ x = q /\ Accepts(p, q)'
    BY <1>5, <2>1, <2>2
  <2>4. \A a \in Players \ {p} : \A x \in Everyone : Accepts(a, x) => Accepts(a, x)'
    BY DEF Accepts
  <2>5. \A a \in Players \ {p} : \A x \in Everyone : \A w : Stage(a, x, w)' => Stage(a, x, w)
    BY <2>1
  <2> QED  BY <2>3, <2>4, <2>5, AcceptanceMoves
<1>13. \A a \in Players : Session(a)'
  <2>1. SameSessions(toMain, toMain') /\ SameSessions(fromMain, fromMain')
    BY <1>1, <1>4, SessionsTake, SessionsPut
  <2> QED  BY <1>1, <1>5, <2>1, SessionsKept
<1>14. ASSUME NEW a \in Players, NEW x \in Players, NEW j
       PROVE  Summoned(a, x, j) <=> Summoned(a, x, j)' \/ (a = q /\ x = p /\ j = k)
  <2>1. n \notin Summon(x, j)
    BY AreTokens
  <2>2. Has(toMain'[a], Summon(x, j)) <=> Has(toMain[a], Summon(x, j))
    BY <2>1 DEF Puts
  <2>3. Has(fromMain[x], Summon(a, j)) <=>
          Has(fromMain'[x], Summon(a, j)) \/ (a = q /\ x = p /\ j = k)
    BY <1>1, <1>4 DEF Takes
  <2> QED  BY <2>2, <2>3 DEF Summoned
<1>15. \A b \in Players : \A x, j : Stands(b, x, j) => Stands(b, x, j)'
  BY <1>5, StandsOn
<1>16. Stands(p, q, k)'
  BY <1>2 DEF Stands
<1>17. Stands(q, p, k)'
  <2>1. Summoned(q, p, k)
    BY <1>14
  <2>2. Stands(q, p, k)
    BY <2>1 DEF AllPolite, Polite, Standing
  <2> QED  BY <1>15, <2>2
<1>18. ASSUME NEW a \in Players
       PROVE  Standing(a)' /\ Agreed(a)' /\ Silent(a)' /\ AtRest(a)'
  <2>1. Standing(a) /\ Agreed(a) /\ Silent(a) /\ AtRest(a)
    BY DEF AllPolite, Polite
  <2>2. Standing(a)'
    BY <1>14, <1>15, <2>1 DEF Standing
  <2>3. Agreed(a)'
    <3>1. CASE a = p
      BY <1>2, <1>17, <3>1 DEF Agreed, Stands
    <3>2. CASE a # p
      <4> SUFFICES ASSUME client[a].status = "on_match"
                   PROVE  /\ client[a].rival \in Players
                          /\ \/ Stands(client[a].rival, a, client[a].port)'
                             \/ Summoned(a, client[a].rival, client[a].port)'
        BY <3>2 DEF Agreed, Stands, Summoned
      <4>1. PICK x, j : x \in Players /\ x = client[a].rival /\ j = client[a].port
        BY <2>1 DEF Agreed
      <4>2. Stands(x, a, j) \/ Summoned(a, x, j)
        BY <2>1, <4>1 DEF Agreed
      <4>3. Stands(x, a, j)' \/ Summoned(a, x, j)'
        BY <1>14, <1>15, <1>16, <4>1, <4>2
      <4>4. client'[a] = client[a]
        BY <3>2
      <4> QED  BY <4>1, <4>3, <4>4 DEF Stands, Summoned
    <3> QED  BY <3>1, <3>2
  <2>4. Silent(a)'
    <3>1. ~Has(toMain'[a], Unsaid) /\ ~Has(fromMain'[a], Unsaid)
      BY <1>8, <2>1, AreTokens DEF Silent, NoMore
    <3>2. Has(toMain'[a], Farewells) => client'[a].status = "gone"
      BY <1>5, <2>1 DEF Silent, Puts
    <3> QED  BY <3>1, <3>2 DEF Silent
  <2>5. AtRest(a)'
    BY <2>1 DEF AtRest
  <2> QED  BY <2>2, <2>3, <2>4, <2>5
<1> QED  BY <1>9, <1>11, <1>12, <1>13, <1>18, PoliteParts

LEMMA ReadBeginRespAckPolite ==
    ASSUME Inv, Inv', AllPolite, NEW p \in Players, ReadBeginRespAck(p)
    PROVE  AllPolite'
<1>1. PICK m \in Msgs, q \in Everyone :
        /\ m = Head(fromMain[p]) /\ m.type = "BEGINRESPACK" /\ m.who = q
        /\ Takes(fromMain, fromMain', p, m)
  BY ReadTakes, MsgsFacts DEF ReadBeginRespAck
<1>2. Reads(p, "BEGINRESPACK") /\ client \in [Players -> Clients]
  BY QueueTypes DEF ReadBeginRespAck
<1>3. m \in Settle(q) /\ m.ok
  <2>1. m \notin Unsaid
    BY <1>1 DEF AllPolite, Polite, Silent, Takes
  <2> QED  BY <1>1, <2>1 DEF Unsaid, Settle
<1>4. client[p].status = "waiting" /\ client[p].inviteFrom = q /\ q \in Players
  <2>1. Stage(p, q, "settled")
    BY <1>1, <1>3 DEF Stage, Takes
  <2>2. Accepts(p, q)
    BY <2>1, OnlyStage
  <2> QED  BY <1>2, <2>2 DEF Accepts, Clients
<1>5. Join(p, q, m.port)
  BY <1>1, <1>3 DEF ReadBeginRespAck
<1>6. CASE ConnectionRefused(p, q, m.port)
  <2>1. PICK n \in Msgs : n = Plain("FAREWELL", NoOne) /\ n.type = "FAREWELL"
    BY WrittenPlain DEF Requests, Everyone
  <2>2. /\ Ends(p, Tail(fromMain[p]), <<n>>) /\ fresh' = fresh
    BY <1>4, <1>6, <2>1 DEF ConnectionRefused, Dies
  <2>3. /\ client' = [client EXCEPT ![p].status = "gone", ![p].poll = "none"]
        /\ Send(p, <<n>>) /\ left' = left
    BY <2>2 DEF Ends
  <2>4. /\ client'[p].status = "gone" /\ client'[p].poll = "none"
        /\ client'[p].inviteFrom = client[p].inviteFrom
        /\ \A a \in Players \ {p} : client'[a] = client[a]
    BY <1>2, <2>3 DEF Clients
  <2>5. n \in Msgs \ (Tokens \cup OfSession)
    BY <2>1, AboutMatch
  <2>6. Puts(toMain, toMain', p, n)
    BY <2>3, SendPuts
  <2> QED  BY <1>1, <1>2, <1>3, <1>4, <2>2, <2>3, <2>4, <2>5, <2>6, SummonedPolite
<1>7. CASE ~ConnectionRefused(p, q, m.port)
  <2>1. PICK n \in Msgs : n = Plain("START", q) /\ n.type = "START"
    BY WrittenPlain DEF Requests
  <2>2. /\ client' = [client EXCEPT
                        ![p] = [status |-> "on_match", inviteTo |-> NoOne,
                                inviteFrom |-> NoOne, rival |-> @.inviteFrom,
                                accepting |-> @.accepting, poll |-> "conn",
                                port |-> m.port]]
        /\ Send(p, <<n>>) /\ fresh' = fresh /\ left' = left
    BY <1>4, <1>5, <1>7, <2>1 DEF Join
  <2>3. /\ client'[p].status = "on_match" /\ client'[p].inviteTo = NoOne
        /\ client'[p].inviteFrom = NoOne
        /\ client'[p].rival = q /\ client'[p].port = m.port
        /\ \A a \in Players \ {p} : client'[a] = client[a]
    BY <1>2, <1>4, <2>2
  <2>4. n \in Msgs \ (Tokens \cup OfSession) /\ n \notin Farewells
    BY <2>1, AboutMatch
  <2>5. Puts(toMain, toMain', p, n)
    BY <2>2, SendPuts
  <2> QED  BY <1>1, <1>2, <1>3, <1>4, <2>2, <2>3, <2>4, <2>5, SummonedPolite
<1> QED  BY <1>6, <1>7

-----------------------------------------------------------------------------
(***************************************************************************)
(* Every step.                                                             *)
(***************************************************************************)

LEMMA InitHandshake == Init => Handshake
<1> SUFFICES ASSUME Init, NEW p \in Players PROVE Polite(p)
  BY DEF Handshake
<1>1. /\ toMain[p] = <<>> /\ fromMain[p] = <<>> /\ p \in isOnline
      /\ client[p].status = "logged" /\ client[p].inviteTo = NoOne
      /\ client[p].poll = "none" /\ fresh = {}
      /\ \A a \in Players : toMain[a] = <<>> /\ fromMain[a] = <<>>
  BY DEF Init
<1>2. \A a \in Players : \A T : /\ ~Has(toMain[a], T) /\ Once(toMain[a], T)
                                /\ ~Has(fromMain[a], T) /\ Once(fromMain[a], T)
  BY <1>1, Nothing
<1>3. Sole(toMain[p]) /\ Sole(fromMain[p])
  BY <1>2 DEF Sole
<1>4. Invitation(p)
  BY <1>1, <1>2 DEF Invitation, Place
<1>5. Acceptance(p)
  BY <1>2 DEF Acceptance, Stage
<1>6. Standing(p)
  BY <1>2 DEF Standing, Summoned
<1>7. Agreed(p) /\ AtRest(p)
  BY <1>1 DEF Agreed, AtRest
<1>8. Silent(p)
  BY <1>2 DEF Silent
<1>9. Session(p)
  BY <1>1, <1>2 DEF Session
<1> QED  BY <1>3, <1>4, <1>5, <1>6, <1>7, <1>8, <1>9 DEF Polite

LEMMA MainPolite ==
    ASSUME Inv, Inv', AllPolite, NEW p \in Players, Main(p) PROVE AllPolite'
<1>1. CASE MainBegin(p)
  <2>1. Head(toMain[p]).type \in {"BEGINREQ", "BEGINRESP"}
    BY <1>1, RequestTakes DEF MainBegin
  <2> QED  BY <1>1, <2>1, MainAskPolite, MainAnswerPolite
<1>2. CASE MainBeginAck(p)
  <2>1. Head(toMain[p]).type \in {"BEGINREQACK", "BEGINRESPACK"}
    BY <1>2, RequestTakes DEF MainBeginAck
  <2> QED  BY <1>2, <2>1, MainAskAckPolite, MainSettlePolite
<1>3. CASE MainCancel(p)
  BY <1>3, NoCancel
<1>4. CASE MainMatch(p) \/ MainSession(p)
  BY <1>4, MainMatchPolite, MainSessionPolite
<1>5. CASE MainNoUsername(p) \/ MainSkip(p)
  BY <1>5, MainStopsPolite
<1> QED  BY <1>1, <1>2, <1>3, <1>4, <1>5 DEF Main

LEMMA ReceivePolite ==
    ASSUME Inv, Inv', AllPolite, NEW p \in Players, Receive(p) PROVE AllPolite'
<1>1. CASE ReadBeginReq(p) \/ ReadBeginReqAck(p)
  BY <1>1, ReadBeginReqPolite, ReadBeginReqAckPolite
<1>2. CASE ReadBeginResp(p) \/ ReadBeginRespAck(p)
  BY <1>2, ReadBeginRespPolite, ReadBeginRespAckPolite
<1>3. CASE ReadCancel(p)
  BY <1>3, NoCancel
<1>4. CASE ReadSession(p)
  BY <1>4, ReadSessionPolite
<1> QED  BY <1>1, <1>2, <1>3, <1>4 DEF Receive

\* Users that are orderly have been before.
LEMMA OrderlyBefore ==
    ASSUME orderly', [Next]_vars PROVE orderly
<1>1. CASE UNCHANGED vars
  BY <1>1 DEF vars, history
<1>2. ASSUME NEW p \in Players, NEW q \in Names, Begin(p, q) PROVE orderly
  BY <1>2 DEF Begin, Type
<1>3. ASSUME NEW p \in Players, NEW accept \in BOOLEAN, Invite(p, accept) PROVE orderly
  BY <1>3 DEF Invite, Type
<1>4. ASSUME NEW p \in Players, Cancel(p) \/ Leave(p) PROVE orderly
  BY <1>4 DEF Cancel, Leave, Type
<1>5. ASSUME NEW p \in Players, Main(p) PROVE orderly
  <2>1. PICK types : Request(p, types)
    BY <1>5 DEF Main, MainBegin, MainBeginAck, MainCancel, MainMatch, MainSession,
                MainNoUsername, MainSkip
  <2> QED  BY <2>1 DEF Request, history
<1>6. ASSUME NEW p \in Players, Receive(p) PROVE orderly
  <2>1. PICK type : Reads(p, type)
    BY <1>6 DEF Receive, ReadBeginReq, ReadBeginReqAck, ReadBeginResp,
                ReadBeginRespAck, ReadCancel, ReadSession
  <2> QED  BY <2>1 DEF Reads
<1>7. ASSUME NEW p \in Players, Accept(p) \/ AcceptFails(p) \/ EndMatch(p) \/ RivalEnds(p)
      PROVE  orderly
  BY <1>7 DEF Accept, AcceptFails, EndMatch, RivalEnds
<1>8. ASSUME NEW p \in Players, Crash(p) \/ Kill(p) PROVE orderly
  BY <1>8 DEF Crash, Kill, DiesAnyTime
<1> QED  BY <1>1, <1>2, <1>3, <1>4, <1>5, <1>6, <1>7, <1>8 DEF Next

LEMMA NextHandshake == Inv /\ Handshake /\ [Next]_vars => Handshake'
<1> SUFFICES ASSUME Inv, Handshake, [Next]_vars, orderly' PROVE AllPolite'
  BY DEF Handshake, AllPolite
<1>1. Inv' /\ AllPolite
  BY NextInv, OrderlyBefore DEF Handshake, AllPolite
<1>2. CASE UNCHANGED vars
  <2>1. /\ client' = client /\ toMain' = toMain /\ fromMain' = fromMain
        /\ isOnline' = isOnline /\ fresh' = fresh /\ left' = left
    BY <1>2 DEF vars, table, history
  <2>2. \A a \in Players : Polite(a)' <=> Polite(a)
    BY <2>1 DEF Polite, Sole, Invitation, Acceptance, Standing, Agreed, Silent,
       AtRest, Session, Place, Stage, Stands, Summoned, Waits, Accepts
  <2> QED  BY <1>1, <2>2 DEF AllPolite
<1>3. ASSUME NEW p \in Players, NEW q \in Names, Begin(p, q) PROVE AllPolite'
  BY <1>1, <1>3, BeginPolite
<1>4. ASSUME NEW p \in Players, NEW accept \in BOOLEAN, Invite(p, accept)
      PROVE  AllPolite'
  BY <1>1, <1>4, InvitePolite
<1>5. ASSUME NEW p \in Players, Cancel(p) PROVE AllPolite'
  BY <1>5 DEF Cancel, Type
<1>6. ASSUME NEW p \in Players, Leave(p) PROVE AllPolite'
  BY <1>1, <1>6, LeavePolite
<1>7. ASSUME NEW p \in Players, Main(p) PROVE AllPolite'
  BY <1>1, <1>7, MainPolite
<1>8. ASSUME NEW p \in Players, Receive(p) PROVE AllPolite'
  BY <1>1, <1>8, ReceivePolite
<1>9. ASSUME NEW p \in Players, Accept(p) \/ AcceptFails(p) PROVE AllPolite'
  BY <1>1, <1>9, AcceptPolite, AcceptFailsPolite
<1>10. ASSUME NEW p \in Players, EndMatch(p) \/ RivalEnds(p) \/ Kill(p) \/ Crash(p)
       PROVE  AllPolite'
  BY <1>1, <1>10, AlonePolite
<1> QED  BY <1>2, <1>3, <1>4, <1>5, <1>6, <1>7, <1>8, <1>9, <1>10 DEF Next

LEMMA HandshakeImpliesAgreement == Inv /\ Handshake => MatchAgreement
<1> SUFFICES ASSUME Inv, Handshake, orderly, NEW p \in Players,
                    client[p].status = "on_match"
             PROVE  \E q \in Players :
                      /\ q = client[p].rival
                      /\ \/ /\ client[q].status = "on_match" /\ client[q].rival = p
                            /\ client[q].port = client[p].port
                         \/ \E m \in Summons(p, q) : m.port = client[p].port
                         \/ <<client[p].port, q>> \in left
                         \/ client[q].status = "gone"
  BY DEF MatchAgreement
<1>1. Agreed(p)
  BY DEF Handshake, Polite
<1>2. PICK q, n : q \in Players /\ q = client[p].rival /\ n = client[p].port
  BY <1>1 DEF Agreed
<1>3. Stands(q, p, n) \/ Summoned(p, q, n)
  BY <1>1, <1>2 DEF Agreed
<1>4. CASE Stands(q, p, n)
  BY <1>2, <1>4 DEF Stands
<1>5. CASE Summoned(p, q, n)
  <2>1. toMain[p] \in Seq(Msgs) /\ fromMain[q] \in Seq(Msgs)
    BY <1>2, QueueTypes
  <2>2. PICK m \in Msgs :
          /\ \/ m \in Elements(toMain[p]) /\ m.who = q
             \/ m \in Elements(fromMain[q]) /\ m.who = p
          /\ m.type = "BEGINRESPACK" /\ m.ok /\ m.port = n
    <3>1. CASE Has(toMain[p], Summon(q, n))
      <4>1. PICK i \in DOMAIN toMain[p] : toMain[p][i] \in Summon(q, n)
        BY <2>1, <3>1 DEF Has
      <4>2. PICK m : m = toMain[p][i]
        OBVIOUS
      <4>3. m \in Elements(toMain[p])
        BY <4>1, <4>2 DEF Elements
      <4>4. m \in Msgs
        BY <4>1, <4>2 DEF Summon, Settle
      <4> QED  BY <4>1, <4>2, <4>3, <4>4, Kinds
    <3>2. CASE Has(fromMain[q], Summon(p, n))
      <4>1. PICK i \in DOMAIN fromMain[q] : fromMain[q][i] \in Summon(p, n)
        BY <2>1, <3>2 DEF Has
      <4>2. PICK m : m = fromMain[q][i]
        OBVIOUS
      <4>3. m \in Elements(fromMain[q])
        BY <4>1, <4>2 DEF Elements
      <4>4. m \in Msgs
        BY <4>1, <4>2 DEF Summon, Settle
      <4> QED  BY <4>1, <4>2, <4>3, <4>4, Kinds
    <3> QED  BY <1>5, <3>1, <3>2 DEF Summoned
  <2>3. m \in Summons(p, q)
    BY <2>2 DEF Summons, Underway
  <2> QED  BY <1>2, <2>2, <2>3
<1> QED  BY <1>3, <1>4, <1>5

\* "Both sides agreed to start a match" (Matchmaking): as long as users are
\* orderly, who is on a match has a rival, and this rival is on the same match,
\* is being told of it, has left it or is gone; for any number of players,
\* commands and deaths.
THEOREM MatchesAgree == Spec => []MatchAgreement
<1>1. Init => Inv /\ Handshake
  BY InitInv, InitHandshake
<1>2. Inv /\ Handshake /\ [Next]_vars => (Inv /\ Handshake)'
  BY NextInv, NextHandshake
<1>3. Inv /\ Handshake => MatchAgreement
  BY HandshakeImpliesAgreement
<1> QED  BY <1>1, <1>2, <1>3, PTL DEF Spec

-----------------------------------------------------------------------------
(***************************************************************************)
(* The steps of Pairing.                                                   *)
(***************************************************************************)

Views == <<[p \in Players |-> Asks(p)], [p \in Players |-> Consents(p)],
           [p \in Players |-> Partner(p)]>>
Unseen(a) == Asks(a)' = Asks(a) /\ Consents(a)' = Consents(a) /\ Partner(a)' = Partner(a)

LEMMA Stutter ==
    ASSUME \A a \in Players : Unseen(a) PROVE UNCHANGED Views
BY DEF Unseen, Views

LEMMA PromiseAsk ==
    ASSUME NEW p \in Players, NEW q \in Names,
           \A a \in Players \ {p} : Unseen(a),
           Asks(p) = NoOne, Consents(p) = NoOne, Partner(p) = NoOne,
           Asks(p)' = q, Consents(p)' = Consents(p), Partner(p)' = Partner(p)
    PROVE  Promise!Next
<1>1. Promise!Ask(p, q)
  BY DEF Promise!Ask, Promise!Free, Unseen
<1> QED  BY <1>1 DEF Promise!Next

LEMMA PromiseConsent ==
    ASSUME NEW q \in Players, NEW p \in Players,
           \A a \in Players \ {q} : Unseen(a),
           Asks(q) = NoOne, Consents(q) = NoOne, Partner(q) = NoOne,
           Consents(q)' = p, Asks(q)' = Asks(q), Partner(q)' = Partner(q)
    PROVE  Promise!Next
<1>1. Promise!Consent(q, p)
  BY DEF Promise!Consent, Promise!Free, Unseen
<1> QED  BY <1>1 DEF Promise!Next

LEMMA PromiseNotAsked ==
    ASSUME NEW p \in Players, \A a \in Players \ {p} : Unseen(a),
           Asks(p) # NoOne, Asks(p)' = NoOne,
           Consents(p)' = Consents(p), Partner(p)' = Partner(p)
    PROVE  Promise!Next
<1>1. Promise!NotAsked(p)
  BY DEF Promise!NotAsked, Unseen
<1> QED  BY <1>1 DEF Promise!Next

LEMMA PromisePart ==
    ASSUME NEW p \in Players, \A a \in Players \ {p} : Unseen(a),
           Partner(p) # NoOne, Partner(p)' = NoOne,
           Asks(p)' = Asks(p), Consents(p)' = Consents(p)
    PROVE  Promise!Next
<1>1. Promise!Part(p)
  BY DEF Promise!Part, Unseen
<1> QED  BY <1>1 DEF Promise!Next

LEMMA PromisePair ==
    ASSUME NEW p \in Players, NEW q \in Players, p # q,
           \A a \in Players \ {p, q} : Unseen(a),
           Asks(p) = q, Consents(q) = p,
           Asks(p)' = NoOne, Consents(p)' = Consents(p), Partner(p)' = q,
           Asks(q)' = Asks(q), Consents(q)' = NoOne, Partner(q)' = p
    PROVE  Promise!Next
<1>1. Promise!Pair(p, q)
  BY DEF Promise!Pair, Unseen
<1> QED  BY <1>1 DEF Promise!Next

-----------------------------------------------------------------------------
(***************************************************************************)
(* What Pairing sees of the handshake.                                     *)
(***************************************************************************)

Consenting(q, p) == Stage(q, p, "consenting") \/ Stage(q, p, "consented")
Called(p, q) == Stage(p, q, "settling") \/ Stage(p, q, "settled")

View(a) ==
    /\ \A x \in Players : Consenting(a, x) => Consents(a) = x
    /\ (\A x \in Players : ~Consenting(a, x)) => Consents(a) = NoOne
    /\ client[a].status = "on_match" => Partner(a) = client[a].rival
    /\ client[a].status # "on_match" =>
          /\ \A x \in Players : Called(a, x) => Partner(a) = x
          /\ (\A x \in Players : ~Called(a, x)) => Partner(a) = NoOne

\* A message of a queue is one of the queue's elements.
LEMMA HasElement ==
    ASSUME NEW s \in Seq(Msgs), NEW T
    PROVE  Has(s, T) <=> \E m \in Elements(s) : m \in T
<1>1. DOMAIN s = 1..Len(s)
  OBVIOUS
<1> QED  BY <1>1 DEF Has, Elements

LEMMA ElementsAreMsgs ==
    ASSUME NEW s \in Seq(Msgs) PROVE Elements(s) \subseteq Msgs
BY DEF Elements

LEMMA ViewHolds == Inv /\ AllPolite => \A a \in Players : View(a)
<1> SUFFICES ASSUME Inv, AllPolite, NEW a \in Players PROVE View(a)
  OBVIOUS
<1>1. \A y \in Players : toMain[y] \in Seq(Msgs) /\ fromMain[y] \in Seq(Msgs)
  BY QueueTypes
<1>2. \A y \in Players : Elements(toMain[y]) \subseteq Msgs /\ Elements(fromMain[y]) \subseteq Msgs
  BY <1>1, ElementsAreMsgs
<1>3. Acceptance(a)
  BY DEF AllPolite, Polite
<1>4. Players \subseteq Everyone
  BY NamesFacts DEF Everyone
<1>5. \A x \in Players :
        Consenting(a, x) <=> \E m \in Underway(a, x) : m.type = "BEGINRESP" /\ m.ok
  <2> SUFFICES ASSUME NEW x \in Players
               PROVE  Consenting(a, x) <=>
                        \E m \in Underway(a, x) : m.type = "BEGINRESP" /\ m.ok
    OBVIOUS
  <2>1. Has(toMain[a], Consent(x)) <=>
          \E m \in Elements(toMain[a]) : m.type = "BEGINRESP" /\ m.ok /\ m.who = x
    BY <1>1, <1>2, HasElement, Kinds
  <2>2. Has(fromMain[x], Consent(a)) <=>
          \E m \in Elements(fromMain[x]) : m.type = "BEGINRESP" /\ m.ok /\ m.who = a
    BY <1>1, <1>2, HasElement, Kinds
  <2> QED  BY <2>1, <2>2 DEF Consenting, Stage, Underway
<1>6. \A x \in Players : Called(a, x) <=> Summons(x, a) # {}
  <2> SUFFICES ASSUME NEW x \in Players PROVE Called(a, x) <=> Summons(x, a) # {}
    OBVIOUS
  <2>0. \A m \in Elements(toMain[x]) \cup Elements(fromMain[a]) :
           m.type = "BEGINRESPACK" => m.ok
    <3>1. ~Has(toMain[x], Unsaid) /\ ~Has(fromMain[a], Unsaid)
      BY DEF AllPolite, Polite, Silent
    <3> QED  BY <1>1, <1>2, <3>1, HasElement, Kinds
  <2>1. Has(toMain[x], Settle(a)) <=>
          \E m \in Elements(toMain[x]) : m.type = "BEGINRESPACK" /\ m.who = a
    <3>1. Has(toMain[x], Settle(a)) <=> \E m \in Elements(toMain[x]) : m \in Settle(a)
      BY <1>1, HasElement
    <3> QED  BY <1>2, <3>1 DEF Settle
  <2>2. Has(fromMain[a], Settle(x)) <=>
          \E m \in Elements(fromMain[a]) : m.type = "BEGINRESPACK" /\ m.who = x
    <3>1. Has(fromMain[a], Settle(x)) <=> \E m \in Elements(fromMain[a]) : m \in Settle(x)
      BY <1>1, HasElement
    <3> QED  BY <1>2, <3>1 DEF Settle
  <2> QED  BY <2>0, <2>1, <2>2 DEF Called, Stage, Summons, Underway
<1>7. \A x, y \in Players :
        /\ Consenting(a, x) /\ Consenting(a, y) => x = y
        /\ Called(a, x) /\ Called(a, y) => x = y
  BY <1>3, <1>4 DEF Acceptance, Consenting, Called
<1>8. Theirs(a, "BEGINRESP") = {x \in Players : Consenting(a, x)}
  BY <1>5 DEF Theirs
<1>9. ASSUME NEW x \in Players, Consenting(a, x) PROVE Consents(a) = x
  <2>1. Theirs(a, "BEGINRESP") = {x}
    BY <1>7, <1>8, <1>9
  <2> QED  BY <2>1 DEF Consents
<1>10. (\A x \in Players : ~Consenting(a, x)) => Consents(a) = NoOne
  BY <1>8 DEF Consents
<1>11. client[a].status = "on_match" => Partner(a) = client[a].rival
  BY DEF Partner
<1>12. ASSUME client[a].status # "on_match", NEW x \in Players, Called(a, x)
       PROVE  Partner(a) = x
  <2>1. \A q \in Players : Summons(q, a) # {} <=> q = x
    BY <1>6, <1>7, <1>12
  <2>2. (CHOOSE q \in Players : Summons(q, a) # {}) = x
    BY <2>1
  <2> QED  BY <1>12, <2>1, <2>2 DEF Partner
<1>13. client[a].status # "on_match" /\ (\A x \in Players : ~Called(a, x))
          => Partner(a) = NoOne
  BY <1>6 DEF Partner
<1> QED  BY <1>9, <1>10, <1>11, <1>12, <1>13 DEF View

\* What Pairing sees of a, as long as its stages and its match are the same.
LEMMA ViewKept ==
    ASSUME NEW a \in Players, View(a), View(a)',
           \A x \in Players : /\ Consenting(a, x)' <=> Consenting(a, x)
                              /\ Called(a, x)' <=> Called(a, x),
           client'[a].status = "on_match" <=> client[a].status = "on_match",
           client[a].status = "on_match" => client'[a].rival = client[a].rival
    PROVE  Consents(a)' = Consents(a) /\ Partner(a)' = Partner(a)
<1>1. Consents(a)' = Consents(a)
  <2>1. CASE \E x \in Players : Consenting(a, x)
    BY <2>1 DEF View
  <2>2. CASE \A x \in Players : ~Consenting(a, x)
    BY <2>2 DEF View
  <2> QED  BY <2>1, <2>2
<1>2. Partner(a)' = Partner(a)
  <2>1. CASE client[a].status = "on_match"
    BY <2>1 DEF View
  <2>2. CASE client[a].status # "on_match" /\ \E x \in Players : Called(a, x)
    BY <2>2 DEF View
  <2>3. CASE client[a].status # "on_match" /\ \A x \in Players : ~Called(a, x)
    BY <2>3 DEF View
  <2> QED  BY <2>1, <2>2, <2>3
<1> QED  BY <1>1, <1>2

\* The acceptances and summonses in the queues f and g are the same.
Staged == {m \in Msgs : m.type = "BEGINRESPACK" \/ (m.type = "BEGINRESP" /\ m.ok)}
SameStaged(f, g) ==
    \A r \in Players : \A T \in SUBSET Staged : Has(g[r], T) <=> Has(f[r], T)

LEMMA AreStaged == \A x : Consent(x) \in SUBSET Staged /\ Settle(x) \in SUBSET Staged
BY DEF Consent, Settle, Staged

LEMMA StagedPut ==
    ASSUME NEW f, NEW g, NEW p, NEW m, Puts(f, g, p, m), m \notin Staged
    PROVE  SameStaged(f, g)
BY DEF Puts, SameStaged

LEMMA StagedTake ==
    ASSUME NEW f, NEW g, NEW p, NEW m, Takes(f, g, p, m), m \notin Staged
    PROVE  SameStaged(f, g)
BY DEF Takes, SameStaged

LEMMA StagedSame == \A f : SameStaged(f, f)
BY DEF SameStaged

LEMMA StagesSame ==
    ASSUME SameStaged(toMain, toMain'), SameStaged(fromMain, fromMain')
    PROVE  \A a, x \in Players : /\ Consenting(a, x)' <=> Consenting(a, x)
                                 /\ Called(a, x)' <=> Called(a, x)
BY AreStaged DEF SameStaged, Consenting, Called, Stage

\* Who is at its prompt or asks has consented to nothing and is told nothing.
LEMMA NoStages ==
    ASSUME AllPolite, NEW a \in Players, \A x : ~Accepts(a, x)
    PROVE  \A x \in Players : ~Consenting(a, x) /\ ~Called(a, x)
<1>1. Players \subseteq Everyone
  BY NamesFacts DEF Everyone
<1> QED  BY <1>1, NoStage DEF Consenting, Called

Visible == \A a \in Players : View(a) /\ View(a)'

LEMMA OthersUnseen ==
    ASSUME Visible, NEW p \in Players, \A a \in Players \ {p} : client'[a] = client[a],
           SameStaged(toMain, toMain'), SameStaged(fromMain, fromMain')
    PROVE  \A a \in Players \ {p} : Unseen(a)
<1> SUFFICES ASSUME NEW a \in Players \ {p} PROVE Unseen(a)
  OBVIOUS
<1>1. View(a) /\ View(a)' /\ client'[a] = client[a]
  BY DEF Visible
<1>2. \A x \in Players : /\ Consenting(a, x)' <=> Consenting(a, x)
                         /\ Called(a, x)' <=> Called(a, x)
  BY StagesSame
<1>3. Consents(a)' = Consents(a) /\ Partner(a)' = Partner(a)
  BY <1>1, <1>2, ViewKept
<1>4. Asks(a)' = Asks(a)
  BY <1>1 DEF Asks
<1> QED  BY <1>3, <1>4 DEF Unseen

\* p goes on waiting, playing or neither.
LEMMA StutterStep ==
    ASSUME Visible, NEW p \in Players, \A a \in Players \ {p} : client'[a] = client[a],
           SameStaged(toMain, toMain'), SameStaged(fromMain, fromMain'),
           client'[p].status = "on_match" <=> client[p].status = "on_match",
           client[p].status = "on_match" => client'[p].rival = client[p].rival,
           Asks(p)' = Asks(p)
    PROVE  UNCHANGED Views
<1>1. View(p) /\ View(p)'
  BY DEF Visible
<1>2. \A x \in Players : /\ Consenting(p, x)' <=> Consenting(p, x)
                         /\ Called(p, x)' <=> Called(p, x)
  BY StagesSame
<1>3. Consents(p)' = Consents(p) /\ Partner(p)' = Partner(p)
  BY <1>1, <1>2, ViewKept
<1>4. \A a \in Players : Unseen(a)
  BY <1>3, OthersUnseen DEF Unseen
<1> QED  BY <1>4, Stutter

\* p leaves a match.
LEMMA PartStep ==
    ASSUME AllPolite, Visible, NEW p \in Players,
           \A a \in Players \ {p} : client'[a] = client[a],
           SameStaged(toMain, toMain'), SameStaged(fromMain, fromMain'),
           client[p].status = "on_match", client'[p].status \in {"logged", "gone"}
    PROVE  Promise!Next
<1>1. View(p) /\ View(p)'
  BY DEF Visible
<1>2. \A x \in Players : ~Consenting(p, x) /\ ~Called(p, x)
  BY NoStages DEF Accepts
<1>3. \A x \in Players : ~Consenting(p, x)' /\ ~Called(p, x)'
  BY <1>2, StagesSame
<1>4. Consents(p) = NoOne /\ Consents(p)' = NoOne /\ Partner(p)' = NoOne
  BY <1>1, <1>2, <1>3 DEF View
<1>5. Partner(p) # NoOne
  <2>1. client[p].rival \in Players
    BY DEF AllPolite, Polite, Agreed
  <2> QED  BY <1>1, <2>1, NamesFacts DEF View
<1>6. Asks(p) = NoOne /\ Asks(p)' = NoOne
  BY DEF Asks
<1>7. \A a \in Players \ {p} : Unseen(a)
  BY OthersUnseen
<1> QED  BY <1>4, <1>5, <1>6, <1>7, PromisePart

\* p stops waiting for whom it asked.
LEMMA NotAskedStep ==
    ASSUME AllPolite, Visible, NEW p \in Players, NEW q, Waits(p, q),
           \A a \in Players \ {p} : client'[a] = client[a],
           SameStaged(toMain, toMain'), SameStaged(fromMain, fromMain'),
           client'[p].status = "logged"
    PROVE  Promise!Next
<1>1. View(p) /\ View(p)'
  BY DEF Visible
<1>2. \A x \in Players : /\ Consenting(p, x)' <=> Consenting(p, x)
                         /\ Called(p, x)' <=> Called(p, x)
  BY StagesSame
<1>3. Consents(p)' = Consents(p) /\ Partner(p)' = Partner(p)
  BY <1>1, <1>2, ViewKept DEF Waits
<1>4. Asks(p) # NoOne /\ Asks(p)' = NoOne
  BY DEF Waits, Asks
<1>5. \A a \in Players \ {p} : Unseen(a)
  BY OthersUnseen
<1> QED  BY <1>3, <1>4, <1>5, PromiseNotAsked

-----------------------------------------------------------------------------
(***************************************************************************)
(* The steps of Matchmaking.                                               *)
(***************************************************************************)

LEMMA BeginAsks ==
    ASSUME Inv, AllPolite, Visible, NEW p \in Players, NEW q \in Names, Begin(p, q)
    PROVE  Promise!Next
<1>1. PICK m \in Msgs : m = Plain("BEGINREQ", q) /\ m.type = "BEGINREQ"
  BY WrittenPlain DEF Requests, Everyone
<1>2. /\ Send(p, <<m>>) /\ client[p].status = "logged" /\ fromMain' = fromMain
      /\ client' = [client EXCEPT ![p].status = "waiting", ![p].inviteTo = q]
  BY <1>1 DEF Begin, Type
<1>3. /\ client'[p].status = "waiting" /\ client'[p].inviteTo = q
      /\ \A a \in Players \ {p} : client'[a] = client[a]
  BY <1>2, QueueTypes DEF Clients
<1>4. SameStaged(toMain, toMain') /\ SameStaged(fromMain, fromMain')
  <2>1. Puts(toMain, toMain', p, m)
    BY <1>2, SendPuts
  <2> QED  BY <1>1, <1>2, <2>1, StagedPut, StagedSame DEF Staged
<1>5. View(p) /\ View(p)'
  BY DEF Visible
<1>6. \A x \in Players : /\ ~Consenting(p, x) /\ ~Called(p, x)
                         /\ ~Consenting(p, x)' /\ ~Called(p, x)'
  BY <1>2, <1>4, NoStages, StagesSame DEF Accepts
<1>7. /\ Consents(p) = NoOne /\ Partner(p) = NoOne
      /\ Consents(p)' = NoOne /\ Partner(p)' = NoOne
  BY <1>2, <1>3, <1>5, <1>6 DEF View
<1>8. Asks(p) = NoOne /\ Asks(p)' = q
  BY <1>2, <1>3 DEF Asks
<1>9. \A a \in Players \ {p} : Unseen(a)
  BY <1>3, <1>4, OthersUnseen
<1> QED  BY <1>7, <1>8, <1>9, PromiseAsk

LEMMA InviteConsents ==
    ASSUME Inv, AllPolite, Visible, NEW p \in Players, NEW accept \in BOOLEAN,
           Invite(p, accept)
    PROVE  Promise!Next \/ UNCHANGED Views
<1>1. PICK from : from = client[p].inviteFrom
  OBVIOUS
<1>2. client \in [Players -> Clients] /\ from \in Players /\ from \in Everyone
  BY <1>1, QueueTypes, NamesFacts DEF Invite, Clients, Everyone
<1>3. PICK m \in Msgs : /\ m = Msg("BEGINRESP", from, accept, 0)
                        /\ m.type = "BEGINRESP" /\ m.who = from /\ m.ok = accept
  BY <1>2, Written DEF Requests
<1>4. /\ Send(p, <<m>>) /\ client[p].status = "logged" /\ fromMain' = fromMain
      /\ client' = [client EXCEPT ![p].status = IF accept THEN "waiting" ELSE @]
  BY <1>1, <1>3 DEF Invite, Type
<1>5. /\ client'[p].status = IF accept THEN "waiting" ELSE "logged"
      /\ client'[p].inviteTo = client[p].inviteTo
      /\ \A a \in Players \ {p} : client'[a] = client[a]
  BY <1>2, <1>4 DEF Clients
<1>6. Puts(toMain, toMain', p, m)
  BY <1>4, SendPuts
<1>7. CASE ~accept
  <2>1. SameStaged(toMain, toMain') /\ SameStaged(fromMain, fromMain')
    BY <1>3, <1>4, <1>6, <1>7, StagedPut, StagedSame DEF Staged
  <2>2. Asks(p)' = Asks(p)
    BY <1>4, <1>5, <1>7 DEF Asks
  <2> QED  BY <1>4, <1>5, <1>7, <2>1, <2>2, StutterStep
<1>8. CASE accept
  <2>1. \A x : (m \in Consent(x) <=> x = from) /\ m \notin Settle(x)
    BY <1>3, <1>8, Kinds
  <2>2. \A a, x \in Players :
          /\ Consenting(a, x)' <=> Consenting(a, x) \/ (a = p /\ x = from)
          /\ Called(a, x)' <=> Called(a, x)
    BY <1>4, <1>6, <2>1 DEF Puts, Consenting, Called, Stage
  <2>3. \A x \in Players : ~Consenting(p, x) /\ ~Called(p, x)
    BY <1>4, NoStages DEF Accepts
  <2>4. View(p) /\ View(p)'
    BY DEF Visible
  <2>5. /\ Consents(p) = NoOne /\ Partner(p) = NoOne
        /\ Consents(p)' = from /\ Partner(p)' = NoOne
    BY <1>2, <1>4, <1>5, <1>8, <2>2, <2>3, <2>4 DEF View
  <2>6. Asks(p) = NoOne /\ Asks(p)' = NoOne
    <3>1. client[p].inviteTo = NoOne
      BY <1>4 DEF AllPolite, Polite, AtRest
    <3> QED  BY <1>4, <1>5, <3>1 DEF Asks
  <2>7. ASSUME NEW a \in Players \ {p} PROVE Unseen(a)
    <3>1. View(a) /\ View(a)' /\ client'[a] = client[a]
      BY <1>5 DEF Visible
    <3>2. Consents(a)' = Consents(a) /\ Partner(a)' = Partner(a)
      BY <2>2, <3>1, ViewKept
    <3> QED  BY <3>1, <3>2 DEF Unseen, Asks
  <2> QED  BY <1>2, <2>5, <2>6, <2>7, PromiseConsent
<1> QED  BY <1>7, <1>8

\* The main thread serves a request that Pairing does not see.
LEMMA ServeUnseen ==
    ASSUME Inv, Visible, NEW p \in Players, NEW types, Request(p, types),
           Head(toMain[p]) \notin Staged,
           \/ fromMain' = fromMain
           \/ \E x \in Players, m \in Msgs \ Staged : Puts(fromMain, fromMain', x, m)
    PROVE  UNCHANGED Views
<1>1. Takes(toMain, toMain', p, Head(toMain[p])) /\ client' = client
  BY RequestTakes
<1>2. SameStaged(toMain, toMain') /\ SameStaged(fromMain, fromMain')
  BY <1>1, StagedTake, StagedPut, StagedSame
<1>3. Asks(p)' = Asks(p)
  BY <1>1 DEF Asks
<1> QED  BY <1>1, <1>2, <1>3, StutterStep

\* The acceptances and summonses stay on their way.
LEMMA PassUnseen ==
    ASSUME Visible, client' = client,
           \A a, x \in Players : /\ Consenting(a, x)' <=> Consenting(a, x)
                                 /\ Called(a, x)' <=> Called(a, x)
    PROVE  UNCHANGED Views
<1>1. ASSUME NEW a \in Players PROVE Unseen(a)
  <2>1. View(a) /\ View(a)'
    BY DEF Visible
  <2>2. Consents(a)' = Consents(a) /\ Partner(a)' = Partner(a)
    BY <2>1, ViewKept
  <2> QED  BY <2>2 DEF Unseen, Asks
<1> QED  BY <1>1, Stutter

LEMMA MainBeginUnseen ==
    ASSUME Inv, AllPolite, Visible, NEW p \in Players, MainBegin(p)
    PROVE  UNCHANGED Views
<1>1. PICK m \in Msgs, q \in Everyone :
        /\ m = Head(toMain[p]) /\ m.type \in {"BEGINREQ", "BEGINRESP"} /\ m.who = q
        /\ Takes(toMain, toMain', p, m) /\ client' = client
  BY RequestTakes, MsgsFacts DEF MainBegin
<1>2. Request(p, {"BEGINREQ", "BEGINRESP"})
  BY DEF MainBegin
<1>3. PICK n : n = [m EXCEPT !.who = p]
  OBVIOUS
<1>4. n \in Msgs /\ n.type = m.type /\ n.who = p /\ n.ok = m.ok
  BY <1>1, <1>3, PassedOn
<1>5. q \in isOnline => q \in Players /\ Puts(fromMain, fromMain', q, n)
  <2>1. ASSUME q \in isOnline PROVE q \in Players /\ Deliver(q, n)
    BY <1>1, <1>3, <2>1 DEF MainBegin, Relay, Inv, Typing
  <2> QED  BY <1>4, <2>1, DeliverPuts
<1>6. CASE m.type = "BEGINREQ"
  <2>1. CASE q \in isOnline
    BY <1>1, <1>2, <1>4, <1>5, <1>6, <2>1, ServeUnseen DEF Staged
  <2>2. CASE q \notin isOnline
    <3>1. Deliver(p, Msg("BEGINREQACK", q, FALSE, 0))
      BY <1>1, <1>6, <2>2 DEF MainBegin, Relay
    <3>2. PICK f : f = Msg("BEGINREQACK", q, FALSE, 0)
      OBVIOUS
    <3>3. f \in Msgs /\ f.type = "BEGINREQACK"
      BY <3>2 DEF Msg, Msgs, MessagesOf, Everyone, Responses
    <3>4. Puts(fromMain, fromMain', p, f) /\ f \notin Staged
      BY <3>1, <3>2, <3>3, DeliverPuts DEF Staged
    <3> QED  BY <1>1, <1>2, <1>6, <3>3, <3>4, ServeUnseen DEF Staged
  <2> QED  BY <2>1, <2>2
<1>7. CASE m.type = "BEGINRESP"
  <2>1. q \in Players /\ q \in isOnline
    <3>1. m \notin Unsaid
      BY <1>1 DEF AllPolite, Polite, Silent, Takes
    <3>2. q \in Players
      BY <1>1, <1>7, <3>1 DEF Unsaid
    <3>3. p \in Everyone
      BY NamesFacts DEF Everyone
    <3>4. m \in Answer(q)
      BY <1>1, <1>7, Kinds
    <3>5. Place(q, p, "answering")
      BY <1>1, <3>4 DEF Place, Takes
    <3>6. Waits(q, p)
      BY <3>2, <3>3, <3>5, OnlyPlace
    <3> QED  BY <3>2, <3>6, WaitingOnline DEF Waits
  <2>2. CASE ~m.ok
    BY <1>1, <1>2, <1>4, <1>5, <1>7, <2>1, <2>2, ServeUnseen DEF Staged
  <2>3. CASE m.ok
    <3>1. /\ \A x : (m \in Consent(x) <=> x = q) /\ m \notin Settle(x)
          /\ \A x : (n \in Consent(x) <=> x = p) /\ n \notin Settle(x)
      BY <1>1, <1>4, <1>7, <2>3, Kinds
    <3>2. \A a, x \in Players : /\ Consenting(a, x)' <=> Consenting(a, x)
                                /\ Called(a, x)' <=> Called(a, x)
      <4> SUFFICES ASSUME NEW a \in Players, NEW x \in Players
                   PROVE  /\ Consenting(a, x)' <=> Consenting(a, x)
                          /\ Called(a, x)' <=> Called(a, x)
        OBVIOUS
      <4>1. /\ Has(toMain[a], Consent(x)) <=>
                 Has(toMain'[a], Consent(x)) \/ (a = p /\ x = q)
            /\ Has(toMain'[x], Settle(a)) <=> Has(toMain[x], Settle(a))
        BY <1>1, <3>1 DEF Takes
      <4>2. /\ Has(fromMain'[x], Consent(a)) <=>
                 Has(fromMain[x], Consent(a)) \/ (x = q /\ a = p)
            /\ Has(fromMain'[a], Settle(x)) <=> Has(fromMain[a], Settle(x))
        BY <1>5, <2>1, <3>1 DEF Puts
      <4> QED  BY <4>1, <4>2 DEF Consenting, Called, Stage
    <3> QED  BY <1>1, <3>2, PassUnseen
  <2> QED  BY <2>2, <2>3
<1> QED  BY <1>1, <1>6, <1>7

LEMMA MainBeginAckUnseen ==
    ASSUME Inv, AllPolite, Visible, NEW p \in Players, MainBeginAck(p)
    PROVE  UNCHANGED Views
<1>1. PICK m \in Msgs, q \in Everyone :
        /\ m = Head(toMain[p]) /\ m.type \in {"BEGINREQACK", "BEGINRESPACK"} /\ m.who = q
        /\ Takes(toMain, toMain', p, m) /\ client' = client
  BY RequestTakes, MsgsFacts DEF MainBeginAck
<1>2. Request(p, {"BEGINREQACK", "BEGINRESPACK"})
  BY DEF MainBeginAck
<1>3. PICK n : n = [m EXCEPT !.who = p]
  OBVIOUS
<1>4. n \in Msgs /\ n.type = m.type /\ n.who = p /\ n.ok = m.ok
  BY <1>1, <1>3, PassedOn
<1>5. q \in isOnline => q \in Players /\ Puts(fromMain, fromMain', q, n)
  <2>1. ASSUME q \in isOnline PROVE q \in Players /\ Deliver(q, n)
    BY <1>1, <1>3, <2>1 DEF MainBeginAck, Relay, Inv, Typing
  <2> QED  BY <1>4, <2>1, DeliverPuts
<1>6. q \notin isOnline => fromMain' = fromMain
  BY <1>1 DEF MainBeginAck, Relay
<1>7. CASE m.type = "BEGINREQACK"
  BY <1>1, <1>2, <1>4, <1>5, <1>6, <1>7, ServeUnseen DEF Staged
<1>8. CASE m.type = "BEGINRESPACK"
  <2>1. \A x : (m \in Settle(x) <=> x = q) /\ m \notin Consent(x)
    BY <1>1, <1>8, Kinds
  <2>2. CASE q \notin Players
    <3>1. fromMain' = fromMain
      BY <1>6, <2>2 DEF Inv, Typing
    <3>2. \A a, x \in Players :
            /\ Has(toMain'[a], Consent(x)) <=> Has(toMain[a], Consent(x))
            /\ Has(toMain'[x], Settle(a)) <=> Has(toMain[x], Settle(a))
      BY <1>1, <2>1, <2>2 DEF Takes
    <3>3. \A a, x \in Players : /\ Consenting(a, x)' <=> Consenting(a, x)
                                /\ Called(a, x)' <=> Called(a, x)
      BY <3>1, <3>2 DEF Consenting, Called, Stage
    <3> QED  BY <1>1, <3>3, PassUnseen
  <2>3. CASE q \in Players
    <3>1. q \in isOnline
      <4>1. p \in Everyone
        BY NamesFacts DEF Everyone
      <4>2. Stage(q, p, "settling")
        BY <1>1, <2>1 DEF Stage, Takes
      <4>3. Accepts(q, p)
        BY <2>3, <4>1, <4>2, OnlyStage
      <4> QED  BY <2>3, <4>3, WaitingOnline DEF Accepts
    <3>2. \A x : (n \in Settle(x) <=> x = p) /\ n \notin Consent(x)
      BY <1>4, <1>8, Kinds
    <3>3. \A a, x \in Players : /\ Consenting(a, x)' <=> Consenting(a, x)
                                /\ Called(a, x)' <=> Called(a, x)
      <4> SUFFICES ASSUME NEW a \in Players, NEW x \in Players
                   PROVE  /\ Consenting(a, x)' <=> Consenting(a, x)
                          /\ Called(a, x)' <=> Called(a, x)
        OBVIOUS
      <4>1. /\ Has(toMain[x], Settle(a)) <=>
                 Has(toMain'[x], Settle(a)) \/ (x = p /\ a = q)
            /\ Has(toMain'[a], Consent(x)) <=> Has(toMain[a], Consent(x))
        BY <1>1, <2>1 DEF Takes
      <4>2. /\ Has(fromMain'[a], Settle(x)) <=>
                 Has(fromMain[a], Settle(x)) \/ (a = q /\ x = p)
            /\ Has(fromMain'[x], Consent(a)) <=> Has(fromMain[x], Consent(a))
        BY <1>5, <3>1, <3>2 DEF Puts
      <4> QED  BY <4>1, <4>2 DEF Consenting, Called, Stage
    <3> QED  BY <1>1, <3>3, PassUnseen
  <2> QED  BY <2>2, <2>3
<1> QED  BY <1>1, <1>7, <1>8

\* A request of a client that is gone is skipped: who accepted its invitation is
\* never told.
LEMMA MainSkipParts ==
    ASSUME Inv, AllPolite, Visible, NEW p \in Players, MainSkip(p)
    PROVE  Promise!Next \/ UNCHANGED Views
<1>1. PICK m \in Msgs, q \in Everyone :
        /\ m = Head(toMain[p]) /\ m.who = q
        /\ Takes(toMain, toMain', p, m) /\ client' = client
  BY RequestTakes, MsgsFacts DEF MainSkip
<1>2. /\ Request(p, Requests \ {"FAREWELL"}) /\ fromMain' = fromMain
      /\ client[p].status = "gone"
  BY DEF MainSkip
<1>3. p \in Everyone
  BY NamesFacts DEF Everyone
<1>4. CASE m \notin Staged
  BY <1>1, <1>2, <1>4, ServeUnseen
<1>5. CASE m.type = "BEGINRESP" /\ m.ok
  <2>1. m \in Consent(q)
    BY <1>1, <1>5, Kinds
  <2>2. Stage(p, q, "consenting")
    BY <1>1, <2>1 DEF Stage, Takes
  <2>3. Accepts(p, q)
    BY <2>2, OnlyStage
  <2> QED  BY <1>2, <2>3 DEF Accepts
<1>6. CASE m.type = "BEGINRESPACK"
  <2>1. \A x : (m \in Settle(x) <=> x = q) /\ m \notin Consent(x)
    BY <1>1, <1>6, Kinds
  <2>2. \A a, x \in Players :
          /\ Has(toMain'[a], Consent(x)) <=> Has(toMain[a], Consent(x))
          /\ Has(toMain[x], Settle(a)) <=> Has(toMain'[x], Settle(a)) \/ (x = p /\ a = q)
    BY <1>1, <2>1 DEF Takes
  <2>3. CASE q \notin Players
    <3>1. \A a, x \in Players : /\ Consenting(a, x)' <=> Consenting(a, x)
                                /\ Called(a, x)' <=> Called(a, x)
      BY <1>2, <2>2, <2>3 DEF Consenting, Called, Stage
    <3> QED  BY <1>1, <3>1, PassUnseen
  <2>4. CASE q \in Players
    <3>1. Stage(q, p, "settling")
      BY <1>1, <2>1 DEF Stage, Takes
    <3>2. /\ Accepts(q, p)
          /\ \A x \in Everyone : \A w : Stage(q, x, w) => w = "settling" /\ x = p
      BY <1>3, <2>4, <3>1, OnlyStage
    <3>3. ~Has(toMain'[p], Settle(q))
      <4>1. Once(toMain[p], Settle(q))
        BY AllSole DEF Sole
      <4> QED  BY <1>1, <2>1, <4>1 DEF Takes
    <3>4. Players \subseteq Everyone
      BY NamesFacts DEF Everyone
    <3>5. \A x \in Players : ~Called(q, x)'
      <4> SUFFICES ASSUME NEW x \in Players, Called(q, x)' PROVE FALSE
        OBVIOUS
      <4>1. Stage(q, x, "settling") \/ Stage(q, x, "settled")
        BY <1>2, <2>2, <2>4 DEF Called, Stage
      <4>2. x = p /\ ~Stage(q, x, "settled")
        BY <3>2, <3>4, <4>1
      <4> QED  BY <1>2, <3>3, <4>2 DEF Called, Stage
    <3>6. /\ \A a, x \in Players : Consenting(a, x)' <=> Consenting(a, x)
          /\ \A a \in Players \ {q}, x \in Players : Called(a, x)' <=> Called(a, x)
      BY <1>2, <2>2 DEF Consenting, Called, Stage
    <3>7. View(q) /\ View(q)' /\ Called(q, p)
      BY <2>4, <3>1 DEF Visible, Called
    <3>8. client[q].status # "on_match" /\ client'[q].status # "on_match"
      BY <1>1, <3>2 DEF Accepts
    <3>9. Partner(q) # NoOne /\ Partner(q)' = NoOne
      BY <3>5, <3>7, <3>8, NamesFacts DEF View
    <3>10. Consents(q)' = Consents(q) /\ Asks(q)' = Asks(q)
      <4>1. \A x \in Players : ~Consenting(q, x)
        BY <3>2, <3>4 DEF Consenting
      <4>2. \A x \in Players : ~Consenting(q, x)'
        BY <2>4, <3>6, <4>1
      <4> QED  BY <1>1, <3>7, <4>1, <4>2 DEF View, Asks
    <3>11. ASSUME NEW a \in Players \ {q} PROVE Unseen(a)
      <4>1. View(a) /\ View(a)'
        BY DEF Visible
      <4>2. \A x \in Players : /\ Consenting(a, x)' <=> Consenting(a, x)
                               /\ Called(a, x)' <=> Called(a, x)
        BY <3>6
      <4>3. Consents(a)' = Consents(a) /\ Partner(a)' = Partner(a)
        BY <1>1, <4>1, <4>2, ViewKept
      <4> QED  BY <1>1, <4>3 DEF Unseen, Asks
    <3> QED  BY <2>4, <3>9, <3>10, <3>11, PromisePart
  <2> QED  BY <2>3, <2>4
<1> QED  BY <1>4, <1>5, <1>6 DEF Staged

LEMMA MainKeepsPromise ==
    ASSUME Inv, AllPolite, Visible, NEW p \in Players, Main(p)
    PROVE  Promise!Next \/ UNCHANGED Views
<1>1. CASE MainBegin(p) \/ MainBeginAck(p)
  BY <1>1, MainBeginUnseen, MainBeginAckUnseen
<1>2. CASE MainCancel(p)
  BY <1>2, NoCancel
<1>3. CASE MainMatch(p) \/ MainNoUsername(p)
  <2>1. PICK types : /\ Request(p, types) /\ fromMain' = fromMain
                     /\ types \subseteq {"START", "FINISH", "CANCEL", "LOGOUT"}
    BY <1>3 DEF MainMatch, MainNoUsername
  <2>2. Head(toMain[p]) \notin Staged
    BY <2>1, RequestTakes DEF Staged
  <2> QED  BY <2>1, <2>2, ServeUnseen
<1>4. CASE MainSession(p)
  <2>1. Request(p, {"LOGIN", "LOGOUT", "EXIT", "FAREWELL"})
    BY <1>4 DEF MainSession
  <2>2. Head(toMain[p]) \notin Staged
    BY <2>1, RequestTakes DEF Staged
  <2>3. fromMain' = fromMain
          \/ \E m \in Msgs \ Staged : Puts(fromMain, fromMain', p, m)
    <3>1. \/ fromMain' = fromMain
          \/ \E m \in Msgs : Deliver(p, m) /\ m.type \in {"LOGINACK", "LOGOUTACK", "EXITACK"}
      <4>1. p \in Everyone
        BY NamesFacts DEF Everyone
      <4>2. CASE Deliver(p, Msg("LOGINACK", p, p \notin isOnline, 0))
        <5>1. PICK m : m = Msg("LOGINACK", p, p \notin isOnline, 0)
          OBVIOUS
        <5>2. m \in Msgs /\ m.type = "LOGINACK"
          BY <4>1, <5>1 DEF Msg, Msgs, MessagesOf, Everyone, Responses
        <5> QED  BY <4>2, <5>1, <5>2
      <4>3. CASE Deliver(p, Plain("LOGOUTACK", p)) \/ Deliver(p, Plain("EXITACK", p))
        BY <4>1, <4>3, WrittenPlain DEF Responses
      <4> QED  BY <1>4, <4>2, <4>3 DEF MainSession
    <3> QED  BY <3>1, DeliverPuts DEF Staged
  <2> QED  BY <2>1, <2>2, <2>3, ServeUnseen
<1>5. CASE MainSkip(p)
  BY <1>5, MainSkipParts
<1> QED  BY <1>1, <1>2, <1>3, <1>4, <1>5 DEF Main

LEMMA BeginReqUnseen ==
    ASSUME Inv, AllPolite, Visible, NEW p \in Players, ReadBeginReq(p)
    PROVE  UNCHANGED Views
<1>1. PICK m \in Msgs, from \in Players :
        /\ m = Head(fromMain[p]) /\ m.type = "BEGINREQ" /\ m.who = from
        /\ Takes(fromMain, fromMain', p, m)
  BY ReadTakes DEF ReadBeginReq
<1>2. client \in [Players -> Clients] /\ from \in Everyone
  BY QueueTypes, NamesFacts DEF Everyone
<1>3. PICK ok \in BOOLEAN : ok = CanBeInvited(p, from)
  BY DEF CanBeInvited
<1>4. PICK n \in Msgs : Send(p, <<n>>) /\ n.type = "BEGINREQACK"
  <2>1. Send(p, <<Msg("BEGINREQACK", from, ok, 0)>>)
    BY <1>1, <1>3 DEF ReadBeginReq
  <2> QED  BY <1>2, <2>1, Written DEF Requests
<1>5. Puts(toMain, toMain', p, n)
  BY <1>4, SendPuts
<1>6. client' = [client EXCEPT ![p].inviteFrom = from] \/ client' = client
  BY <1>1 DEF ReadBeginReq
<1>7. /\ client'[p].status = client[p].status
      /\ client'[p].inviteTo = client[p].inviteTo /\ client'[p].rival = client[p].rival
      /\ \A a \in Players \ {p} : client'[a] = client[a]
  BY <1>2, <1>6 DEF Clients
<1>8. SameStaged(toMain, toMain') /\ SameStaged(fromMain, fromMain')
  BY <1>1, <1>4, <1>5, StagedPut, StagedTake DEF Staged
<1>9. Asks(p)' = Asks(p)
  BY <1>7 DEF Asks
<1> QED  BY <1>7, <1>8, <1>9, StutterStep

\* p learns that its invitation came to nothing.
LEMMA DeclinedParts ==
    ASSUME Inv, AllPolite, Visible, NEW p \in Players, NEW m \in Msgs,
           Takes(fromMain, fromMain', p, m), m \in Answer(m.who), m \notin Staged,
           client' = [client EXCEPT ![p].status = "logged", ![p].inviteTo = NoOne],
           toMain' = toMain
    PROVE  Promise!Next
<1>1. PICK q \in Everyone : q = m.who
  BY MsgsFacts
<1>2. Waits(p, q)
  <2>1. Place(p, q, "answered")
    BY <1>1 DEF Place, Takes
  <2> QED  BY <2>1, OnlyPlace
<1>3. client \in [Players -> Clients]
  BY QueueTypes
<1>4. /\ client'[p].status = "logged"
      /\ \A a \in Players \ {p} : client'[a] = client[a]
  BY <1>3 DEF Clients
<1>5. SameStaged(toMain, toMain') /\ SameStaged(fromMain, fromMain')
  BY StagedTake, StagedSame
<1> QED  BY <1>2, <1>4, <1>5, NotAskedStep

LEMMA BeginReqAckAnswers ==
    ASSUME Inv, AllPolite, Visible, NEW p \in Players, ReadBeginReqAck(p)
    PROVE  Promise!Next \/ UNCHANGED Views
<1>1. PICK m \in Msgs :
        /\ m = Head(fromMain[p]) /\ m.type = "BEGINREQACK"
        /\ Takes(fromMain, fromMain', p, m)
  BY ReadTakes DEF ReadBeginReqAck
<1>2. toMain' = toMain /\ m \notin Staged
  BY <1>1 DEF ReadBeginReqAck, Staged
<1>3. CASE m.ok
  <2>1. client' = client
    BY <1>1, <1>3 DEF ReadBeginReqAck
  <2>2. SameStaged(toMain, toMain') /\ SameStaged(fromMain, fromMain')
    BY <1>1, <1>2, StagedTake, StagedSame
  <2>3. Asks(p)' = Asks(p)
    BY <2>1 DEF Asks
  <2> QED  BY <2>1, <2>2, <2>3, StutterStep
<1>4. CASE ~m.ok
  <2>1. m \in Answer(m.who)
    BY <1>1, <1>4, Kinds
  <2>2. client' = [client EXCEPT ![p].status = "logged", ![p].inviteTo = NoOne]
    BY <1>1, <1>4 DEF ReadBeginReqAck
  <2> QED  BY <1>1, <1>2, <2>1, <2>2, DeclinedParts
<1> QED  BY <1>3, <1>4

\* The acceptance of q is read by p, who is on a match from now on, and so is q,
\* for whom the summons is on its way.
LEMMA ListenPairs ==
    ASSUME Inv, AllPolite, Visible, NEW p \in Players, NEW q \in Players,
           NEW m \in Consent(q), Takes(fromMain, fromMain', p, m), Waits(p, q),
           StartListening(p, q)
    PROVE  Promise!Next
<1>1. /\ m \in Msgs /\ client \in [Players -> Clients] /\ ports \in Nat
  BY QueueTypes DEF Consent
<1>2. p \in Everyone /\ q \in Everyone /\ Players \subseteq Everyone
  BY NamesFacts DEF Everyone
<1>3. \A x : (m \in Consent(x) <=> x = q) /\ m \notin Settle(x)
  <2>1. m.type = "BEGINRESP" /\ m.ok /\ m.who = q
    BY DEF Consent
  <2> QED  BY <1>1, <2>1, Kinds
<1>4. PICK k \in Nat : k = ports'
  BY <1>1 DEF StartListening, createGameListingSocket
<1>5. PICK n : n = Msg("BEGINRESPACK", q, TRUE, k)
  OBVIOUS
<1>6. n \in Msgs /\ n.type = "BEGINRESPACK" /\ n.who = q
  BY <1>2, <1>4, <1>5 DEF Msg, Msgs, MessagesOf, Everyone, Requests
<1>7. Puts(toMain, toMain', p, n)
  <2>1. Send(p, <<n>>)
    BY <1>4, <1>5 DEF StartListening
  <2> QED  BY <1>6, <2>1, SendPuts
<1>8. \A x : (n \in Settle(x) <=> x = q) /\ n \notin Consent(x)
  BY <1>6, Kinds
<1>9. /\ client'[p].status = "on_match" /\ client'[p].rival = q
      /\ \A a \in Players \ {p} : client'[a] = client[a]
  BY <1>1 DEF StartListening
<1>10. /\ Accepts(q, p)
       /\ \A x \in Everyone : \A w : Stage(q, x, w) => w = "consented" /\ x = p
  <2>1. Stage(q, p, "consented")
    BY <1>3 DEF Stage, Takes
  <2> QED  BY <1>2, <2>1, OnlyStage
<1>11. q # p
  BY <1>10 DEF Accepts, Waits
<1>12. \A x : ~Accepts(p, x)
  BY DEF Accepts, Waits
<1>13. \A x \in Players : ~Consenting(p, x) /\ ~Called(p, x)
  BY <1>12, NoStages
<1>14. \A a, x \in Players :
         /\ Has(toMain'[a], Consent(x)) <=> Has(toMain[a], Consent(x))
         /\ Has(toMain'[x], Settle(a)) <=> Has(toMain[x], Settle(a)) \/ (x = p /\ a = q)
         /\ Has(fromMain'[a], Settle(x)) <=> Has(fromMain[a], Settle(x))
         /\ Has(fromMain[x], Consent(a)) <=>
              Has(fromMain'[x], Consent(a)) \/ (x = p /\ a = q)
  BY <1>3, <1>7, <1>8 DEF Puts, Takes
<1>15. \A a, x \in Players : Called(a, x)' <=> Called(a, x) \/ (a = q /\ x = p)
  BY <1>14 DEF Called, Stage
<1>16. \A a \in Players \ {q}, x \in Players : Consenting(a, x)' <=> Consenting(a, x)
  BY <1>14 DEF Consenting, Stage
<1>17. ~Has(fromMain'[p], Consent(q))
  <2>1. Once(fromMain[p], Answer(q))
    BY <1>2, AllSole DEF Sole
  <2>2. Consent(q) \subseteq Answer(q)
    BY DEF Consent, Answer
  <2>3. ~Has(fromMain'[p], Answer(q))
    BY <2>1, <2>2 DEF Takes
  <2> QED  BY <2>2, <2>3, Fewer
<1>18. \A x \in Players : ~Consenting(q, x)'
  <2> SUFFICES ASSUME NEW x \in Players, Consenting(q, x)' PROVE FALSE
    OBVIOUS
  <2>1. Consenting(q, x)
    BY <1>14 DEF Consenting, Stage
  <2>2. x = p /\ ~Stage(q, x, "consenting")
    BY <1>2, <1>10, <2>1 DEF Consenting
  <2> QED  BY <1>14, <1>17, <2>2 DEF Consenting, Stage
<1>19. Consenting(q, p)
  BY <1>3 DEF Consenting, Stage, Takes
<1>20. View(p) /\ View(p)' /\ View(q) /\ View(q)'
  BY DEF Visible
<1>21. Asks(p) = q /\ Asks(p)' = NoOne /\ Asks(q)' = Asks(q)
  BY <1>9, <1>11 DEF Asks, Waits
<1>22. Consents(p)' = Consents(p) /\ Partner(p)' = q
  BY <1>9, <1>11, <1>13, <1>16, <1>20 DEF View
<1>23. Consents(q) = p /\ Consents(q)' = NoOne
  BY <1>18, <1>19, <1>20 DEF View
<1>24. Partner(q)' = p
  <2>1. client'[q].status # "on_match"
    BY <1>9, <1>10, <1>11 DEF Accepts
  <2> QED  BY <1>15, <1>20, <2>1 DEF View
<1>25. ASSUME NEW a \in Players \ {p, q} PROVE Unseen(a)
  <2>1. View(a) /\ View(a)' /\ client'[a] = client[a]
    BY <1>9 DEF Visible
  <2>2. Consents(a)' = Consents(a) /\ Partner(a)' = Partner(a)
    BY <1>15, <1>16, <2>1, ViewKept
  <2> QED  BY <2>1, <2>2 DEF Unseen, Asks
<1> QED  BY <1>11, <1>21, <1>22, <1>23, <1>24, <1>25, PromisePair

LEMMA BeginRespPairs ==
    ASSUME Inv, AllPolite, Visible, NEW p \in Players, ReadBeginResp(p)
    PROVE  Promise!Next
<1>1. PICK m \in Msgs, q \in Players :
        /\ m = Head(fromMain[p]) /\ m.type = "BEGINRESP" /\ m.who = q
        /\ Takes(fromMain, fromMain', p, m)
  BY ReadTakes DEF ReadBeginResp
<1>2. m \in Answer(q) /\ m \in Answer(m.who) /\ (m.ok => m \in Consent(q))
  BY <1>1, Kinds
<1>3. Waits(p, q)
  <2>1. q \in Everyone
    BY NamesFacts DEF Everyone
  <2>2. Place(p, q, "answered")
    BY <1>1, <1>2 DEF Place, Takes
  <2> QED  BY <2>1, <2>2, OnlyPlace
<1>4. IsAvailable(p, q)
  BY <1>3 DEF Waits, IsAvailable
<1>5. CASE m.ok
  <2>1. StartListening(p, q)
    BY <1>1, <1>4, <1>5 DEF ReadBeginResp
  <2> QED  BY <1>1, <1>2, <1>3, <1>5, <2>1, ListenPairs
<1>6. CASE ~m.ok
  <2>1. /\ client' = [client EXCEPT ![p].status = "logged", ![p].inviteTo = NoOne]
        /\ toMain' = toMain
    BY <1>1, <1>4, <1>6 DEF ReadBeginResp
  <2>2. m \notin Staged
    BY <1>1, <1>6 DEF Staged
  <2> QED  BY <1>1, <1>2, <2>1, <2>2, DeclinedParts
<1> QED  BY <1>5, <1>6

\* p reads the summons of q: it is on the match that it was told of, or dies.
LEMMA SummonsRead ==
    ASSUME Inv, AllPolite, Visible, NEW p \in Players, NEW q \in Players,
           NEW m \in Settle(q), Takes(fromMain, fromMain', p, m),
           NEW n \in Msgs \ Staged, Puts(toMain, toMain', p, n),
           \A a \in Players \ {p} : client'[a] = client[a],
           \/ client'[p].status = "gone"
           \/ client'[p].status = "on_match" /\ client'[p].rival = q
    PROVE  Promise!Next \/ UNCHANGED Views
<1>1. p \in Everyone /\ q \in Everyone /\ Players \subseteq Everyone
  BY NamesFacts DEF Everyone
<1>2. \A x : (m \in Settle(x) <=> x = q) /\ m \notin Consent(x)
  <2>1. m \in Msgs /\ m.type = "BEGINRESPACK" /\ m.who = q
    BY DEF Settle
  <2> QED  BY <2>1, Kinds
<1>3. /\ Accepts(p, q)
      /\ \A x \in Everyone : \A w : Stage(p, x, w) => w = "settled" /\ x = q
  <2>1. Stage(p, q, "settled")
    BY DEF Stage, Takes
  <2> QED  BY <1>1, <2>1, OnlyStage
<1>4. Called(p, q) /\ \A x \in Players : ~Consenting(p, x)
  BY <1>1, <1>2, <1>3 DEF Called, Consenting, Stage, Takes
<1>5. ~Has(fromMain'[p], Settle(q))
  <2>1. Once(fromMain[p], Settle(q))
    BY <1>1, AllSole DEF Sole
  <2> QED  BY <2>1 DEF Takes
<1>6. \A a, x \in Players :
        /\ Has(toMain'[a], Consent(x)) <=> Has(toMain[a], Consent(x))
        /\ Has(toMain'[x], Settle(a)) <=> Has(toMain[x], Settle(a))
        /\ Has(fromMain'[x], Consent(a)) <=> Has(fromMain[x], Consent(a))
        /\ Has(fromMain[a], Settle(x)) <=> Has(fromMain'[a], Settle(x)) \/ (a = p /\ x = q)
  <2>1. \A x : n \notin Consent(x) /\ n \notin Settle(x)
    BY AreStaged
  <2> QED  BY <1>2, <2>1 DEF Puts, Takes
<1>7. /\ \A a, x \in Players : Consenting(a, x)' <=> Consenting(a, x)
      /\ \A a \in Players \ {p}, x \in Players : Called(a, x)' <=> Called(a, x)
  BY <1>6 DEF Consenting, Called, Stage
<1>8. \A x \in Players : ~Called(p, x)'
  <2> SUFFICES ASSUME NEW x \in Players, Called(p, x)' PROVE FALSE
    OBVIOUS
  <2>1. Called(p, x)
    BY <1>6 DEF Called, Stage
  <2>2. x = q /\ ~Stage(p, x, "settling")
    BY <1>1, <1>3, <2>1 DEF Called
  <2> QED  BY <1>5, <1>6, <2>2 DEF Called, Stage
<1>9. View(p) /\ View(p)'
  BY DEF Visible
<1>10. Consents(p)' = Consents(p)
  <2>1. \A x \in Players : ~Consenting(p, x)'
    BY <1>4, <1>7
  <2> QED  BY <1>4, <1>9, <2>1 DEF View
<1>11. Asks(p) = NoOne /\ Asks(p)' = NoOne
  BY <1>3 DEF Accepts, Asks
<1>12. Partner(p) = q /\ q # NoOne
  BY <1>3, <1>4, <1>9, NamesFacts DEF Accepts, View
<1>13. ASSUME NEW a \in Players \ {p} PROVE Unseen(a)
  <2>1. View(a) /\ View(a)' /\ client'[a] = client[a]
    BY DEF Visible
  <2>2. Consents(a)' = Consents(a) /\ Partner(a)' = Partner(a)
    BY <1>7, <2>1, ViewKept
  <2> QED  BY <2>1, <2>2 DEF Unseen, Asks
<1>14. CASE client'[p].status = "gone"
  <2>1. Partner(p)' = NoOne
    BY <1>8, <1>9, <1>14 DEF View
  <2> QED  BY <1>10, <1>11, <1>12, <1>13, <2>1, PromisePart
<1>15. CASE client'[p].status = "on_match" /\ client'[p].rival = q
  <2>1. Partner(p)' = q
    BY <1>9, <1>15 DEF View
  <2>2. Unseen(p)
    BY <1>10, <1>11, <1>12, <2>1 DEF Unseen
  <2> QED  BY <1>13, <2>2, Stutter
<1> QED  BY <1>14, <1>15

LEMMA BeginRespAckRead ==
    ASSUME Inv, AllPolite, Visible, NEW p \in Players, ReadBeginRespAck(p)
    PROVE  Promise!Next \/ UNCHANGED Views
<1>1. PICK m \in Msgs, q \in Everyone :
        /\ m = Head(fromMain[p]) /\ m.type = "BEGINRESPACK" /\ m.who = q
        /\ Takes(fromMain, fromMain', p, m)
  BY ReadTakes, MsgsFacts DEF ReadBeginRespAck
<1>2. client \in [Players -> Clients]
  BY QueueTypes
<1>3. m \in Settle(q) /\ m.ok
  <2>1. m \notin Unsaid
    BY <1>1 DEF AllPolite, Polite, Silent, Takes
  <2> QED  BY <1>1, <2>1 DEF Unsaid, Settle
<1>4. client[p].status = "waiting" /\ client[p].inviteFrom = q /\ q \in Players
  <2>1. Stage(p, q, "settled")
    BY <1>1, <1>3 DEF Stage, Takes
  <2>2. Accepts(p, q)
    BY <2>1, OnlyStage
  <2> QED  BY <1>2, <2>2 DEF Accepts, Clients
<1>5. Join(p, q, m.port)
  BY <1>1, <1>3 DEF ReadBeginRespAck
<1>6. CASE ConnectionRefused(p, q, m.port)
  <2>1. PICK n \in Msgs : n = Plain("FAREWELL", NoOne) /\ n.type = "FAREWELL"
    BY WrittenPlain DEF Requests, Everyone
  <2>2. Ends(p, Tail(fromMain[p]), <<n>>)
    BY <1>4, <1>6, <2>1 DEF ConnectionRefused, Dies
  <2>3. /\ client' = [client EXCEPT ![p].status = "gone", ![p].poll = "none"]
        /\ Send(p, <<n>>)
    BY <2>2 DEF Ends
  <2>4. /\ client'[p].status = "gone"
        /\ \A a \in Players \ {p} : client'[a] = client[a]
    BY <1>2, <2>3 DEF Clients
  <2>5. n \in Msgs \ Staged /\ Puts(toMain, toMain', p, n)
    BY <2>1, <2>3, SendPuts DEF Staged
  <2> QED  BY <1>1, <1>3, <1>4, <2>4, <2>5, SummonsRead
<1>7. CASE ~ConnectionRefused(p, q, m.port)
  <2>1. PICK n \in Msgs : n = Plain("START", q) /\ n.type = "START"
    BY WrittenPlain DEF Requests
  <2>2. /\ client' = [client EXCEPT
                        ![p] = [status |-> "on_match", inviteTo |-> NoOne,
                                inviteFrom |-> NoOne, rival |-> @.inviteFrom,
                                accepting |-> @.accepting, poll |-> "conn",
                                port |-> m.port]]
        /\ Send(p, <<n>>)
    BY <1>4, <1>5, <1>7, <2>1 DEF Join
  <2>3. /\ client'[p].status = "on_match" /\ client'[p].rival = q
        /\ \A a \in Players \ {p} : client'[a] = client[a]
    BY <1>2, <1>4, <2>2
  <2>4. n \in Msgs \ Staged /\ Puts(toMain, toMain', p, n)
    BY <2>1, <2>2, SendPuts DEF Staged
  <2> QED  BY <1>1, <1>3, <1>4, <2>3, <2>4, SummonsRead
<1> QED  BY <1>6, <1>7

LEMMA SessionUnseen ==
    ASSUME Inv, AllPolite, Visible, NEW p \in Players, ReadSession(p)
    PROVE  UNCHANGED Views
<1>1. PICK type \in {"LOGINACK", "LOGOUTACK", "EXITACK"} :
        /\ Reads(p, type) /\ toMain' = toMain
        /\ \/ client' = [client EXCEPT ![p].status =
                            IF Head(fromMain[p]).ok THEN "logged" ELSE @]
           \/ client' = [client EXCEPT ![p].status = "not_logged"]
           \/ client' = [client EXCEPT ![p].status = "gone", ![p].poll = "none"]
  <2>1. CASE Reads(p, "EXITACK") /\ Ends(p, Tail(fromMain[p]), <<>>)
    <3>1. toMain \in [Players -> Seq(Msgs)]
      BY QueueTypes
    <3>2. toMain[p] \o <<>> = toMain[p]
      BY <3>1
    <3>3. toMain' = toMain
      BY <2>1, <3>1, <3>2 DEF Ends, Send
    <3> QED  BY <2>1, <3>3 DEF Ends
  <2> QED  BY <2>1 DEF ReadSession
<1>2. PICK m \in Msgs : m.type = type /\ Takes(fromMain, fromMain', p, m)
  BY <1>1, ReadTakes
<1>3. \/ client[p].status = "gone"
      \/ client[p].status \in {"logged", "not_logged"} /\ client[p].inviteTo = NoOne
  <2>1. m \in SessionAcks
    BY <1>2, Kinds
  <2>2. Has(fromMain[p], SessionAcks)
    BY <1>2, <2>1 DEF Takes
  <2>3. Session(p) /\ AtRest(p)
    BY DEF AllPolite, Polite
  <2> QED  BY <2>2, <2>3 DEF Session, AtRest
<1>4. client \in [Players -> Clients]
  BY QueueTypes
<1>5. /\ client'[p].status \in {client[p].status, "logged", "not_logged", "gone"}
      /\ \A a \in Players \ {p} : client'[a] = client[a]
  BY <1>1, <1>4 DEF Clients
<1>6. SameStaged(toMain, toMain') /\ SameStaged(fromMain, fromMain')
  BY <1>1, <1>2, StagedTake, StagedSame DEF Staged
<1>7. Asks(p)' = Asks(p)
  BY <1>3, <1>5 DEF Asks
<1> QED  BY <1>3, <1>5, <1>6, <1>7, StutterStep

LEMMA ReceiveKeepsPromise ==
    ASSUME Inv, AllPolite, Visible, NEW p \in Players, Receive(p)
    PROVE  Promise!Next \/ UNCHANGED Views
<1>1. CASE ReadBeginReq(p) \/ ReadBeginReqAck(p)
  BY <1>1, BeginReqUnseen, BeginReqAckAnswers
<1>2. CASE ReadBeginResp(p) \/ ReadBeginRespAck(p)
  BY <1>2, BeginRespPairs, BeginRespAckRead
<1>3. CASE ReadCancel(p)
  BY <1>3, NoCancel
<1>4. CASE ReadSession(p)
  BY <1>4, SessionUnseen
<1> QED  BY <1>1, <1>2, <1>3, <1>4 DEF Receive

\* A request that Pairing does not see is on its way.
LEMMA SaidUnseen ==
    ASSUME Inv, NEW p \in Players, NEW type, NEW who \in Everyone,
           type \in {"START", "FINISH", "FAREWELL", "LOGIN", "LOGOUT", "EXIT"},
           Send(p, <<Plain(type, who)>>), fromMain' = fromMain
    PROVE  SameStaged(toMain, toMain') /\ SameStaged(fromMain, fromMain')
<1>1. PICK m \in Msgs : m = Plain(type, who) /\ m.type = type
  BY WrittenPlain DEF Requests
<1>2. Puts(toMain, toMain', p, m)
  BY <1>1, SendPuts
<1>3. m \notin Staged
  BY <1>1 DEF Staged
<1> QED  BY <1>2, <1>3, StagedPut, StagedSame

LEMMA LeaveUnseen ==
    ASSUME Inv, Visible, NEW p \in Players, Leave(p)
    PROVE  UNCHANGED Views
<1>1. PICK type \in {"LOGOUT", "EXIT", "LOGIN"}, statuses \in SUBSET {"logged", "not_logged"} :
        Type(p, statuses, Plain(type, NoOne), TRUE)
  BY DEF Leave
<1>2. client' = client /\ fromMain' = fromMain /\ Send(p, <<Plain(type, NoOne)>>)
  BY <1>1 DEF Leave, Type
<1>3. SameStaged(toMain, toMain') /\ SameStaged(fromMain, fromMain')
  BY <1>2, SaidUnseen DEF Everyone
<1>4. Asks(p)' = Asks(p)
  BY <1>2 DEF Asks
<1> QED  BY <1>2, <1>3, <1>4, StutterStep

LEMMA AcceptUnseen ==
    ASSUME Inv, Visible, NEW p \in Players, Accept(p)
    PROVE  UNCHANGED Views
<1>1. /\ client \in [Players -> Clients] /\ client[p].rival \in Everyone
      /\ client' = [client EXCEPT ![p].accepting = FALSE, ![p].poll = "conn"]
      /\ Send(p, <<Plain("START", client[p].rival)>>) /\ fromMain' = fromMain
  BY QueueTypes, NamesFacts DEF Accept, Alone, Clients, Everyone
<1>2. /\ client'[p].status = client[p].status /\ client'[p].rival = client[p].rival
      /\ client'[p].inviteTo = client[p].inviteTo
      /\ \A a \in Players \ {p} : client'[a] = client[a]
  BY <1>1 DEF Clients
<1>3. SameStaged(toMain, toMain') /\ SameStaged(fromMain, fromMain')
  BY <1>1, SaidUnseen
<1>4. Asks(p)' = Asks(p)
  BY <1>2 DEF Asks
<1> QED  BY <1>2, <1>3, <1>4, StutterStep

LEMMA AcceptFailsParts ==
    ASSUME Inv, AllPolite, Visible, NEW p \in Players, AcceptFails(p)
    PROVE  Promise!Next
<1>1. /\ client \in [Players -> Clients]
      /\ client' = [client EXCEPT ![p].accepting = FALSE, ![p].poll = "lost",
                                  ![p].status = "logged", ![p].rival = NoOne]
      /\ toMain' = toMain /\ fromMain' = fromMain
  BY QueueTypes DEF AcceptFails, Alone
<1>2. client'[p].status = "logged" /\ \A a \in Players \ {p} : client'[a] = client[a]
  BY <1>1 DEF Clients
<1>3. client[p].status = "on_match"
  BY PolledOnMatch DEF AcceptFails
<1>4. SameStaged(toMain, toMain') /\ SameStaged(fromMain, fromMain')
  BY <1>1, StagedSame
<1> QED  BY <1>2, <1>3, <1>4, PartStep

LEMMA ClosingParts ==
    ASSUME Inv, AllPolite, Visible, NEW p \in Players, client[p].status = "on_match",
           closingGame(p), Send(p, <<Plain("FINISH", NoOne)>>), fromMain' = fromMain
    PROVE  Promise!Next
<1>1. client \in [Players -> Clients]
  BY QueueTypes
<1>2. client'[p].status = "logged" /\ \A a \in Players \ {p} : client'[a] = client[a]
  BY <1>1 DEF closingGame, Clients
<1>3. SameStaged(toMain, toMain') /\ SameStaged(fromMain, fromMain')
  BY SaidUnseen DEF Everyone
<1> QED  BY <1>2, <1>3, PartStep

\* The process of p dies, on a match or not waiting.
LEMMA DeathParts ==
    ASSUME Inv, AllPolite, Visible, NEW p \in Players, Dies(p, fromMain[p]),
           client[p].status # "waiting", fromMain' = fromMain
    PROVE  Promise!Next \/ UNCHANGED Views
<1>1. PICK requests \in {<<>>, <<Plain("FAREWELL", NoOne)>>} :
        Ends(p, fromMain[p], requests)
  BY DEF Dies
<1>2. /\ client \in [Players -> Clients] /\ Send(p, requests)
      /\ client' = [client EXCEPT ![p].status = "gone", ![p].poll = "none"]
  BY <1>1, QueueTypes DEF Ends
<1>3. client'[p].status = "gone" /\ \A a \in Players \ {p} : client'[a] = client[a]
  BY <1>2 DEF Clients
<1>4. SameStaged(toMain, toMain') /\ SameStaged(fromMain, fromMain')
  <2>1. CASE requests = <<>>
    <3>1. toMain \in [Players -> Seq(Msgs)]
      BY QueueTypes
    <3>2. toMain[p] \o <<>> = toMain[p]
      BY <3>1
    <3>3. toMain' = toMain
      BY <1>2, <2>1, <3>1, <3>2 DEF Send
    <3> QED  BY <3>3, StagedSame
  <2>2. CASE requests = <<Plain("FAREWELL", NoOne)>>
    BY <1>2, <2>2, SaidUnseen DEF Everyone
  <2> QED  BY <2>1, <2>2
<1>5. CASE client[p].status = "on_match"
  BY <1>3, <1>4, <1>5, PartStep
<1>6. CASE client[p].status # "on_match"
  <2>1. Asks(p)' = Asks(p)
    BY <1>3 DEF Asks
  <2> QED  BY <1>3, <1>4, <1>6, <2>1, StutterStep
<1> QED  BY <1>5, <1>6

LEMMA AloneKeepsPromise ==
    ASSUME Inv, AllPolite, orderly', Visible, NEW p \in Players,
           EndMatch(p) \/ RivalEnds(p) \/ Kill(p) \/ Crash(p)
    PROVE  Promise!Next \/ UNCHANGED Views
<1>1. fromMain' = fromMain
  BY DEF EndMatch, RivalEnds, Kill, Crash, Alone
<1>2. CASE EndMatch(p)
  BY <1>1, <1>2, ClosingParts DEF EndMatch
<1>3. CASE RivalEnds(p)
  <2>1. client[p].status = "on_match"
    BY <1>3, PolledOnMatch DEF RivalEnds
  <2>2. CASE closingGame(p) /\ Send(p, <<Plain("FINISH", NoOne)>>)
    BY <1>1, <2>1, <2>2, ClosingParts
  <2>3. CASE Dies(p, fromMain[p])
    BY <1>1, <2>1, <2>3, DeathParts
  <2> QED  BY <1>3, <2>2, <2>3 DEF RivalEnds
<1>4. CASE Kill(p) \/ Crash(p)
  <2>1. client[p].status # "waiting" /\ Dies(p, fromMain[p])
    BY <1>4 DEF Kill, Crash, DiesAnyTime
  <2> QED  BY <1>1, <2>1, DeathParts
<1> QED  BY <1>2, <1>3, <1>4

-----------------------------------------------------------------------------
LEMMA PairingInit == Init => Promise!Init
<1> SUFFICES ASSUME Init PROVE Promise!Init
  OBVIOUS
<1>1. Inv /\ AllPolite
  BY InitInv, InitHandshake DEF Init, Handshake, AllPolite
<1>2. ASSUME NEW a \in Players
      PROVE  Asks(a) = NoOne /\ Consents(a) = NoOne /\ Partner(a) = NoOne
  <2>1. client[a].status = "logged"
    BY DEF Init
  <2>2. \A x \in Players : ~Consenting(a, x) /\ ~Called(a, x)
    BY <1>1, <2>1, NoStages DEF Accepts
  <2>3. View(a)
    BY <1>1, ViewHolds
  <2> QED  BY <2>1, <2>2, <2>3 DEF View, Asks
<1> QED  BY <1>2 DEF Promise!Init

\* Every step of orderly users is one of Pairing, or changes nothing it sees.
LEMMA PairingStep ==
    ASSUME Inv, AllPolite, orderly', Visible, [Next]_vars
    PROVE  Promise!Next \/ UNCHANGED Views
<1>1. CASE UNCHANGED vars
  <2>1. client' = client /\ toMain' = toMain /\ fromMain' = fromMain
    BY <1>1 DEF vars
  <2>2. \A a \in Players : Unseen(a)
    BY <2>1 DEF Unseen, Asks, Consents, Partner, Theirs, Summons, Underway, Elements
  <2> QED  BY <2>2, Stutter
<1>2. ASSUME NEW p \in Players, NEW q \in Names, Begin(p, q) PROVE Promise!Next
  BY <1>2, BeginAsks
<1>3. ASSUME NEW p \in Players, NEW accept \in BOOLEAN, Invite(p, accept)
      PROVE  Promise!Next \/ UNCHANGED Views
  BY <1>3, InviteConsents
<1>4. ASSUME NEW p \in Players, Cancel(p) PROVE FALSE
  BY <1>4 DEF Cancel, Type
<1>5. ASSUME NEW p \in Players, Leave(p) \/ Accept(p) PROVE UNCHANGED Views
  BY <1>5, LeaveUnseen, AcceptUnseen
<1>6. ASSUME NEW p \in Players, Main(p) PROVE Promise!Next \/ UNCHANGED Views
  BY <1>6, MainKeepsPromise
<1>7. ASSUME NEW p \in Players, Receive(p) PROVE Promise!Next \/ UNCHANGED Views
  BY <1>7, ReceiveKeepsPromise
<1>8. ASSUME NEW p \in Players, AcceptFails(p) PROVE Promise!Next
  BY <1>8, AcceptFailsParts
<1>9. ASSUME NEW p \in Players, EndMatch(p) \/ RivalEnds(p) \/ Kill(p) \/ Crash(p)
      PROVE  Promise!Next \/ UNCHANGED Views
  BY <1>9, AloneKeepsPromise
<1> QED  BY <1>1, <1>2, <1>3, <1>4, <1>5, <1>6, <1>7, <1>8, <1>9 DEF Next

\* What Pairing sees is settled by the stages, before every orderly step and
\* after it.
LEMMA ViewsVisible ==
    ASSUME Inv /\ Inv', AllPolite /\ AllPolite' PROVE Visible
<1>1. \A a \in Players : View(a)
  BY ViewHolds
<1>2. (\A a \in Players : View(a))'
  BY ViewHolds, PTL
<1> QED  BY <1>1, <1>2 DEF Visible

\* The handshake pairs two players in one step (Pairing): as long as users are
\* orderly, every step of the clients and of the main thread asks, consents,
\* pairs, refuses or parts as Pairing has it, or is not seen there; for any
\* number of players, commands and deaths.
THEOREM PairingImplemented == Spec => ImplementsPairing
<1>1. Init => Inv /\ Handshake
  BY InitInv, InitHandshake
<1>2. Inv /\ Handshake /\ [Next]_vars => (Inv /\ Handshake)'
  BY NextInv, NextHandshake
<1>3. Init => Promise!Init
  BY PairingInit
<1>4. Inv /\ Handshake /\ (Inv /\ Handshake)' /\ [Next]_vars
        => [orderly' => Promise!Next]_<<[p \in Players |-> Asks(p)],
                                        [p \in Players |-> Consents(p)],
                                        [p \in Players |-> Partner(p)]>>
  <2> SUFFICES ASSUME Inv, Handshake, (Inv /\ Handshake)', [Next]_vars, orderly'
               PROVE  Promise!Next \/ UNCHANGED Views
    BY DEF Views
  <2>1. AllPolite /\ AllPolite'
    BY OrderlyBefore DEF Handshake, AllPolite
  <2> QED  BY <2>1, ViewsVisible, PairingStep
<1> QED  BY <1>1, <1>2, <1>3, <1>4, PTL DEF Spec, ImplementsPairing

-----------------------------------------------------------------------------
(***************************************************************************)
(* What the main thread is asked to do, as long as users are orderly.      *)
(***************************************************************************)

\* Served by the USERNAME line; p is not online any more once one of the others
\* is served.
ByUsername == {"START", "FINISH", "LOGOUT"}
GoesOff    == {"LOGOUT", "FAREWELL"}

\* The requests s of p can be served when on are the players online: none that
\* needs the USERNAME line is behind one that takes it away.
Fit(s, p, on) ==
    \A i \in 1..Len(s) : s[i].type \in ByUsername =>
        /\ p \in on
        /\ s[i].type = "START" => s[i].who # NoOne
        /\ \A j \in 1..Len(s) : j < i => s[j].type \notin GoesOff

AllFit == \A p \in Players : Fit(toMain[p], p, isOnline)

Faults == {"no_username", "no_rival", "empty_reply"}
Serving == orderly => AllFit /\ server \notin Faults

LEMMA FitPut ==
    ASSUME NEW s \in Seq(Msgs), NEW m \in Msgs, NEW p, NEW on, Fit(s, p, on),
           m.type \in ByUsername =>
              /\ p \in on
              /\ m.type = "START" => m.who # NoOne
              /\ \A j \in 1..Len(s) : s[j].type \notin GoesOff
    PROVE  Fit(s \o <<m>>, p, on)
<1> DEFINE t == s \o <<m>>
<1>1. /\ Len(s) \in Nat /\ Len(t) = Len(s) + 1
      /\ \A i \in 1..Len(s) : t[i] = s[i]
      /\ t[Len(s) + 1] = m
  BY Put
<1> HIDE DEF t
<1>2. \A i \in 1..Len(t) : i \in 1..Len(s) \/ i = Len(s) + 1
  BY <1>1
<1>3. \A i, j \in 1..Len(t) : j < i => j \in 1..Len(s)
  BY <1>1
<1>4. Fit(t, p, on)
  BY <1>1, <1>2, <1>3 DEF Fit
<1> QED  BY <1>4 DEF t

LEMMA FitTaken ==
    ASSUME NEW s \in Seq(Msgs), s # <<>>, NEW p, NEW on, NEW later,
           Fit(s, p, on),
           p \in on => p \in later \/ Head(s).type \in GoesOff
    PROVE  Fit(Tail(s), p, later)
<1> DEFINE t == Tail(s)
<1>1. /\ Head(s) = s[1] /\ Len(s) \in Nat \ {0} /\ Len(t) = Len(s) - 1
      /\ \A i \in 1..Len(t) : t[i] = s[i + 1]
  BY Taken
<1> HIDE DEF t
<1> SUFFICES ASSUME NEW i \in 1..Len(t), t[i].type \in ByUsername
             PROVE  /\ p \in later
                    /\ t[i].type = "START" => t[i].who # NoOne
                    /\ \A j \in 1..Len(t) : j < i => t[j].type \notin GoesOff
  BY DEF Fit, t
<1>2. i + 1 \in 1..Len(s) /\ 1 \in 1..Len(s) /\ 1 < i + 1 /\ t[i] = s[i + 1]
  BY <1>1
<1>3. /\ p \in on
      /\ s[i + 1].type = "START" => s[i + 1].who # NoOne
      /\ \A j \in 1..Len(s) : j < i + 1 => s[j].type \notin GoesOff
  BY <1>2 DEF Fit
<1>4. p \in later
  BY <1>1, <1>2, <1>3
<1>5. ASSUME NEW j \in 1..Len(t), j < i PROVE t[j].type \notin GoesOff
  <2>1. j + 1 \in 1..Len(s) /\ j + 1 < i + 1 /\ t[j] = s[j + 1]
    BY <1>1, <1>5
  <2> QED  BY <1>3, <2>1
<1> QED  BY <1>2, <1>3, <1>4, <1>5

\* A request of p is put at the end of its queue.
LEMMA PutFit ==
    ASSUME Inv, AllFit, NEW p \in Players, NEW m \in Msgs, Send(p, <<m>>),
           isOnline' = isOnline,
           m.type \in ByUsername =>
              /\ p \in isOnline
              /\ m.type = "START" => m.who # NoOne
              /\ \A j \in 1..Len(toMain[p]) : toMain[p][j].type \notin GoesOff
    PROVE  AllFit'
<1>1. /\ toMain \in [Players -> Seq(Msgs)]
      /\ toMain' = [toMain EXCEPT ![p] = toMain[p] \o <<m>>]
  BY QueueTypes DEF Send
<1>2. Fit(toMain[p] \o <<m>>, p, isOnline)
  BY <1>1, FitPut DEF AllFit
<1>3. ASSUME NEW q \in Players PROVE Fit(toMain'[q], q, isOnline)
  BY <1>1, <1>2 DEF AllFit
<1> QED  BY <1>3 DEF AllFit

\* The first request of p is taken; the players online may change.
LEMMA TakenFit ==
    ASSUME Inv, AllFit, NEW p \in Players, NEW types, Request(p, types),
           \A q \in Players : q \in isOnline =>
              q \in isOnline' \/ (q = p /\ Head(toMain[p]).type \in GoesOff)
    PROVE  AllFit'
<1>1. /\ toMain \in [Players -> Seq(Msgs)] /\ toMain[p] # <<>>
      /\ toMain' = [toMain EXCEPT ![p] = Tail(toMain[p])]
  BY QueueTypes DEF Request
<1>2. Fit(Tail(toMain[p]), p, isOnline')
  BY <1>1, FitTaken DEF AllFit
<1>3. ASSUME NEW q \in Players, q # p PROVE Fit(toMain'[q], q, isOnline')
  <2>1. Fit(toMain[q], q, isOnline) /\ toMain'[q] = toMain[q]
    BY <1>1, <1>3 DEF AllFit
  <2>2. q \in isOnline => q \in isOnline'
    BY <1>3
  <2> QED  BY <2>1, <2>2 DEF Fit
<1>4. toMain'[p] = Tail(toMain[p])
  BY <1>1
<1> QED  BY <1>2, <1>3, <1>4 DEF AllFit

LEMMA SameFit ==
    ASSUME AllFit, toMain' = toMain, isOnline' = isOnline PROVE AllFit'
BY DEF AllFit

\* The first request can be served.
LEMMA HeadFit ==
    ASSUME Inv, AllFit, NEW p \in Players, NEW types, Request(p, types),
           Head(toMain[p]).type \in ByUsername
    PROVE  /\ p \in isOnline
           /\ Head(toMain[p]).type = "START" => Head(toMain[p]).who # NoOne
<1>1. toMain[p] \in Seq(Msgs) /\ toMain[p] # <<>>
  BY QueueTypes DEF Request
<1>2. Head(toMain[p]) = toMain[p][1] /\ 1 \in 1..Len(toMain[p])
  BY <1>1, Taken
<1> QED  BY <1>2 DEF AllFit, Fit

\* Who has no logout under way has nothing in its queue that takes it off.
LEMMA NothingGoesOff ==
    ASSUME Inv, AllPolite, NEW p \in Players, client[p].status # "gone",
           ~Has(toMain[p], SessionReqs)
    PROVE  \A j \in 1..Len(toMain[p]) : toMain[p][j].type \notin GoesOff
<1>1. toMain[p] \in Seq(Msgs)
  BY QueueTypes
<1>2. \A j \in 1..Len(toMain[p]) : toMain[p][j] \in Msgs
  BY <1>1
<1>3. ~Has(toMain[p], Farewells)
  BY DEF AllPolite, Polite, Silent
<1> QED  BY <1>2, <1>3 DEF Has, SessionReqs, Farewells, GoesOff

\* Who waits or plays may tell the server of a match.
LEMMA MayTell ==
    ASSUME Inv, AllPolite, NEW p \in Players,
           client[p].status \in {"waiting", "on_match"}
    PROVE  /\ p \in isOnline
           /\ \A j \in 1..Len(toMain[p]) : toMain[p][j].type \notin GoesOff
<1>1. Session(p)
  BY DEF AllPolite, Polite
<1>2. ~Has(toMain[p], SessionReqs) /\ ~Has(fromMain[p], SessionAcks)
  BY <1>1 DEF Session
<1>3. LogoutAcks \subseteq SessionAcks
  BY DEF LogoutAcks, SessionAcks
<1>4. p \in isOnline
  BY <1>1, <1>2, <1>3, Fewer DEF Session
<1> QED  BY <1>2, <1>4, NothingGoesOff

-----------------------------------------------------------------------------
LEMMA TypedFit ==
    ASSUME Inv, AllPolite, AllFit, server \notin Faults, orderly', NEW p \in Players,
           \/ \E q \in Names : Begin(p, q)
           \/ \E accept \in BOOLEAN : Invite(p, accept)
           \/ Cancel(p)
           \/ Leave(p)
    PROVE  AllFit' /\ server' \notin Faults
<1>1. CASE \/ \E q \in Names : Begin(p, q)
           \/ \E accept \in BOOLEAN : Invite(p, accept)
  <2>1. client[p].inviteFrom \in Everyone /\ NoOne \in Everyone /\ Names \subseteq Everyone
    BY QueueTypes, NamesFacts DEF Clients, Everyone
  <2>2. PICK m \in Msgs : /\ m.type \in {"BEGINREQ", "BEGINRESP"}
                          /\ Send(p, <<m>>)
                          /\ isOnline' = isOnline /\ server' = server
    <3>1. CASE \E q \in Names : Begin(p, q)
      <4>1. PICK q \in Names : Begin(p, q)
        BY <3>1
      <4>2. PICK m \in Msgs : m = Plain("BEGINREQ", q) /\ m.type = "BEGINREQ"
        BY <2>1, WrittenPlain DEF Requests
      <4> QED  BY <4>1, <4>2 DEF Begin, Type, table
    <3>2. CASE \E accept \in BOOLEAN : Invite(p, accept)
      <4>1. PICK accept \in BOOLEAN : Invite(p, accept)
        BY <3>2
      <4>2. PICK m \in Msgs : m = Msg("BEGINRESP", client[p].inviteFrom, accept, 0)
                              /\ m.type = "BEGINRESP"
        BY <2>1, Written DEF Requests
      <4> QED  BY <4>1, <4>2 DEF Invite, Type, table
    <3> QED  BY <1>1, <3>1, <3>2
  <2> QED  BY <2>2, PutFit DEF ByUsername
<1>2. CASE Cancel(p)
  BY <1>2 DEF Cancel, Type
<1>3. CASE Leave(p)
  <2>1. PICK type \in {"LOGOUT", "EXIT", "LOGIN"}, statuses \in SUBSET {"logged", "not_logged"} :
          /\ Type(p, statuses, Plain(type, NoOne), TRUE)
          /\ type = "LOGOUT" => statuses = {"logged"}
    BY <1>3 DEF Leave
  <2>2. PICK m \in Msgs : m = Plain(type, NoOne) /\ m.type = type
    BY WrittenPlain DEF Requests, Everyone
  <2>3. /\ Send(p, <<m>>) /\ ~Awaiting(p) /\ client[p].status \in statuses
        /\ isOnline' = isOnline /\ server' = server
    BY <2>1, <2>2 DEF Type, table
  <2>4. ~Has(toMain[p], SessionReqs) /\ ~Has(fromMain[p], SessionAcks)
    BY <2>3, AwaitingMeans
  <2>5. \A j \in 1..Len(toMain[p]) : toMain[p][j].type \notin GoesOff
    BY <2>1, <2>3, <2>4, NothingGoesOff
  <2>6. type = "LOGOUT" => p \in isOnline
    <3>1. LogoutAcks \subseteq SessionAcks
      BY DEF LogoutAcks, SessionAcks
    <3>2. ~Has(fromMain[p], LogoutAcks) /\ Session(p)
      BY <2>4, <3>1, Fewer DEF AllPolite, Polite
    <3> QED  BY <2>1, <2>3, <3>2 DEF Session
  <2> QED  BY <2>2, <2>3, <2>5, <2>6, PutFit DEF ByUsername
<1> QED  BY <1>1, <1>2, <1>3

LEMMA MainFit ==
    ASSUME Inv, AllPolite, AllFit, NEW p \in Players, Main(p)
    PROVE  AllFit' /\ server' \notin Faults
<1>1. CASE MainBegin(p) \/ MainBeginAck(p)
  <2>1. PICK types : Request(p, types) /\ isOnline' = isOnline
    BY <1>1 DEF MainBegin, MainBeginAck, table
  <2>2. server = "up"
    BY <2>1 DEF Request
  <2>3. server' \in {"up", "sigpipe"}
    BY <1>1, <2>2 DEF MainBegin, MainBeginAck, Relay, Deliver
  <2> QED  BY <2>1, <2>3, TakenFit DEF Faults
<1>2. CASE MainCancel(p)
  BY <1>2, NoCancel
<1>3. CASE MainNoUsername(p)
  <2>1. Request(p, {"CANCEL", "START", "FINISH", "LOGOUT"}) /\ p \notin isOnline
    BY <1>3 DEF MainNoUsername
  <2>2. /\ Head(toMain[p]) \in Msgs
        /\ Head(toMain[p]).type \in {"CANCEL", "START", "FINISH", "LOGOUT"}
        /\ Takes(toMain, toMain', p, Head(toMain[p]))
    BY <2>1, RequestTakes
  <2>3. CASE Head(toMain[p]).type = "CANCEL"
    <3>1. Head(toMain[p]) \in Unsaid
      BY <2>2, <2>3 DEF Unsaid
    <3>2. Has(toMain[p], Unsaid)
      BY <2>2, <3>1 DEF Takes
    <3> QED  BY <3>2 DEF AllPolite, Polite, Silent
  <2>4. CASE Head(toMain[p]).type \in ByUsername
    BY <2>1, <2>4, HeadFit
  <2> QED  BY <2>2, <2>3, <2>4 DEF ByUsername
<1>4. CASE MainMatch(p)
  <2>1. Request(p, {"START", "FINISH"}) /\ isOnline' = isOnline
    BY <1>4 DEF MainMatch, table
  <2>2. Head(toMain[p]).type \in {"START", "FINISH"}
    BY <2>1, RequestTakes
  <2>3. Head(toMain[p]).type = "START" => Head(toMain[p]).who # NoOne
    BY <2>1, <2>2, HeadFit DEF ByUsername
  <2>4. server = "up" /\ server' = server
    BY <1>4, <2>1, <2>3 DEF MainMatch, Request
  <2> QED  BY <2>1, <2>4, TakenFit DEF Faults
<1>5. CASE MainSession(p)
  <2>1. Request(p, {"LOGIN", "LOGOUT", "EXIT", "FAREWELL"})
    BY <1>5 DEF MainSession
  <2>2. server = "up"
    BY <2>1 DEF Request
  <2>3. /\ server' \in {"up", "sigpipe"}
        /\ \/ isOnline \subseteq isOnline'
           \/ Head(toMain[p]).type \in GoesOff /\ isOnline' = isOnline \ {p}
    BY <1>5, <2>2 DEF MainSession, Deliver, GoesOff
  <2>4. \A q \in Players : q \in isOnline =>
           q \in isOnline' \/ (q = p /\ Head(toMain[p]).type \in GoesOff)
    BY <2>3
  <2> QED  BY <2>1, <2>3, <2>4, TakenFit DEF Faults
<1>6. CASE MainSkip(p)
  <2>1. Request(p, Requests \ {"FAREWELL"}) /\ isOnline' = isOnline /\ server' = "blocked"
    BY <1>6 DEF MainSkip, table
  <2> QED  BY <2>1, TakenFit DEF Faults
<1> QED  BY <1>1, <1>2, <1>3, <1>4, <1>5, <1>6 DEF Main

\* A client that ends says no more than a farewell.
LEMMA EndsFit ==
    ASSUME Inv, AllFit, server \notin Faults, NEW p \in Players, NEW unread,
           NEW requests \in {<<>>, <<Plain("FAREWELL", NoOne)>>},
           Ends(p, unread, requests), isOnline' = isOnline
    PROVE  AllFit' /\ server' \notin Faults
<1>1. server' \notin Faults /\ Send(p, requests)
  BY DEF Ends, Faults
<1>2. CASE requests = <<>>
  <2>1. toMain \in [Players -> Seq(Msgs)]
    BY QueueTypes
  <2>2. toMain[p] \o <<>> = toMain[p]
    BY <2>1
  <2>3. toMain' = toMain
    BY <1>1, <1>2, <2>1, <2>2 DEF Send
  <2> QED  BY <1>1, <2>3, SameFit
<1>3. CASE requests = <<Plain("FAREWELL", NoOne)>>
  <2>1. PICK m \in Msgs : m = Plain("FAREWELL", NoOne) /\ m.type = "FAREWELL"
    BY WrittenPlain DEF Requests, Everyone
  <2> QED  BY <1>1, <1>3, <2>1, PutFit DEF ByUsername
<1> QED  BY <1>2, <1>3

LEMMA DiesFit ==
    ASSUME Inv, AllFit, server \notin Faults, NEW p \in Players, NEW unread,
           Dies(p, unread), isOnline' = isOnline
    PROVE  AllFit' /\ server' \notin Faults
<1>1. PICK requests \in {<<>>, <<Plain("FAREWELL", NoOne)>>} : Ends(p, unread, requests)
  BY DEF Dies
<1> QED  BY <1>1, EndsFit

\* The invited client joins: it waits for whom it tells the server.
LEMMA JoinFit ==
    ASSUME Inv, AllPolite, AllFit, server \notin Faults, NEW p \in Players,
           ReadBeginRespAck(p)
    PROVE  AllFit' /\ server' \notin Faults
<1> DEFINE m == Head(fromMain[p])
<1>1. /\ m \in Msgs /\ m.type = "BEGINRESPACK" /\ isOnline' = isOnline
      /\ Takes(fromMain, fromMain', p, m)
  BY ReadTakes DEF ReadBeginRespAck
<1> HIDE DEF m
<1>2. m.who \in Everyone /\ m \in Settle(m.who)
  BY <1>1, MsgsFacts DEF Settle
<1>3. Has(fromMain[p], Settle(m.who))
  BY <1>1, <1>2 DEF Takes
<1>4. Stage(p, m.who, "settled")
  BY <1>3 DEF Stage
<1>5. Accepts(p, m.who)
  BY <1>2, <1>4 DEF AllPolite, Polite, Acceptance
<1>6. client[p].status = "waiting" /\ client[p].inviteFrom # NoOne
  BY <1>5 DEF Accepts
<1>7. CASE UNCHANGED toMain /\ UNCHANGED server
  BY <1>1, <1>7, SameFit
<1>8. CASE ConnectionRefused(p, m.who, m.port)
  BY <1>1, <1>8, DiesFit DEF ConnectionRefused
<1>9. CASE Send(p, <<Plain("START", client[p].inviteFrom)>>) /\ UNCHANGED server
  <2>1. client[p].inviteFrom \in Everyone
    BY QueueTypes, NamesFacts DEF Clients, Everyone
  <2>2. PICK n \in Msgs : /\ n = Plain("START", client[p].inviteFrom)
                          /\ n.type = "START" /\ n.who = client[p].inviteFrom
    BY <2>1, WrittenPlain DEF Requests
  <2> QED  BY <1>1, <1>6, <1>9, <2>2, MayTell, PutFit
<1> QED  BY <1>7, <1>8, <1>9 DEF ReadBeginRespAck, Join, m

LEMMA ReceiveFit ==
    ASSUME Inv, AllPolite, AllFit, server \notin Faults, NEW p \in Players,
           Receive(p)
    PROVE  AllFit' /\ server' \notin Faults
<1>0. isOnline' = isOnline
  <2>1. PICK type : Reads(p, type)
    BY DEF Receive, ReadBeginReq, ReadBeginReqAck, ReadBeginResp,
           ReadBeginRespAck, ReadCancel, ReadSession
  <2> QED  BY <2>1, ReadTakes
<1>1. CASE ReadBeginReq(p)
  <2> DEFINE from == Head(fromMain[p]).who
  <2>1. from \in Everyone
    BY <1>1, ReadTakes, MsgsFacts DEF ReadBeginReq
  <2>2. CanBeInvited(p, from) \in BOOLEAN
    BY DEF CanBeInvited
  <2>3. PICK m \in Msgs : /\ m = Msg("BEGINREQACK", from, CanBeInvited(p, from), 0)
                          /\ m.type = "BEGINREQACK"
    BY <2>1, <2>2, Written DEF Requests
  <2>4. Send(p, <<m>>) /\ server' = server
    BY <1>1, <2>3 DEF ReadBeginReq
  <2> QED  BY <1>0, <2>3, <2>4, PutFit DEF ByUsername
<1>2. CASE ReadBeginReqAck(p) \/ ReadCancel(p)
  BY <1>0, <1>2, SameFit DEF ReadBeginReqAck, ReadCancel
<1>3. CASE ReadBeginResp(p)
  <2> DEFINE from == Head(fromMain[p]).who
  <2>1. from \in Everyone /\ ports \in Nat
    BY <1>3, ReadTakes, MsgsFacts, QueueTypes DEF ReadBeginResp
  <2>2. CASE toMain' = toMain /\ server' = server
    BY <1>0, <2>2, SameFit
  <2>3. CASE TooLate(p, from) /\ server' = server
    <3>1. PICK m \in Msgs : /\ m = Msg("BEGINRESPACK", from, FALSE, 0)
                            /\ m.type = "BEGINRESPACK"
      <4>1. PICK n : n = Msg("BEGINRESPACK", from, FALSE, 0)
        OBVIOUS
      <4>2. n \in Msgs /\ n.type = "BEGINRESPACK"
        BY <2>1, <4>1 DEF Msg, Msgs, MessagesOf, Everyone, Requests
      <4> QED  BY <4>1, <4>2
    <3> QED  BY <1>0, <2>3, <3>1, PutFit DEF TooLate, ByUsername
  <2>4. CASE StartListening(p, from) /\ server' = server
    <3>1. ports' \in Nat
      BY <2>1, <2>4 DEF StartListening, createGameListingSocket
    <3>2. PICK m \in Msgs : /\ m = Msg("BEGINRESPACK", from, TRUE, ports')
                            /\ m.type = "BEGINRESPACK"
      <4>1. PICK n : n = Msg("BEGINRESPACK", from, TRUE, ports')
        OBVIOUS
      <4>2. n \in Msgs /\ n.type = "BEGINRESPACK"
        BY <2>1, <3>1, <4>1 DEF Msg, Msgs, MessagesOf, Everyone, Requests
      <4> QED  BY <4>1, <4>2
    <3> QED  BY <1>0, <2>4, <3>2, PutFit DEF StartListening, ByUsername
  <2> QED  BY <1>3, <2>2, <2>3, <2>4 DEF ReadBeginResp
<1>4. CASE ReadBeginRespAck(p)
  BY <1>4, JoinFit
<1>5. CASE ReadSession(p)
  <2>1. CASE toMain' = toMain /\ server' = server
    BY <1>0, <2>1, SameFit
  <2>2. CASE Ends(p, Tail(fromMain[p]), <<>>)
    BY <1>0, <2>2, EndsFit
  <2> QED  BY <1>5, <2>1, <2>2 DEF ReadSession
<1> QED  BY <1>1, <1>2, <1>3, <1>4, <1>5 DEF Receive

LEMMA AloneFit ==
    ASSUME Inv, AllPolite, AllFit, server \notin Faults, NEW p \in Players,
           \/ Accept(p) \/ AcceptFails(p) \/ Crash(p)
           \/ EndMatch(p) \/ RivalEnds(p) \/ Kill(p)
    PROVE  AllFit' /\ server' \notin Faults
<1>1. isOnline' = isOnline
  BY DEF Accept, AcceptFails, Crash, EndMatch, RivalEnds, Kill, Alone, table
<1>2. CASE Accept(p)
  <2>1. client[p].status = "on_match"
    BY <1>2, PolledOnMatch DEF Accept
  <2>2. client[p].rival \in Players
    BY <2>1 DEF AllPolite, Polite, Agreed
  <2>3. client[p].rival \in Everyone /\ client[p].rival # NoOne
    BY <2>2, NamesFacts DEF Everyone
  <2>4. PICK m \in Msgs : /\ m = Plain("START", client[p].rival)
                          /\ m.type = "START" /\ m.who = client[p].rival
    BY <2>3, WrittenPlain DEF Requests
  <2>5. Send(p, <<m>>) /\ server' = server
    BY <1>2, <2>4 DEF Accept
  <2> QED  BY <1>1, <2>1, <2>3, <2>4, <2>5, MayTell, PutFit
<1>3. CASE AcceptFails(p)
  BY <1>1, <1>3, SameFit DEF AcceptFails
<1>4. CASE /\ client[p].status = "on_match"
           /\ Send(p, <<Plain("FINISH", NoOne)>>)
           /\ server' = server
  <2>1. PICK m \in Msgs : m = Plain("FINISH", NoOne) /\ m.type = "FINISH"
    BY WrittenPlain DEF Requests, Everyone
  <2> QED  BY <1>1, <1>4, <2>1, MayTell, PutFit
<1>5. CASE Dies(p, fromMain[p])
  BY <1>1, <1>5, DiesFit
<1>6. CASE EndMatch(p)
  BY <1>4, <1>6 DEF EndMatch
<1>7. CASE RivalEnds(p)
  <2>1. client[p].status = "on_match"
    BY <1>7, PolledOnMatch DEF RivalEnds
  <2> QED  BY <1>4, <1>5, <1>7, <2>1 DEF RivalEnds
<1>8. CASE Crash(p) \/ Kill(p)
  BY <1>5, <1>8 DEF Crash, Kill, DiesAnyTime
<1> QED  BY <1>2, <1>3, <1>6, <1>7, <1>8

LEMMA InitServing == Init => Serving
<1> SUFFICES ASSUME Init PROVE AllFit /\ server \notin Faults
  BY DEF Serving
<1>1. \A p \in Players : toMain[p] = <<>>
  BY DEF Init
<1>2. \A p \in Players : Fit(toMain[p], p, isOnline)
  BY <1>1 DEF Fit
<1> QED  BY <1>2 DEF Init, AllFit, Faults

LEMMA NextServing == Inv /\ Handshake /\ Serving /\ [Next]_vars => Serving'
<1> SUFFICES ASSUME Inv, Handshake, Serving, [Next]_vars, orderly'
             PROVE  AllFit' /\ server' \notin Faults
  BY DEF Serving, Faults
<1>1. AllPolite /\ AllFit /\ server \notin Faults
  BY OrderlyBefore DEF Handshake, AllPolite, Serving
<1>2. CASE UNCHANGED vars
  BY <1>1, <1>2, SameFit DEF vars, table
<1>3. ASSUME NEW p \in Players,
             \/ \E q \in Names : Begin(p, q)
             \/ \E accept \in BOOLEAN : Invite(p, accept)
             \/ Cancel(p) \/ Leave(p)
      PROVE  AllFit' /\ server' \notin Faults
  BY <1>1, <1>3, TypedFit
<1>4. ASSUME NEW p \in Players,
             \/ Main(p) \/ Receive(p) \/ Accept(p) \/ AcceptFails(p) \/ Crash(p)
             \/ EndMatch(p) \/ RivalEnds(p) \/ Kill(p)
      PROVE  AllFit' /\ server' \notin Faults
  BY <1>1, <1>4, MainFit, ReceiveFit, AloneFit
<1> QED  BY <1>2, <1>3, <1>4, Zenon DEF Next

\* The main thread meets no request it cannot serve, as long as users are orderly
\* (mainThread.cpp looks up players, rivals and the USERNAME line without a
\* check), for any number of players inviting each other, matches, logouts and
\* deaths on a match.
THEOREM OrderlyUsersServed == Spec => []OrderlyServed
<1>1. Init => Inv /\ Handshake /\ Serving
  BY InitInv, InitHandshake, InitServing
<1>2. Inv /\ Handshake /\ Serving /\ [Next]_vars => (Inv /\ Handshake /\ Serving)'
  BY NextInv, NextHandshake, NextServing
<1>3. Serving => OrderlyServed
  BY DEF Serving, OrderlyServed, Faults
<1> QED  BY <1>1, <1>2, <1>3, PTL DEF Spec
=============================================================================

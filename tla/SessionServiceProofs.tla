------------------------ MODULE SessionServiceProofs ------------------------
(***************************************************************************)
(* Session implements SessionService, for every set of clients, users and  *)
(* accounts, if each thread id is used once.                               *)
(***************************************************************************)
EXTENDS SessionRefinement, SessionProofs, SequenceTheorems, WellFoundedInduction

-----------------------------------------------------------------------------
(***************************************************************************)
(* Answers up to the first EXITACK.                                        *)
(***************************************************************************)

\* Every set of numbers that is not empty has a least element.
LEMMA LeastNumber ==
    ASSUME NEW D, D \subseteq Nat, D # {}
    PROVE  \E x \in D : \A y \in D : x <= y
<1> DEFINE R == OpToRel(<, Nat)
<1>1. IsWellFoundedOn(R, Nat)
  BY NatLessThanWellFounded
<1>2. \A x, y \in Nat : ~(<<y, x>> \in R) => x <= y
  BY DEF OpToRel
<1> HIDE DEF R
<1>3. \E x \in D : \A y \in D : ~(<<y, x>> \in R)
  BY <1>1, WFMin
<1> QED  BY <1>2, <1>3

NoExit(s) == \A i \in 1..Len(s) : s[i].type # "EXITACK"

\* The first EXITACK of s is at k.
FirstExit(s, k) ==
    /\ k \in 1..Len(s) /\ s[k].type = "EXITACK"
    /\ \A i \in 1..(k - 1) : s[i].type # "EXITACK"

LEMMA SomeFirstExit ==
    ASSUME NEW s \in Seq(Answers), ~NoExit(s)
    PROVE  \E k : FirstExit(s, k)
<1> DEFINE D == {i \in 1..Len(s) : s[i].type = "EXITACK"}
<1>1. D \subseteq Nat /\ D # {} /\ Len(s) \in Nat
  BY DEF NoExit
<1>2. PICK k \in D : \A y \in D : k <= y
  <2> HIDE DEF D
  <2> QED  BY <1>1, LeastNumber
<1>3. \A i \in 1..(k - 1) : i \in 1..Len(s) /\ i < k
  BY <1>1, <1>2
<1>4. \A i \in 1..(k - 1) : s[i].type # "EXITACK"
  BY <1>2, <1>3
<1>5. k \in 1..Len(s) /\ s[k].type = "EXITACK"
  BY <1>2
<1> QED  BY <1>4, <1>5 DEF FirstExit

LEMMA UpToExitAll ==
    ASSUME NEW s \in Seq(Answers), NoExit(s)
    PROVE  UpToExit(s) = s
<1>1. {i \in 1..Len(s) : s[i].type = "EXITACK"} = {}
  BY DEF NoExit
<1>2. SelectInSeq(s, LAMBDA m : m.type = "EXITACK") = 0
  BY <1>1 DEF SelectInSeq
<1> QED  BY <1>2 DEF UpToExit

LEMMA UpToExitFirst ==
    ASSUME NEW s \in Seq(Answers), NEW k, FirstExit(s, k)
    PROVE  UpToExit(s) = SubSeq(s, 1, k)
<1> DEFINE D == {i \in 1..Len(s) : s[i].type = "EXITACK"}
<1>1. k \in D /\ Len(s) \in Nat /\ k \in Nat \ {0}
  BY DEF FirstExit
<1>2. \A i \in D : k <= i
  <2>1. \A i \in 1..Len(s) : ~(k <= i) => i \in 1..(k - 1)
    BY <1>1
  <2> QED  BY <2>1 DEF FirstExit
<1>3. SelectInSeq(s, LAMBDA m : m.type = "EXITACK") = IF D # {} THEN Min(D) ELSE 0
  BY DEF SelectInSeq
<1>4. \A i \in D : i \in Nat
  OBVIOUS
<1> HIDE DEF D
<1>5. Min(D) = k
  <2>1. Min(D) \in D /\ \A i \in D : Min(D) <= i
    BY <1>1, <1>2 DEF Min
  <2>2. k <= Min(D) /\ Min(D) <= k /\ Min(D) \in Nat /\ k \in Nat
    BY <1>1, <1>2, <1>4, <2>1
  <2> QED  BY <2>2
<1>6. SelectInSeq(s, LAMBDA m : m.type = "EXITACK") = k
  BY <1>1, <1>3, <1>5
<1> QED  BY <1>1, <1>6 DEF UpToExit

\* An answer more is seen if there is no EXITACK before it.
LEMMA UpToExitAppend ==
    ASSUME NEW s \in Seq(Answers), NEW m \in Answers
    PROVE  UpToExit(Append(s, m)) = IF NoExit(s) THEN Append(s, m) ELSE UpToExit(s)
<1> DEFINE t == Append(s, m)
           n == Len(s)
<1>1. /\ n \in Nat /\ t \in Seq(Answers) /\ Len(t) = n + 1
      /\ \A i \in 1..n : t[i] = s[i]
      /\ t[n + 1] = m
  BY AppendProperties
<1>2. ASSUME NoExit(s) PROVE UpToExit(t) = t
  <2>1. CASE m.type # "EXITACK"
    <3>1. NoExit(t)
      <4> HIDE DEF n, t
      <4>1. \A i \in 1..(n + 1) : i \in 1..n \/ i = n + 1
        BY <1>1
      <4>2. \A i \in 1..n : t[i].type # "EXITACK"
        BY <1>1, <1>2 DEF NoExit, n
      <4> QED  BY <1>1, <2>1, <4>1, <4>2 DEF NoExit
    <3> QED  BY <1>1, <3>1, UpToExitAll
  <2>2. CASE m.type = "EXITACK"
    <3>1. FirstExit(t, Len(t))
      <4>1. \A i \in 1..n : t[i].type # "EXITACK"
        BY <1>1, <1>2 DEF NoExit
      <4>2. Len(t) \in 1..Len(t) /\ Len(t) - 1 = n /\ t[Len(t)] = m
        BY <1>1
      <4> HIDE DEF t, n
      <4> QED  BY <2>2, <4>1, <4>2 DEF FirstExit
    <3>2. UpToExit(t) = SubSeq(t, 1, Len(t))
      BY <1>1, <3>1, UpToExitFirst
    <3> QED  BY <1>1, <3>2, SubSeqFull
  <2> QED  BY <2>1, <2>2
<1>3. ASSUME ~NoExit(s) PROVE UpToExit(t) = UpToExit(s)
  <2>1. PICK k : FirstExit(s, k)
    BY <1>3, SomeFirstExit
  <2>2. k \in 1..n /\ k \in 1..Len(t) /\ \A i \in 1..(k - 1) : i \in 1..n
    BY <1>1, <2>1 DEF FirstExit
  <2>3. FirstExit(t, k)
    <3> HIDE DEF t, n
    <3> QED  BY <1>1, <2>1, <2>2 DEF FirstExit
  <2>4. UpToExit(t) = SubSeq(t, 1, k) /\ UpToExit(s) = SubSeq(s, 1, k)
    BY <1>1, <2>1, <2>3, UpToExitFirst
  <2>5. t = s \o <<m>> /\ <<m>> \in Seq(Answers) /\ 1 \in 1..Len(s) /\ k \in 1..Len(s)
    BY <1>1, <2>2, AppendIsConcat
  <2>6. SubSeq(s \o <<m>>, 1, k) = SubSeq(s, 1, k)
    BY <2>5, SubSeqOfConcat1
  <2> QED  BY <2>4, <2>5, <2>6
<1> QED  BY <1>2, <1>3

\* What follows an EXITACK is not seen.
LEMMA UpToExitConcat ==
    ASSUME NEW s \in Seq(Answers), NEW t \in Seq(Answers), ~NoExit(s)
    PROVE  UpToExit(s \o t) = UpToExit(s)
<1>1. /\ s \o t \in Seq(Answers) /\ Len(s) \in Nat /\ Len(t) \in Nat
      /\ Len(s \o t) = Len(s) + Len(t)
      /\ \A i \in 1..Len(s) : (s \o t)[i] = s[i]
  OBVIOUS
<1>2. PICK k : FirstExit(s, k)
  BY SomeFirstExit
<1>3. /\ k \in 1..Len(s) /\ 1 \in 1..Len(s) /\ k \in 1..Len(s \o t)
      /\ \A i \in 1..(k - 1) : i \in 1..Len(s)
  BY <1>1, <1>2 DEF FirstExit
<1>4. FirstExit(s \o t, k)
  <2>1. (s \o t)[k] = s[k] /\ \A i \in 1..(k - 1) : (s \o t)[i] = s[i]
    BY <1>1, <1>3
  <2> QED  BY <1>2, <1>3, <2>1 DEF FirstExit
<1>5. UpToExit(s \o t) = SubSeq(s \o t, 1, k) /\ UpToExit(s) = SubSeq(s, 1, k)
  BY <1>1, <1>2, <1>4, UpToExitFirst
<1> QED  BY <1>3, <1>5, SubSeqOfConcat1

\* Reading an answer that is not EXITACK.
LEMMA UpToExitTail ==
    ASSUME NEW s \in Seq(Answers), s # <<>>, Head(s).type # "EXITACK"
    PROVE  /\ UpToExit(s) \in Seq(Answers) /\ UpToExit(s) # <<>>
           /\ UpToExit(Tail(s)) = Tail(UpToExit(s))
<1>1. /\ Len(s) \in Nat \ {0} /\ Tail(s) \in Seq(Answers) /\ Len(Tail(s)) = Len(s) - 1
      /\ Head(s) = s[1] /\ \A i \in 1..(Len(s) - 1) : Tail(s)[i] = s[i + 1]
  BY TailType
<1>2. CASE NoExit(s)
  <2>1. NoExit(Tail(s))
    <3>1. \A i \in 1..(Len(s) - 1) : i + 1 \in 1..Len(s)
      BY <1>1
    <3> QED  BY <1>1, <1>2, <3>1 DEF NoExit
  <2> QED  BY <1>1, <1>2, <2>1, UpToExitAll
<1>3. CASE ~NoExit(s)
  <2>1. PICK k : FirstExit(s, k)
    BY <1>3, SomeFirstExit
  <2>2. k \in 1..Len(s) /\ s[k].type = "EXITACK" /\ k # 1
    BY <1>1, <2>1 DEF FirstExit
  <2>3. /\ k - 1 \in 1..(Len(s) - 1) /\ (k - 1) + 1 = k /\ k \in 2..Len(s) /\ 2 \in 1..Len(s)
        /\ 1 \in 1..Len(s) /\ \A i \in 1..((k - 1) - 1) : i \in 1..(Len(s) - 1) /\ i + 1 \in 1..(k - 1)
    BY <1>1, <2>2
  <2>4. FirstExit(Tail(s), k - 1)
    <3>1. Tail(s)[k - 1] = s[k]
      BY <1>1, <2>3
    <3>2. \A i \in 1..((k - 1) - 1) : Tail(s)[i] = s[i + 1] /\ s[i + 1].type # "EXITACK"
      BY <1>1, <2>1, <2>3 DEF FirstExit
    <3>3. k - 1 \in 1..Len(Tail(s))
      BY <1>1, <2>3
    <3> QED  BY <2>2, <3>1, <3>2, <3>3 DEF FirstExit
  <2>5. UpToExit(s) = SubSeq(s, 1, k) /\ UpToExit(Tail(s)) = SubSeq(Tail(s), 1, k - 1)
    BY <1>1, <2>1, <2>4, UpToExitFirst
  <2>6. k \in 1..Len(s) /\ SubSeq(s, 1, k) \in Seq(Answers) /\ Len(SubSeq(s, 1, k)) = k
    BY <2>2, SplitType
  <2>7. SubSeq(s, 1, k) # <<>>
    BY <2>2, <2>6
  <2>8. Tail(SubSeq(s, 1, k)) = SubSeq(s, 2, k)
    <3>1. k \in 1..Len(s) /\ 1 + 1 = 2
      BY <2>2
    <3>2. Tail(SubSeq(s, 1, k)) = SubSeq(s, 1 + 1, k)
      BY <2>3, <3>1, HeadTailOfSubSeq
    <3> QED  BY <3>1, <3>2
  <2>9. SubSeq(Tail(s), 1, k - 1) = SubSeq(s, 2, k)
    <3>1. Tail(s) = SubSeq(s, 2, Len(s))
      BY TailIsSubSeq
    <3>2. /\ 2 \in 1..Len(s) /\ Len(s) \in 1..Len(s) /\ 1 \in 1..(Len(s) - 2 + 1)
          /\ k - 1 \in 1..(Len(s) - 2 + 1) /\ 2 + 1 - 1 = 2 /\ 2 + (k - 1) - 1 = k
      BY <1>1, <2>2, <2>3
    <3>3. SubSeq(SubSeq(s, 2, Len(s)), 1, k - 1) = SubSeq(s, 2 + 1 - 1, 2 + (k - 1) - 1)
      BY <3>2, SubSeqOfSubSeq
    <3> QED  BY <3>1, <3>2, <3>3
  <2> QED  BY <2>5, <2>6, <2>7, <2>8, <2>9
<1> QED  BY <1>2, <1>3

\* The first EXITACK is seen.
LEMMA UpToExitType ==
    ASSUME NEW s \in Seq(Answers)
    PROVE  UpToExit(s) \in Seq(Answers) /\ (NoExit(UpToExit(s)) <=> NoExit(s))
<1>1. CASE NoExit(s)
  BY <1>1, UpToExitAll
<1>2. CASE ~NoExit(s)
  <2>1. PICK k : FirstExit(s, k)
    BY <1>2, SomeFirstExit
  <2>2. UpToExit(s) = SubSeq(s, 1, k)
    BY <2>1, UpToExitFirst
  <2>3. k \in 1..Len(s) /\ s[k].type = "EXITACK" /\ k \in 1..k
    BY <2>1 DEF FirstExit
  <2>4. /\ SubSeq(s, 1, k) \in Seq(Answers) /\ Len(SubSeq(s, 1, k)) = k
        /\ SubSeq(s, 1, k)[k] = s[k]
    BY <2>3, SplitType
  <2> QED  BY <1>2, <2>2, <2>3, <2>4 DEF NoExit
<1> QED  BY <1>1, <1>2

-----------------------------------------------------------------------------
(***************************************************************************)
(* Answers without their place.                                            *)
(***************************************************************************)

PlainAnswers == [type : {"LOGINACK", "LOGOUTACK", "LIST", "EXITACK"},
                 user : Names, ok : BOOLEAN]

PlainOf(m) == [type |-> m.type, user |-> m.user, ok |-> m.ok]

LEMMA PlainType ==
    ASSUME NEW s \in Seq(Answers)
    PROVE  /\ Plain(s) \in Seq(PlainAnswers) /\ Len(Plain(s)) = Len(s)
           /\ \A i \in 1..Len(s) : Plain(s)[i] = PlainOf(s[i])
<1>1. Len(s) \in Nat /\ DOMAIN s = 1..Len(s) /\ \A i \in 1..Len(s) : s[i] \in Answers
  OBVIOUS
<1>2. \A m \in Answers : PlainOf(m) \in PlainAnswers
  BY DEF Answers, PlainAnswers, PlainOf
<1>3. Plain(s) = [i \in 1..Len(s) |-> PlainOf(s[i])]
  BY <1>1 DEF Plain, PlainOf
<1>4. Plain(s) \in [1..Len(s) -> PlainAnswers]
  BY <1>1, <1>2, <1>3
<1>5. Plain(s) \in Seq(PlainAnswers)
  BY <1>1, <1>4, SeqDef
<1>6. DOMAIN Plain(s) = 1..Len(s)
  BY <1>3
<1>7. Len(Plain(s)) = Len(s)
  BY <1>1, <1>5, <1>6
<1> QED  BY <1>3, <1>5, <1>7

LEMMA PlainAppend ==
    ASSUME NEW s \in Seq(Answers), NEW m \in Answers
    PROVE  Plain(Append(s, m)) = Append(Plain(s), PlainOf(m))
<1> DEFINE p == Plain(s)
           q == Plain(Append(s, m))
           r == Append(p, PlainOf(m))
<1>1. /\ Append(s, m) \in Seq(Answers) /\ Len(Append(s, m)) = Len(s) + 1 /\ Len(s) \in Nat
      /\ \A i \in 1..Len(s) : Append(s, m)[i] = s[i]
      /\ Append(s, m)[Len(s) + 1] = m
  BY AppendType
<1>2. /\ p \in Seq(PlainAnswers) /\ Len(p) = Len(s) /\ \A i \in 1..Len(s) : p[i] = PlainOf(s[i])
  BY PlainType
<1>3. /\ q \in Seq(PlainAnswers) /\ Len(q) = Len(s) + 1
      /\ \A i \in 1..(Len(s) + 1) : q[i] = PlainOf(Append(s, m)[i])
  BY <1>1, PlainType
<1>4. PlainOf(m) \in PlainAnswers
  BY DEF Answers, PlainAnswers, PlainOf
<1> HIDE DEF p, q
<1>5. /\ r \in Seq(PlainAnswers) /\ Len(r) = Len(s) + 1
      /\ \A i \in 1..Len(s) : r[i] = p[i]
      /\ r[Len(s) + 1] = PlainOf(m)
  BY <1>2, <1>4, AppendType
<1> HIDE DEF r
<1>6. \A i \in 1..Len(q) : q[i] = r[i]
  <2>1. \A i \in 1..(Len(s) + 1) : i \in 1..Len(s) \/ i = Len(s) + 1
    BY <1>1
  <2>2. \A i \in 1..Len(s) : i \in 1..(Len(s) + 1)
    BY <1>1
  <2>3. \A i \in 1..Len(s) : q[i] = r[i]
    BY <1>1, <1>2, <1>3, <1>5, <2>2
  <2>4. q[Len(s) + 1] = r[Len(s) + 1]
    BY <1>1, <1>3, <1>5
  <2> QED  BY <1>3, <2>1, <2>3, <2>4
<1>7. q = r
  BY <1>3, <1>5, <1>6, SeqEqual
<1> QED  BY <1>7 DEF p, q, r

LEMMA PlainTail ==
    ASSUME NEW s \in Seq(Answers), s # <<>>
    PROVE  Plain(s) # <<>> /\ Plain(Tail(s)) = Tail(Plain(s))
<1> DEFINE p == Plain(s)
           q == Plain(Tail(s))
<1>1. /\ Len(s) \in Nat \ {0} /\ Tail(s) \in Seq(Answers) /\ Len(Tail(s)) = Len(s) - 1
      /\ \A i \in 1..(Len(s) - 1) : Tail(s)[i] = s[i + 1]
  BY TailType
<1>2. /\ p \in Seq(PlainAnswers) /\ Len(p) = Len(s) /\ \A i \in 1..Len(s) : p[i] = PlainOf(s[i])
  BY PlainType
<1>3. /\ q \in Seq(PlainAnswers) /\ Len(q) = Len(s) - 1
      /\ \A i \in 1..(Len(s) - 1) : q[i] = PlainOf(Tail(s)[i])
  BY <1>1, PlainType
<1> HIDE DEF p, q
<1>4. p # <<>>
  BY <1>1, <1>2
<1>5. /\ Tail(p) \in Seq(PlainAnswers) /\ Len(Tail(p)) = Len(s) - 1
      /\ \A i \in 1..(Len(s) - 1) : Tail(p)[i] = p[i + 1]
  BY <1>2, <1>4, TailType
<1>6. \A i \in 1..Len(q) : q[i] = Tail(p)[i]
  <2>1. \A i \in 1..(Len(s) - 1) : i + 1 \in 1..Len(s)
    BY <1>1
  <2> QED  BY <1>1, <1>2, <1>3, <1>5, <2>1
<1>7. q = Tail(p)
  BY <1>3, <1>5, <1>6, SeqEqual
<1> QED  BY <1>4, <1>7 DEF p, q

-----------------------------------------------------------------------------
(***************************************************************************)
(* A thread that has left its loop while its shell runs has passed EXITACK *)
(* on.                                                                     *)
(***************************************************************************)

Parting(c) ==
    InShell(c) /\ threadState[c] \in {"leaving", "farewell", "closing", "ended"}
        => ~NoExit(toClient[c])

ServiceInv == TypeOK /\ OrderInv /\ \A c \in Clients : Parting(c)

\* An EXITACK stays where it is when an answer comes behind it.
LEMMA ExitStays ==
    ASSUME NEW s \in Seq(Answers), NEW m \in Answers
    PROVE  ~NoExit(Append(s, m)) <=> (~NoExit(s) \/ m.type = "EXITACK")
<1>1. /\ Len(s) \in Nat /\ Len(Append(s, m)) = Len(s) + 1
      /\ \A i \in 1..Len(s) : Append(s, m)[i] = s[i]
      /\ Append(s, m)[Len(s) + 1] = m
  BY AppendType
<1>2. \A i \in 1..(Len(s) + 1) : i \in 1..Len(s) \/ i = Len(s) + 1
  BY <1>1
<1>3. Len(s) + 1 \in 1..(Len(s) + 1) /\ \A i \in 1..Len(s) : i \in 1..(Len(s) + 1)
  BY <1>1
<1> QED  BY <1>1, <1>2, <1>3 DEF NoExit

LEMMA ExitBehind ==
    ASSUME NEW s \in Seq(Answers), s # <<>>, Head(s).type # "EXITACK", ~NoExit(s)
    PROVE  ~NoExit(Tail(s))
<1>1. /\ Len(s) \in Nat \ {0} /\ Len(Tail(s)) = Len(s) - 1
      /\ Head(s) = s[1] /\ \A i \in 1..(Len(s) - 1) : Tail(s)[i] = s[i + 1]
  BY TailType
<1>2. PICK i \in 1..Len(s) : s[i].type = "EXITACK"
  BY DEF NoExit
<1>3. i - 1 \in 1..(Len(s) - 1) /\ (i - 1) + 1 = i
  BY <1>1, <1>2
<1>4. Tail(s)[i - 1] = s[i]
  BY <1>1, <1>3
<1> QED  BY <1>1, <1>2, <1>3, <1>4 DEF NoExit

LEMMA PartingStep ==
    ASSUME ServiceInv, [Next]_vars, NEW d \in Clients
    PROVE  Parting(d)'
<1>0. /\ TypeOK /\ Parting(d)
      /\ InShell(d) => sock[d] = "open"
  BY DEF ServiceInv, OrderInv, ClientInv, NothingLost
<1>1. ASSUME NEW c \in Clients, Connect(c) PROVE Parting(d)'
  <2>1. CASE d = c
    BY <1>0, <1>1, <2>1 DEF Connect, Parting, TypeOK
  <2>2. CASE d # c
    BY <1>0, <1>1, <2>2 DEF Connect, Parting, TypeOK, InShell
  <2> QED  BY <2>1, <2>2
<1>2. ASSUME NEW c \in Clients, NEW cmd \in Commands, Type(c, cmd) PROVE Parting(d)'
  BY <1>0, <1>2 DEF Type, Parting, InShell, clientVars, threadVars
<1>3. ASSUME NEW c \in Clients, Receive(c) PROVE Parting(d)'
  <2>1. CASE d = c
    <3>1. /\ toClient[c] \in Seq(Answers) /\ toClient[c] # <<>>
          /\ toClient'[c] = Tail(toClient[c]) /\ threadState' = threadState
      BY <1>0, <1>3 DEF Receive, TypeOK, threadVars
    <3>2. CASE Head(toClient[c]).type = "EXITACK"
      <4>1. status'[c] = "gone"
        BY <1>0, <1>3, <3>2 DEF Receive, TypeOK
      <4> QED  BY <2>1, <4>1 DEF Parting, InShell
    <3>3. CASE Head(toClient[c]).type # "EXITACK"
      <4>1. InShell(c)
        BY <1>3 DEF Receive, InShell
      <4> QED  BY <1>0, <2>1, <3>1, <3>3, <4>1, ExitBehind DEF Parting
    <3> QED  BY <3>2, <3>3
  <2>2. CASE d # c
    BY <1>0, <1>3, <2>2 DEF Receive, Parting, TypeOK, InShell, clientVars, threadVars
  <2> QED  BY <2>1, <2>2
<1>4. ASSUME NEW c \in Clients, Kill(c) \/ ServerLost(c) PROVE Parting(d)'
  <2>1. CASE d = c
    BY <1>0, <1>4, <2>1 DEF Kill, ServerLost, Parting, TypeOK, InShell
  <2>2. CASE d # c
    BY <1>0, <1>4, <2>2
       DEF Kill, ServerLost, Parting, TypeOK, InShell, socketVars, threadVars
  <2> QED  BY <2>1, <2>2
<1>5. ASSUME NEW c \in Clients, ThreadReadPipe(c) PROVE Parting(d)'
  <2>1. CASE d = c
    <3> SUFFICES ASSUME InShell(c) PROVE Parting(c)'
      BY <1>5, <2>1 DEF ThreadReadPipe, clientVars, Parting, InShell
    <3> DEFINE m == Head(threadPipe[c])
    <3>1. /\ threadPipe[c] \in Seq(Answers) /\ threadPipe[c] # <<>> /\ m \in Answers
          /\ toClient[c] \in Seq(Answers) /\ sock[c] = "open"
          /\ threadState[c] \in {"poll", "leaving"}
          /\ threadState'[c] = IF m.type = "EXITACK" THEN "leaving" ELSE threadState[c]
      BY <1>0, <1>5, <2>1, TailType DEF ThreadReadPipe, TypeOK
    <3>2. toClient'[c] = Append(toClient[c], m)
      BY <1>0, <1>5, <3>1 DEF ThreadReadPipe, WriteToSocket, TypeOK
    <3> HIDE DEF m
    <3> QED  BY <1>0, <2>1, <3>1, <3>2, ExitStays DEF Parting
  <2>2. CASE d # c
    BY <1>0, <1>5, <2>2 DEF ThreadReadPipe, WriteToSocket, Parting, TypeOK, InShell, clientVars
  <2> QED  BY <2>1, <2>2
<1>6. ASSUME NEW c \in Clients, ThreadReadEnd(c) PROVE Parting(d)'
  BY <1>0, <1>6 DEF ThreadReadEnd, Parting, TypeOK, InShell, clientVars, socketVars
<1>7. ASSUME NEW c \in Clients,
             ThreadStart(c) \/ ThreadReadSocket(c) \/ ThreadForward(c)
      PROVE  Parting(d)'
  <2>1. /\ toClient' = toClient /\ status' = status
        /\ threadState'[d] = threadState[d] \/ threadState'[d] \in {"poll", "forward"}
    BY <1>0, <1>7
       DEF ThreadStart, ThreadReadSocket, ThreadForward, TypeOK, clientVars, socketVars
  <2> QED  BY <1>0, <2>1 DEF Parting, InShell
<1>8. ASSUME NEW c \in Clients, ThreadFarewell(c) \/ ThreadClose(c) PROVE Parting(d)'
  <2>1. /\ toClient' = toClient /\ status' = status
        /\ \/ threadState'[d] = threadState[d]
           \/ threadState[d] \in {"leaving", "farewell", "closing"}
    BY <1>0, <1>8 DEF ThreadFarewell, ThreadClose, TypeOK, clientVars, socketVars
  <2> QED  BY <1>0, <2>1 DEF Parting, InShell
<1>9. CASE Main
  BY <1>0, <1>9
     DEF Main, MainSkip, MainLogin, MainLogout, MainFarewell, MainList, MainExit,
         Parting, InShell, clientVars, socketVars, threadVars
<1>10. CASE UNCHANGED vars
  BY <1>0, <1>10 DEF vars, clientVars, socketVars, threadVars, Parting, InShell
<1> QED
  BY <1>1, <1>2, <1>3, <1>4, <1>5, <1>6, <1>7, <1>8, <1>9, <1>10 DEF Next, Thread

-----------------------------------------------------------------------------
(***************************************************************************)
(* The steps of SessionService.                                            *)
(***************************************************************************)

Present == {c \in Clients : InShell(c)}
ServiceVars == <<asked, served, Unread, Present, isOnline>>
OnTheWay(c) == toClient[c] \o threadPipe[c]
Seen(c) == Plain(UpToExit(OnTheWay(c)))

LEMMA UnreadOf ==
    ASSUME NEW c \in Clients
    PROVE  /\ Unread[c] = IF InShell(c) THEN Seen(c) ELSE <<>>
           /\ Unread'[c] = IF InShell(c)' THEN Seen(c)' ELSE <<>>
BY DEF Unread, Seen, OnTheWay

LEMMA OnTheWayType ==
    ASSUME TypeOK, NEW c \in Clients
    PROVE  OnTheWay(c) \in Seq(Answers) /\ toClient[c] \in Seq(Answers)
           /\ threadPipe[c] \in Seq(Answers)
BY DEF TypeOK, OnTheWay

\* Nothing changes for the shells.
LEMMA SameUnread ==
    ASSUME \A d \in Clients : /\ InShell(d)' = InShell(d)
                              /\ InShell(d) => UpToExit(OnTheWay(d))' = UpToExit(OnTheWay(d))
    PROVE  Unread' = Unread /\ Present' = Present
<1>1. Present' = Present
  BY DEF Present
<1>2. \A d \in Clients : Unread'[d] = Unread[d]
  <2> TAKE d \in Clients
  <2>1. CASE InShell(d)
    <3>1. Seen(d)' = Seen(d)
      <4>1. UpToExit(OnTheWay(d))' = UpToExit(OnTheWay(d))
        BY <2>1
      <4>2. Plain(UpToExit(OnTheWay(d)))' = Plain(UpToExit(OnTheWay(d))')
        OBVIOUS
      <4> QED  BY <4>1 DEF Seen, Plain
    <3> QED  BY <2>1, <3>1, UnreadOf
  <2>2. CASE ~InShell(d)
    BY <2>2, UnreadOf
  <2> QED  BY <2>1, <2>2
<1>3. Unread' = Unread
  BY <1>2 DEF Unread
<1> QED  BY <1>1, <1>3

\* Only the shell of c changes.
LEMMA OneUnread ==
    ASSUME NEW c \in Clients, NEW x, Unread'[c] = x,
           \A d \in Clients \ {c} : /\ InShell(d)' = InShell(d)
                                    /\ UNCHANGED <<toClient[d], threadPipe[d]>>
    PROVE  Unread' = [Unread EXCEPT ![c] = x]
<1>1. \A d \in Clients \ {c} : Unread'[d] = Unread[d]
  BY UnreadOf DEF Seen, OnTheWay
<1> QED  BY <1>1 DEF Unread

LEMMA NothingSeen == Plain(UpToExit(<<>>)) = <<>>
<1>1. <<>> \in Seq(Answers) /\ Len(<<>>) = 0
  OBVIOUS
<1>2. NoExit(<<>>)
  BY <1>1 DEF NoExit
<1>3. UpToExit(<<>>) = <<>>
  BY <1>1, <1>2, UpToExitAll
<1>4. Plain(<<>>) \in Seq(PlainAnswers) /\ Len(Plain(<<>>)) = 0
  BY <1>1, PlainType
<1> QED  BY <1>3, <1>4, EmptyType

LEMMA ConnectIsOpen ==
    ASSUME ServiceInv, MaxRuns = 1, NEW c \in Clients, Connect(c)
    PROVE  Service!Open(c)
<1>0. TypeOK /\ ClientInv(c)
  BY DEF ServiceInv, OrderInv
<1>1. /\ status[c] = "off" /\ asked[c] = <<>> /\ served[c] = 0 /\ threadPipe[c] = <<>>
  BY <1>0, Counters DEF Connect, ClientInv, ThreadLife
<1>2. /\ status' = [status EXCEPT ![c] = "not_logged"] /\ asked' = asked /\ served' = served
      /\ toClient' = [toClient EXCEPT ![c] = <<>>] /\ threadPipe' = threadPipe
      /\ isOnline' = isOnline
  BY <1>0, <1>1 DEF Connect, TypeOK, playerVars
<1>3. ~InShell(c) /\ InShell(c)'
  BY <1>0, <1>1, <1>2 DEF InShell, TypeOK
<1>4. \A d \in Clients \ {c} : /\ InShell(d)' = InShell(d)
                               /\ UNCHANGED <<toClient[d], threadPipe[d]>>
  BY <1>0, <1>2 DEF InShell, TypeOK
<1>5. Present' = Present \cup {c}
  BY <1>3, <1>4 DEF Present
<1>6. OnTheWay(c)' = <<>>
  <2>1. toClient'[c] = <<>> /\ threadPipe'[c] = <<>>
    BY <1>0, <1>1, <1>2 DEF TypeOK
  <2> QED  BY <2>1 DEF OnTheWay
<1>7. Unread'[c] = <<>>
  <2>1. Seen(c)' = Plain(UpToExit(<<>>))
    BY <1>6 DEF Seen
  <2> QED  BY <1>3, <2>1, UnreadOf, NothingSeen
<1>8. Unread' = [Unread EXCEPT ![c] = <<>>]
  BY <1>4, <1>7, OneUnread
<1>9. Unread[c] = <<>>
  BY <1>3, UnreadOf
<1>10. Unread' = Unread
  BY <1>8, <1>9 DEF Unread
<1>11. c \notin Present
  BY <1>3 DEF Present
<1> QED  BY <1>1, <1>2, <1>5, <1>10, <1>11 DEF Service!Open, Present

LEMMA TypeIsAsk ==
    ASSUME ServiceInv, NEW c \in Clients, NEW cmd \in Commands, Type(c, cmd)
    PROVE  Service!Ask(c)
<1>1. /\ asked' = [asked EXCEPT ![c] = Append(@, cmd)]
      /\ UNCHANGED <<status, toClient, threadPipe, served, isOnline>>
  BY DEF Type, clientVars, threadVars, playerVars
<1>2. Unread' = Unread /\ Present' = Present
  <2>1. ASSUME NEW d \in Clients
        PROVE  InShell(d)' = InShell(d) /\ UpToExit(OnTheWay(d))' = UpToExit(OnTheWay(d))
    <3>1. InShell(d)' = InShell(d) /\ OnTheWay(d)' = OnTheWay(d)
      BY <1>1 DEF InShell, OnTheWay
    <3> QED  BY <3>1
  <2> QED  BY <2>1, SameUnread
<1>3. c \in Present
  <2>1. cmd.type \in {"LOGIN", "LOGOUT", "LIST", "EXIT"} /\ Allowed(cmd, status[c])
    BY CommandParts DEF Type
  <2>2. InShell(c)
    BY <2>1 DEF Allowed, InShell
  <2> QED  BY <2>2 DEF Present
<1>4. /\ cmd = [type |-> cmd.type, user |-> cmd.user, right |-> cmd.right]
      /\ cmd.user \in Users \cup {NoUser} /\ cmd.right \in BOOLEAN
      /\ cmd.type \in {"LOGIN", "LOGOUT", "LIST", "EXIT"}
  <2>1. cmd = [type |-> cmd.type, user |-> cmd.user, right |-> cmd.right]
    BY DEF Commands, Login, Logout, List, Exit
  <2> QED  BY <2>1, CommandParts DEF Names
<1>5. \E type \in {"LOGIN", "LOGOUT", "LIST", "EXIT"}, u \in Users \cup {NoUser},
         right \in BOOLEAN :
         asked' = [asked EXCEPT
                     ![c] = Append(@, [type |-> type, user |-> u, right |-> right])]
  BY <1>1, <1>4
<1> QED  BY <1>1, <1>2, <1>3, <1>5 DEF Service!Ask, Present

LEMMA ShellLeaves ==
    ASSUME TypeOK, NEW c \in Clients, InShell(c), status' = [status EXCEPT ![c] = "gone"],
           \A d \in Clients \ {c} : UNCHANGED <<toClient[d], threadPipe[d]>>,
           UNCHANGED <<asked, served, isOnline>>
    PROVE  Service!Leave(c)
<1>1. ~InShell(c)' /\ \A d \in Clients \ {c} : InShell(d)' = InShell(d)
  BY DEF InShell, TypeOK
<1>2. Present' = Present \ {c} /\ c \in Present
  BY <1>1 DEF Present
<1>3. Unread'[c] = <<>>
  BY <1>1, UnreadOf
<1>4. Unread' = [Unread EXCEPT ![c] = <<>>]
  BY <1>1, <1>3, OneUnread
<1> QED  BY <1>2, <1>4 DEF Service!Leave, Present

LEMMA ReceiveIsRead ==
    ASSUME ServiceInv, NEW c \in Clients, Receive(c)
    PROVE  Service!Read(c) \/ Service!Leave(c)
<1>0. TypeOK
  BY DEF ServiceInv
<1>1. /\ InShell(c) /\ toClient[c] # <<>> /\ toClient' = [toClient EXCEPT ![c] = Tail(@)]
      /\ UNCHANGED <<threadPipe, asked, served, isOnline>>
  BY DEF Receive, InShell, threadVars, playerVars
<1>2. CASE Head(toClient[c]).type = "EXITACK"
  <2>1. status' = [status EXCEPT ![c] = "gone"]
    BY <1>2 DEF Receive
  <2>2. \A d \in Clients \ {c} : UNCHANGED <<toClient[d], threadPipe[d]>>
    BY <1>0, <1>1 DEF TypeOK
  <2> QED  BY <1>0, <1>1, <2>1, <2>2, ShellLeaves
<1>3. CASE Head(toClient[c]).type # "EXITACK"
  <2>1. \A d \in Clients : InShell(d)' = InShell(d)
    BY <1>0, <1>3 DEF Receive, InShell, TypeOK, clientVars
  <2>2. /\ OnTheWay(c) \in Seq(Answers) /\ OnTheWay(c) # <<>>
        /\ Head(OnTheWay(c)) = Head(toClient[c])
        /\ OnTheWay(c)' = Tail(OnTheWay(c))
    <3>1. /\ toClient[c] \in Seq(Answers) /\ threadPipe[c] \in Seq(Answers)
          /\ OnTheWay(c) \in Seq(Answers) /\ toClient'[c] = Tail(toClient[c])
          /\ threadPipe'[c] = threadPipe[c]
      BY <1>0, <1>1, OnTheWayType DEF TypeOK
    <3>2. \A s, t \in Seq(Answers) : s # <<>> => /\ s \o t # <<>> /\ Head(s \o t) = Head(s)
                                                /\ Tail(s) \o t = Tail(s \o t)
      OBVIOUS
    <3> QED  BY <1>1, <3>1, <3>2 DEF OnTheWay
  <2>3. /\ UpToExit(OnTheWay(c)) \in Seq(Answers) /\ UpToExit(OnTheWay(c)) # <<>>
        /\ UpToExit(Tail(OnTheWay(c))) = Tail(UpToExit(OnTheWay(c)))
    BY <1>3, <2>2, UpToExitTail
  <2>4. Seen(c) # <<>> /\ Plain(UpToExit(Tail(OnTheWay(c)))) = Tail(Seen(c))
    BY <2>3, PlainTail DEF Seen
  <2>5. Seen(c)' = Tail(Seen(c))
    <3>1. Seen(c)' = Plain(UpToExit(OnTheWay(c)'))
      BY DEF Seen
    <3> QED  BY <2>2, <2>4, <3>1
  <2>6. Unread[c] # <<>> /\ Unread'[c] = Tail(Unread[c])
    BY <1>1, <2>1, <2>4, <2>5, UnreadOf
  <2>7. \A d \in Clients \ {c} : UNCHANGED <<toClient[d], threadPipe[d]>>
    BY <1>0, <1>1 DEF TypeOK
  <2>8. Unread' = [Unread EXCEPT ![c] = Tail(@)]
    BY <2>1, <2>6, <2>7, OneUnread
  <2>9. Present' = Present /\ c \in Present
    BY <1>1, <2>1 DEF Present
  <2> QED  BY <1>1, <2>6, <2>8, <2>9 DEF Service!Read, Present
<1> QED  BY <1>2, <1>3

LEMMA KillIsLeave ==
    ASSUME ServiceInv, NEW c \in Clients, Kill(c) \/ ServerLost(c)
    PROVE  Service!Leave(c)
<1>1. /\ TypeOK /\ InShell(c) /\ status' = [status EXCEPT ![c] = "gone"]
      /\ UNCHANGED <<threadPipe, asked, served, isOnline>>
  BY DEF ServiceInv, Kill, ServerLost, InShell, threadVars, playerVars, historyVars
<1>2. \A d \in Clients \ {c} : UNCHANGED <<toClient[d], threadPipe[d]>>
  BY <1>1 DEF Kill, ServerLost, TypeOK, socketVars
<1> QED  BY <1>1, <1>2, ShellLeaves

-----------------------------------------------------------------------------
\* Steps of a thread move answers on; the shells see nothing of it.
LEMMA ThreadIsHidden ==
    ASSUME ServiceInv, NEW c \in Clients, Thread(c)
    PROVE  UNCHANGED ServiceVars
<1>0. /\ TypeOK /\ Parting(c)
      /\ InShell(c) => sock[c] = "open"
      /\ threadState[c] = "start" => threadPipe[c] = <<>>
  BY DEF ServiceInv, OrderInv, ClientInv, NothingLost, ThreadLife
<1>1. status' = status /\ asked' = asked /\ served' = served /\ isOnline' = isOnline
  BY DEF Thread, ThreadStart, ThreadReadPipe, ThreadReadSocket, ThreadForward, ThreadReadEnd,
         ThreadFarewell, ThreadClose, clientVars, playerVars, historyVars
<1>2. \A d \in Clients \ {c} : UNCHANGED <<toClient[d], threadPipe[d]>>
  BY <1>0 DEF Thread, ThreadStart, ThreadReadPipe, ThreadReadSocket, ThreadForward,
              ThreadReadEnd, ThreadFarewell, ThreadClose, WriteToSocket, socketVars, TypeOK
<1>3. InShell(c) => UpToExit(OnTheWay(c))' = UpToExit(OnTheWay(c))
  <2> SUFFICES ASSUME InShell(c) PROVE UpToExit(OnTheWay(c))' = UpToExit(OnTheWay(c))
    OBVIOUS
  <2>0. /\ toClient[c] \in Seq(Answers) /\ threadPipe[c] \in Seq(Answers)
        /\ sock[c] = "open"
    BY <1>0, OnTheWayType
  <2>1. CASE ThreadReadPipe(c)
    <3>1. /\ threadPipe[c] # <<>> /\ threadPipe'[c] = Tail(threadPipe[c])
          /\ toClient'[c] = Append(toClient[c], Head(threadPipe[c]))
      BY <1>0, <2>0, <2>1 DEF ThreadReadPipe, WriteToSocket, TypeOK
    <3>2. \A s, t \in Seq(Answers) : t # <<>> => Append(s, Head(t)) \o Tail(t) = s \o t
      OBVIOUS
    <3>3. OnTheWay(c)' = OnTheWay(c)
      BY <2>0, <3>1, <3>2 DEF OnTheWay
    <3> QED  BY <3>3
  <2>2. CASE ThreadClose(c)
    <3>1. /\ toClient'[c] = toClient[c] /\ threadPipe'[c] = <<>>
          /\ threadState[c] \in {"leaving", "closing"}
      BY <1>0, <2>2 DEF ThreadClose, TypeOK, socketVars
    <3>2. ~NoExit(toClient[c])
      BY <1>0, <3>1 DEF Parting
    <3>3. UpToExit(OnTheWay(c)) = UpToExit(toClient[c])
      BY <2>0, <3>2, UpToExitConcat DEF OnTheWay
    <3>4. OnTheWay(c)' = toClient[c]
      BY <2>0, <3>1 DEF OnTheWay
    <3> QED  BY <3>3, <3>4
  <2>3. CASE ThreadStart(c) \/ ThreadReadSocket(c) \/ ThreadForward(c)
             \/ ThreadReadEnd(c) \/ ThreadFarewell(c)
    <3>1. toClient'[c] = toClient[c] /\ threadPipe'[c] = threadPipe[c]
      BY <1>0, <2>3 DEF ThreadStart, ThreadReadSocket, ThreadForward, ThreadReadEnd,
                        ThreadFarewell, socketVars, TypeOK
    <3>2. OnTheWay(c)' = OnTheWay(c)
      BY <3>1 DEF OnTheWay
    <3> QED  BY <3>2
  <2> QED  BY <2>1, <2>2, <2>3 DEF Thread
<1>4. \A d \in Clients : /\ InShell(d)' = InShell(d)
                         /\ InShell(d) => UpToExit(OnTheWay(d))' = UpToExit(OnTheWay(d))
  <2> TAKE d \in Clients
  <2>1. InShell(d)' = InShell(d)
    BY <1>1 DEF InShell
  <2>2. CASE d = c
    BY <1>3, <2>1, <2>2
  <2>3. CASE d # c
    <3>1. OnTheWay(d)' = OnTheWay(d)
      BY <1>2, <2>3 DEF OnTheWay
    <3> QED  BY <2>1, <3>1
  <2> QED  BY <2>2, <2>3
<1>5. Unread' = Unread /\ Present' = Present
  BY <1>4, SameUnread
<1> QED  BY <1>1, <1>5 DEF ServiceVars

LEMMA SeenExit ==
    ASSUME TypeOK, NEW c \in Clients
    PROVE  (\A i \in 1..Len(Seen(c)) : Seen(c)[i].type # "EXITACK")
                <=> NoExit(OnTheWay(c))
<1>1. PICK s \in Seq(Answers) : s = UpToExit(OnTheWay(c))
  BY OnTheWayType, UpToExitType
<1>2. NoExit(s) <=> NoExit(OnTheWay(c))
  BY <1>1, OnTheWayType, UpToExitType
<1>3. /\ Len(Seen(c)) = Len(s)
      /\ \A i \in 1..Len(s) : Seen(c)[i] = PlainOf(s[i])
  BY <1>1, PlainType DEF Seen
<1>4. \A i \in 1..Len(s) : Seen(c)[i].type = s[i].type
  <2>1. \A m \in Answers : PlainOf(m).type = m.type
    BY DEF PlainOf
  <2>2. \A i \in 1..Len(s) : s[i] \in Answers
    OBVIOUS
  <2> QED  BY <1>3, <2>1, <2>2
<1> QED  BY <1>2, <1>3, <1>4 DEF NoExit

\* A response on the pipe of a thread is an answer for a shell that has not
\* been let go.
LEMMA ReplyIsAnswer ==
    ASSUME TypeOK, NEW c \in Clients, NEW a \in Answers,
           threadPipe' = [threadPipe EXCEPT ![c] = Append(@, a)],
           status' = status, toClient' = toClient
    PROVE  Service!Answer(c, a.type, a.user, a.ok) /\ Present' = Present
<1>1. /\ threadPipe'[c] = Append(threadPipe[c], a)
      /\ \A d \in Clients : InShell(d)' = InShell(d)
      /\ \A d \in Clients \ {c} : UNCHANGED <<toClient[d], threadPipe[d]>>
  BY DEF TypeOK, InShell
<1>2. \A d \in Clients \ {c} : UpToExit(OnTheWay(d))' = UpToExit(OnTheWay(d))
  <2> TAKE d \in Clients \ {c}
  <2>1. OnTheWay(d)' = OnTheWay(d)
    BY <1>1 DEF OnTheWay
  <2> QED  BY <2>1
<1>3. OnTheWay(c) \in Seq(Answers) /\ OnTheWay(c)' = Append(OnTheWay(c), a)
  <2>1. \A s, t \in Seq(Answers) : s \o Append(t, a) = Append(s \o t, a)
    OBVIOUS
  <2> QED  BY <1>1, <2>1, OnTheWayType DEF OnTheWay
<1>4. Present' = Present
  BY <1>1 DEF Present
<1>5. CASE ~InShell(c)
  <2>1. Unread' = Unread
    BY <1>1, <1>2, <1>5, SameUnread
  <2>2. c \notin Present
    BY <1>5 DEF Present
  <2> QED  BY <1>4, <2>1, <2>2 DEF Service!Answer, Present
<1>6. CASE InShell(c) /\ ~NoExit(OnTheWay(c))
  <2>1. UpToExit(OnTheWay(c))' = UpToExit(OnTheWay(c))
    BY <1>3, <1>6, UpToExitAppend
  <2>2. Unread' = Unread
    BY <1>1, <1>2, <2>1, SameUnread
  <2>3. ~\A i \in 1..Len(Unread[c]) : Unread[c][i].type # "EXITACK"
    BY <1>6, SeenExit, UnreadOf
  <2> QED  BY <1>4, <2>2, <2>3 DEF Service!Answer
<1>7. CASE InShell(c) /\ NoExit(OnTheWay(c))
  <2>1. UpToExit(OnTheWay(c)) = OnTheWay(c)
    BY <1>3, <1>7, UpToExitAll
  <2>2. UpToExit(OnTheWay(c))' = Append(OnTheWay(c), a)
    BY <1>3, <1>7, UpToExitAppend
  <2>3. Plain(Append(OnTheWay(c), a)) = Append(Seen(c), PlainOf(a))
    BY <1>3, <2>1, PlainAppend DEF Seen
  <2>4. Seen(c)' = Append(Seen(c), PlainOf(a))
    <3>1. Seen(c)' = Plain(UpToExit(OnTheWay(c))')
      BY DEF Seen
    <3> QED  BY <2>2, <2>3, <3>1
  <2>5. Unread'[c] = Append(Unread[c], PlainOf(a))
    BY <1>1, <1>7, <2>4, UnreadOf
  <2>6. Unread' = [Unread EXCEPT ![c] = Append(@, PlainOf(a))]
    <3>1. Unread' = [Unread EXCEPT ![c] = Append(Unread[c], PlainOf(a))]
      BY <1>1, <2>5, OneUnread
    <3> QED  BY <3>1 DEF Unread
  <2>7. \A i \in 1..Len(Unread[c]) : Unread[c][i].type # "EXITACK"
    BY <1>7, SeenExit, UnreadOf
  <2>8. c \in Present
    BY <1>7 DEF Present
  <2> QED  BY <1>4, <2>6, <2>7, <2>8 DEF Service!Answer, PlainOf, Present
<1> QED  BY <1>5, <1>6, <1>7

\* The main thread serves the command of one client, ends a session, or does
\* what no shell sees.
LEMMA MainIsServe ==
    ASSUME ServiceInv, Main
    PROVE  \/ \E c \in Clients : Service!Serve(c)
           \/ Service!Evict
           \/ UNCHANGED ServiceVars
<1>0. TypeOK /\ OrderInv
  BY DEF ServiceInv
<1>1. PICK m \in MainMessages : m = Head(mainPipe)
  BY <1>0, TailType DEF TypeOK, Main
<1>2. /\ mainPipe # <<>> /\ status' = status /\ toClient' = toClient /\ asked' = asked
      /\ toServer' = toServer /\ batch' = batch
  BY DEF Main, MainSkip, MainLogin, MainLogout, MainFarewell, MainList, MainExit,
         clientVars, socketVars, threadVars, historyVars
<1>3. /\ m.cmd \in Commands /\ m.username \in Names /\ NoUser \in Names
      /\ m.cmd.user \in Names /\ m.cmd.right \in BOOLEAN
  BY MessageParts DEF Names
\* What a response has in common for all commands.
<1>4. ASSUME NEW type \in {"LOGINACK", "LOGOUTACK", "LIST", "EXITACK"},
             NEW u \in Names, NEW ok \in BOOLEAN,
             TakeFromThread(m), Reply(m, type, u, ok)
      PROVE  /\ m.threadId \in Clients
             /\ served[m.threadId] < Len(asked[m.threadId])
             /\ served' = [served EXCEPT ![m.threadId] = @ + 1]
             /\ asked[m.threadId][served[m.threadId] + 1] = m.cmd
             /\ Service!Answer(m.threadId, type, u, ok)
             /\ Present' = Present
  <2>1. PICK c \in Clients : c = m.threadId
    BY <1>0, <1>4 DEF TakeFromThread, TypeOK
  <2>2. /\ served' = [served EXCEPT ![c] = @ + 1] /\ served'[c] = served[c] + 1
        /\ asked'[c] = asked[c] /\ Forwarded(c)' = Forwarded(c)
    BY <1>0, <1>2, <1>4, <2>1 DEF Reply, TypeOK, Forwarded
  <2>3. MainPipeInOrder(c) /\ NoneSkipped /\ mainPipe' = Tail(mainPipe)
    BY <1>0, <1>4, <2>1
       DEF OrderInv, ClientInv, NoneSkipped, TakeFromThread, Take
  <2>4. Genuine(c, m) /\ m.n = served[c] + 1 /\ served[c] + 1 <= Forwarded(c)
    BY <1>0, <1>1, <1>2, <2>1, <2>2, <2>3, ServeHead
  <2>5. served[c] < Len(asked[c]) /\ asked[c][served[c] + 1] = m.cmd
    BY <1>0, <2>4, Counters DEF Genuine
  <2>6. PICK a : a = [type |-> type, user |-> u, ok |-> ok, n |-> m.n]
    OBVIOUS
  <2>7. a \in Answers /\ a.type = type /\ a.user = u /\ a.ok = ok
    BY <2>6 DEF Answers, MainMessages
  <2>8. threadPipe' = [threadPipe EXCEPT ![c] = Append(@, a)]
    BY <1>4, <2>1, <2>6 DEF Reply
  <2>9. Service!Answer(c, a.type, a.user, a.ok) /\ Present' = Present
    BY <1>0, <1>2, <2>7, <2>8, ReplyIsAnswer
  <2> QED  BY <2>1, <2>2, <2>5, <2>7, <2>9
\* A step without a response.
<1>5. ASSUME threadPipe' = threadPipe
      PROVE  Unread' = Unread /\ Present' = Present
  <2>1. ASSUME NEW d \in Clients
        PROVE  InShell(d)' = InShell(d) /\ UpToExit(OnTheWay(d))' = UpToExit(OnTheWay(d))
    <3>1. InShell(d)' = InShell(d) /\ OnTheWay(d)' = OnTheWay(d)
      BY <1>2, <1>5 DEF InShell, OnTheWay
    <3> QED  BY <3>1
  <2> QED  BY <2>1, SameUnread
<1>6. CASE MainSkip(m)
  BY <1>2, <1>5, <1>6 DEF MainSkip, threadVars, playerVars, historyVars, ServiceVars
<1>7. CASE MainLogin(m)
  <2>1. PICK ok \in BOOLEAN : ok <=> CanLogin(m.cmd)
    BY <1>3 DEF CanLogin
  <2>2. ok = CanLogin(m.cmd) /\ ok = (m.cmd.right /\ m.cmd.user \in Accounts \ isOnline)
    BY <1>3, <2>1 DEF CanLogin
  <2>3. /\ TakeFromThread(m) /\ m.cmd.type = "LOGIN"
        /\ Reply(m, "LOGINACK", m.cmd.user, ok)
        /\ isOnline' = IF ok THEN isOnline \cup {m.cmd.user} ELSE isOnline
    BY <1>7, <2>2 DEF MainLogin, playerVars
  <2>4. Service!Serve(m.threadId)
    BY <1>2, <1>3, <1>4, <2>2, <2>3 DEF Service!Serve, Present
  <2> QED  BY <1>3, <1>4, <2>3, <2>4
<1>8. CASE MainLogout(m)
  <2>1. CASE m.username \in Accounts
    <3>1. /\ TakeFromThread(m) /\ m.cmd.type = "LOGOUT"
          /\ Reply(m, "LOGOUTACK", m.username, TRUE)
          /\ isOnline' = isOnline \ {m.username}
      BY <1>8, <2>1 DEF MainLogout, Deactivate
    <3>2. Service!Serve(m.threadId)
      BY <1>2, <1>3, <1>4, <2>1, <3>1 DEF Service!Serve, Present
    <3> QED  BY <1>3, <1>4, <3>1, <3>2
  <2>2. CASE m.username \notin Accounts
    BY <1>2, <1>5, <1>8, <2>2 DEF MainLogout, playerVars, ServiceVars
  <2> QED  BY <2>1, <2>2
<1>9. CASE MainFarewell(m)
  <2>1. /\ Unread' = Unread /\ Present' = Present /\ served' = served
        /\ asked' = asked
        /\ isOnline' = isOnline \/ isOnline' = isOnline \ {m.username}
    BY <1>5, <1>9 DEF MainFarewell, Deactivate, threadVars, playerVars, historyVars
  <2>2. CASE m.username \in isOnline /\ isOnline' = isOnline \ {m.username}
    BY <2>1, <2>2 DEF Service!Evict, Present
  <2>3. CASE isOnline' = isOnline
    BY <2>1, <2>3 DEF ServiceVars
  <2>4. m.username \notin isOnline => isOnline \ {m.username} = isOnline
    OBVIOUS
  <2> QED  BY <2>1, <2>2, <2>3, <2>4
<1>10. CASE MainList(m)
  <2>1. /\ TakeFromThread(m) /\ m.cmd.type = "LIST" /\ isOnline' = isOnline
        /\ Reply(m, "LIST", NoUser, TRUE)
    BY <1>10 DEF MainList, playerVars
  <2>2. Service!Serve(m.threadId)
    BY <1>2, <1>3, <1>4, <2>1 DEF Service!Serve, Present
  <2> QED  BY <1>3, <1>4, <2>1, <2>2
<1>11. CASE MainExit(m)
  <2>1. /\ TakeFromThread(m) /\ m.cmd.type = "EXIT" /\ isOnline' = isOnline
        /\ Reply(m, "EXITACK", NoUser, TRUE)
    BY <1>11 DEF MainExit, playerVars
  <2>2. Service!Serve(m.threadId)
    BY <1>2, <1>3, <1>4, <2>1 DEF Service!Serve, Present
  <2> QED  BY <1>3, <1>4, <2>1, <2>2
<1> QED  BY <1>1, <1>6, <1>7, <1>8, <1>9, <1>10, <1>11 DEF Main

-----------------------------------------------------------------------------

LEMMA ServiceInit == Init => Service!Init /\ ServiceInv
<1> SUFFICES ASSUME Init PROVE Service!Init /\ ServiceInv
  OBVIOUS
<1>1. \A c \in Clients : ~InShell(c)
  BY DEF Init, InShell
<1>2. Unread = [c \in Clients |-> <<>>] /\ Present = {}
  BY <1>1 DEF Unread, Present
<1>3. Service!Init
  BY <1>2 DEF Init, Service!Init, Present
<1>4. ServiceInv
  BY <1>1, TypesInit, OrderInit DEF ServiceInv, Parting
<1> QED  BY <1>3, <1>4

LEMMA ServiceInvStep ==
    ASSUME MaxRuns = 1
    PROVE  ServiceInv /\ [Next]_vars => ServiceInv'
<1> SUFFICES ASSUME ServiceInv, [Next]_vars PROVE ServiceInv'
  OBVIOUS
<1>1. TypeOK' /\ OrderInv'
  BY TypesStep, OrderStep DEF ServiceInv
<1>2. \A c \in Clients : Parting(c)'
  BY PartingStep
<1> QED  BY <1>1, <1>2 DEF ServiceInv

LEMMA ServiceStep ==
    ASSUME MaxRuns = 1
    PROVE  ServiceInv /\ [Next]_vars => [Service!Next]_ServiceVars
<1> SUFFICES ASSUME ServiceInv, [Next]_vars PROVE Service!Next \/ UNCHANGED ServiceVars
  OBVIOUS
<1>1. ASSUME NEW c \in Clients, Connect(c) PROVE Service!Next
  BY <1>1, ConnectIsOpen DEF Service!Next
<1>2. ASSUME NEW c \in Clients, NEW cmd \in Commands, Type(c, cmd) PROVE Service!Next
  BY <1>2, TypeIsAsk DEF Service!Next
<1>3. ASSUME NEW c \in Clients, Receive(c) PROVE Service!Next
  BY <1>3, ReceiveIsRead DEF Service!Next
<1>4. ASSUME NEW c \in Clients, Kill(c) \/ ServerLost(c) PROVE Service!Next
  BY <1>4, KillIsLeave DEF Service!Next
<1>5. ASSUME NEW c \in Clients, Thread(c) PROVE UNCHANGED ServiceVars
  BY <1>5, ThreadIsHidden
<1>6. CASE Main
  BY <1>6, MainIsServe DEF Service!Next
<1>7. CASE UNCHANGED vars
  BY <1>7 DEF vars, clientVars, socketVars, threadVars, playerVars, historyVars,
              ServiceVars, Unread, Present, InShell
<1> QED  BY <1>1, <1>2, <1>3, <1>4, <1>5, <1>6, <1>7 DEF Next

\* The shells, threads, pipes and connections, as long as no thread id is used
\* twice, are to the shells a service that carries out the commands of each
\* client one at a time and in order, each as one step on the table of players.
THEOREM ServiceImplemented == MaxRuns = 1 => (Spec => ImplementsService)
<1> SUFFICES ASSUME MaxRuns = 1 PROVE Spec => ImplementsService
  OBVIOUS
<1>1. Init => Service!Init /\ ServiceInv
  BY ServiceInit
<1>2. ServiceInv /\ [Next]_vars => ServiceInv'
  BY ServiceInvStep
<1>3. ServiceInv /\ [Next]_vars => [Service!Next]_(Service!vars)
  BY ServiceStep DEF ServiceVars, Service!vars, Present
<1> QED  BY <1>1, <1>2, <1>3, PTL DEF Spec, ImplementsService, Service!Spec
=============================================================================

---------------------------- MODULE FramingProofs ----------------------------
(***************************************************************************)
(* Theorems about Framing, for all texts, sizes of the buffer and of the   *)
(* pipe, and numbers of messages: reads stay inside the buffer, and        *)
(* Framing implements Channel.                                             *)
(*                                                                         *)
(* What the bytes mean is not computed from them: the invariant Inv says   *)
(* that there is a stream s of messages all, ended at the offsets off, of  *)
(* which wire, buffer and data are pieces.                                 *)
(***************************************************************************)
EXTENDS Framing, SequenceTheorems, TLAPS

-----------------------------------------------------------------------------
(***************************************************************************)
(* Sequences, position by position.                                        *)
(***************************************************************************)

LEMMA Cut ==
    ASSUME NEW S, NEW s \in Seq(S), NEW k \in 0..Len(s)
    PROVE  /\ SubSeq(s, 1, k) \in Seq(S) /\ Len(SubSeq(s, 1, k)) = k
           /\ \A i \in 1..k : SubSeq(s, 1, k)[i] = s[i]
           /\ SubSeq(s, k + 1, Len(s)) \in Seq(S)
           /\ Len(SubSeq(s, k + 1, Len(s))) = Len(s) - k
           /\ \A i \in 1..(Len(s) - k) : SubSeq(s, k + 1, Len(s))[i] = s[k + i]
<1>1. Len(s) \in Nat /\ \A i \in 1..Len(s) : s[i] \in S
  OBVIOUS
<1>2. /\ SubSeq(s, 1, k) \in Seq(S) /\ Len(SubSeq(s, 1, k)) = k
      /\ \A i \in 1..k : SubSeq(s, 1, k)[i] = s[i]
  <2>1. /\ 1 \in Int /\ k \in Int /\ \A i \in 1..k : s[i] \in S
    BY <1>1
  <2>2. /\ SubSeq(s, 1, k) \in Seq(S)
        /\ Len(SubSeq(s, 1, k)) = IF 1 <= k THEN k - 1 + 1 ELSE 0
        /\ \A i \in 1..(k - 1 + 1) : SubSeq(s, 1, k)[i] = s[1 + i - 1]
    BY <2>1, SubSeqProperties
  <2> QED  BY <1>1, <2>2
<1>3. /\ SubSeq(s, k + 1, Len(s)) \in Seq(S)
      /\ Len(SubSeq(s, k + 1, Len(s))) = Len(s) - k
      /\ \A i \in 1..(Len(s) - k) : SubSeq(s, k + 1, Len(s))[i] = s[k + i]
  <2>1. /\ k + 1 \in Int /\ Len(s) \in Int /\ \A i \in (k + 1)..Len(s) : s[i] \in S
    BY <1>1
  <2>2. /\ SubSeq(s, k + 1, Len(s)) \in Seq(S)
        /\ Len(SubSeq(s, k + 1, Len(s)))
             = IF k + 1 <= Len(s) THEN Len(s) - (k + 1) + 1 ELSE 0
        /\ \A i \in 1..(Len(s) - (k + 1) + 1) :
              SubSeq(s, k + 1, Len(s))[i] = s[(k + 1) + i - 1]
    BY <2>1, SubSeqProperties
  <2> QED  BY <1>1, <2>2
<1> QED  BY <1>2, <1>3

LEMMA Glue ==
    ASSUME NEW S, NEW s \in Seq(S), NEW t \in Seq(S)
    PROVE  /\ s \o t \in Seq(S) /\ Len(s \o t) = Len(s) + Len(t)
           /\ Len(s) \in Nat /\ Len(t) \in Nat
           /\ \A i \in 1..Len(s) : (s \o t)[i] = s[i]
           /\ \A i \in 1..Len(t) : (s \o t)[Len(s) + i] = t[i]
OBVIOUS

LEMMA Least ==
    ASSUME NEW a \in Int, NEW b \in Int
    PROVE  /\ Min({a, b}) \in {a, b} /\ Min({a, b}) <= a /\ Min({a, b}) <= b
<1>1. \E x \in {a, b} : \A y \in {a, b} : x <= y
  OBVIOUS
<1> QED  BY <1>1 DEF Min

-----------------------------------------------------------------------------
(***************************************************************************)
(* The bytes of messages.                                                  *)
(***************************************************************************)

Bytes == {"x", "n"}

\* s is all the bytes of the messages all, and off[i] where the i-th ends.
Stream(s, all, off) ==
    /\ all \in Seq(Bodies) /\ s \in Seq(Bytes)
    /\ off \in [0..Len(all) -> Nat] /\ off[0] = 0 /\ off[Len(all)] = Len(s)
    /\ \A i, j \in 0..Len(all) : i < j => off[i] < off[j]
    /\ \A i \in 1..Len(all) :
          /\ off[i] = off[i - 1] + Len(all[i]) + 2
          /\ \A k \in 1..Len(all[i]) : s[off[i - 1] + k] = all[i][k]
          /\ s[off[i] - 1] = "n" /\ s[off[i]] = "n"

\* Of these bytes, so many are copied; of the messages, so many completely.
Written(s, all, off, copied, whole) ==
    /\ copied \in 0..Len(s)
    /\ whole \in 0..Len(all) /\ off[whole] <= copied
    /\ whole < Len(all) => copied < off[whole + 1]
    /\ open \in BOOLEAN
    /\ open =>
          /\ written = all /\ whole >= Len(all) - 1
          /\ data \in Seq(Bytes) /\ Len(data) = Len(s) - copied
          /\ \A k \in 1..Len(data) : data[k] = s[copied + k]
    /\ ~open => data = <<>> /\ written = SubSeq(all, 1, whole)

\* The call of commonRead began after the byte base, when h messages had been
\* handed over, and has g by now.
Gathered(s, all, off, base, h, g) ==
    /\ base \in Nat /\ h \in 0..Len(all) /\ g \in h..Len(all)
    /\ wire \in Seq(Bytes) /\ Len(wire) <= Capacity
    /\ buffer \in Seq(Bytes) /\ bufferSize \in Nat \ {0} /\ Len(buffer) <= bufferSize
    /\ \A k \in 1..Len(buffer) : buffer[k] = s[base + k]
    /\ \A k \in 1..Len(wire) : wire[k] = s[base + Len(buffer) + k]
    /\ received = SubSeq(all, 1, h) /\ messages \in Seq(Bodies)
    /\ start \in 1..(Len(buffer) + 1)
    /\ pc \in {"idle", "read", "scan", "ended"}
    /\ pc = "idle" => base + Len(buffer) = off[h]
    /\ pc \in {"read", "scan"} =>
          base + start - 1 = off[g] /\ messages = SubSeq(all, h + 1, g)
    /\ pc = "read" => Delimiters = {}

Copied(base) == base + Len(buffer) + Len(wire)

Frame(s, all, off, whole, base, h, g) ==
    /\ Stream(s, all, off)
    /\ Written(s, all, off, Copied(base), whole)
    /\ Gathered(s, all, off, base, h, g)

Inv == \E s, all, off, whole, base, h, g : Frame(s, all, off, whole, base, h, g)

\* In a text no newline follows another one, nor ends it, nor begins it: the
\* first two newlines in a row after a message are the end of the next one.
LEMMA FirstDelimiter ==
    ASSUME NEW s, NEW all, NEW off, Stream(s, all, off),
           NEW g \in 0..(Len(all) - 1), NEW p \in Nat,
           off[g] < p, p + 1 <= off[g + 1], s[p] = "n", s[p + 1] = "n"
    PROVE  p + 1 = off[g + 1]
<1> DEFINE b == all[g + 1]
           k == p - off[g]
<1>1. Len(all) \in Nat /\ g + 1 \in 1..Len(all) /\ (g + 1) - 1 = g /\ g \in 0..Len(all)
  BY DEF Stream
<1>2. /\ off[g] \in Nat /\ off[g + 1] \in Nat
      /\ off[g + 1] = off[g] + Len(b) + 2
      /\ \A i \in 1..Len(b) : s[off[g] + i] = b[i]
      /\ s[off[g + 1] - 1] = "n"
  <2>1. g + 1 \in 0..Len(all) /\ off \in [0..Len(all) -> Nat]
    BY <1>1 DEF Stream
  <2>2. \A i \in 1..Len(all) :
          /\ off[i] = off[i - 1] + Len(all[i]) + 2
          /\ \A j \in 1..Len(all[i]) : s[off[i - 1] + j] = all[i][j]
          /\ s[off[i] - 1] = "n"
    BY Zenon DEF Stream
  <2>3. /\ off[g + 1] = off[g] + Len(b) + 2
        /\ \A j \in 1..Len(b) : s[off[g] + j] = b[j]
        /\ s[off[g + 1] - 1] = "n"
    BY <1>1, <2>2
  <2> QED  BY <1>1, <2>1, <2>3
<1>3. b \in Bodies
  BY <1>1 DEF Stream
<1>4. /\ Len(b) \in Nat
      /\ b # <<>> => b[1] # "n" /\ b[Len(b)] # "n"
      /\ \A i \in 1..(Len(b) - 1) : b[i] = "x" \/ b[i + 1] = "x"
  BY <1>3, FramingAssumption
<1> HIDE DEF b
<1>5. k \in 1..(Len(b) + 1) /\ p = off[g] + k
  BY <1>2, <1>4
<1> HIDE DEF k
<1>6. CASE k <= Len(b) - 1
  <2>1. /\ k \in 1..Len(b) /\ k + 1 \in 1..Len(b) /\ p + 1 = off[g] + (k + 1)
        /\ k \in 1..(Len(b) - 1)
    <3> DEFINE n == Len(b)
    <3>1. n \in Nat /\ k \in 1..(n + 1) /\ p = off[g] + k /\ k <= n - 1 /\ off[g] \in Nat
      BY <1>2, <1>4, <1>5, <1>6
    <3> HIDE DEF n
    <3>2. k \in 1..n /\ k + 1 \in 1..n /\ p + 1 = off[g] + (k + 1) /\ k \in 1..(n - 1)
      BY <3>1
    <3> QED  BY <3>2 DEF n
  <2>2. b[k] = "n" /\ b[k + 1] = "n"
    BY <1>2, <1>5, <2>1
  <2> QED  BY <1>4, <2>1, <2>2
<1>7. CASE k = Len(b)
  <2>1. k \in 1..Len(b) /\ b # <<>>
    BY <1>4, <1>5, <1>7
  <2>2. b[Len(b)] = "n"
    BY <1>2, <1>5, <1>7, <2>1
  <2> QED  BY <1>4, <2>1, <2>2
<1>8. CASE k = Len(b) + 1
  BY <1>2, <1>4, <1>5, <1>8
<1> QED  BY <1>4, <1>5, <1>6, <1>7, <1>8

\* Offsets grow with the messages, up to the number of bytes.
LEMMA Offsets ==
    ASSUME NEW s, NEW all, NEW off, Stream(s, all, off)
    PROVE  /\ Len(all) \in Nat /\ Len(s) \in Nat
           /\ \A i \in 0..Len(all) : off[i] \in Nat /\ off[i] <= Len(s)
           /\ \A i, j \in 0..Len(all) : i <= j => off[i] <= off[j]
           /\ \A i, j \in 0..Len(all) : off[i] <= off[j] => i <= j
<1> DEFINE n == Len(all)
<1>1. n \in Nat /\ Len(s) \in Nat
  BY DEF Stream
<1>2. /\ off \in [0..n -> Nat] /\ off[n] = Len(s)
      /\ \A i, j \in 0..n : i < j => off[i] < off[j]
  BY Zenon DEF Stream
<1> HIDE DEF n
<1>3. \A i \in 0..n : off[i] \in Nat
  BY <1>2
<1>4. \A i, j \in 0..n : i <= j => off[i] <= off[j]
  BY <1>1, <1>2, <1>3
<1>5. \A i, j \in 0..n : off[i] <= off[j] => i <= j
  BY <1>1, <1>2, <1>3
<1>6. \A i \in 0..n : off[i] <= Len(s)
  BY <1>1, <1>2, <1>4
<1> QED  BY <1>1, <1>3, <1>4, <1>5, <1>6 DEF n

\* What is appended does not change a part before it.
LEMMA Prefix ==
    ASSUME NEW S, NEW s \in Seq(S), NEW e \in S,
           NEW m \in 1..(Len(s) + 1), NEW n \in (m - 1)..Len(s)
    PROVE  SubSeq(Append(s, e), m, n) = SubSeq(s, m, n)
<1>1. Len(s) \in Nat /\ Append(s, e) \in Seq(S) /\ Append(s, e) = s \o <<e>> /\ <<e>> \in Seq(S)
  BY AppendProperties, AppendIsConcat
<1>2. CASE n = m - 1
  <2>1. n < m /\ m \in Int /\ n \in Int
    BY <1>1, <1>2
  <2> QED  BY <2>1, SubSeqEmpty
<1>3. CASE n # m - 1
  <2>1. m \in 1..Len(s) /\ n \in 1..Len(s)
    BY <1>1, <1>3
  <2> QED  BY <1>1, <2>1, SubSeqOfConcat1
<1> QED  BY <1>2, <1>3

\* One message more of a sequence.
LEMMA OneMore ==
    ASSUME NEW S, NEW s \in Seq(S), NEW h \in 0..Len(s), NEW g \in h..(Len(s) - 1)
    PROVE  SubSeq(s, h + 1, g + 1) = Append(SubSeq(s, h + 1, g), s[g + 1])
<1>1. Len(s) \in Nat /\ h + 1 \in 1..Len(s) /\ g + 1 \in (h + 1)..Len(s) /\ g + 1 \in 1..Len(s)
      /\ (g + 1) - 1 = g /\ h + 1 \in Int /\ g \in Int
  OBVIOUS
<1>2. SubSeq(s, h + 1, g + 1) = SubSeq(s, h + 1, (g + 1) - 1) \o <<s[g + 1]>>
  BY <1>1, SubSeqRecursiveSecond
<1>3. \A i \in (h + 1)..g : s[i] \in S
  BY <1>1, ElementOfSeq
<1>4. SubSeq(s, h + 1, g) \in Seq(S) /\ s[g + 1] \in S
  BY <1>1, <1>3, SubSeqProperties, ElementOfSeq
<1> QED  BY <1>1, <1>2, <1>4, AppendIsConcat

-----------------------------------------------------------------------------
(***************************************************************************)
(* What the frame says of the variables of Channel.                        *)
(***************************************************************************)

LEMMA AcceptedIsWhole ==
    ASSUME NEW s, NEW all, NEW off, NEW whole, NEW copied,
           Stream(s, all, off), Written(s, all, off, copied, whole)
    PROVE  /\ Accepted = SubSeq(all, 1, whole) /\ Accepted \in Seq(Bodies)
           /\ Len(Accepted) = whole
<1>1. /\ Len(all) \in Nat /\ Len(s) \in Nat /\ all \in Seq(Bodies)
      /\ whole \in 0..Len(all) /\ copied \in 0..Len(s)
      /\ off[Len(all)] = Len(s) /\ off[whole] <= copied
      /\ whole < Len(all) => copied < off[whole + 1]
  BY Offsets DEF Written, Stream
<1>2. SubSeq(all, 1, whole) \in Seq(Bodies) /\ Len(SubSeq(all, 1, whole)) = whole
  BY <1>1, Cut
<1>3. CASE ~open
  BY <1>2, <1>3 DEF Accepted, Written
<1>4. CASE open
  <2>1. /\ written = all /\ whole >= Len(all) - 1 /\ data \in Seq(Bytes)
        /\ Len(data) = Len(s) - copied
    BY <1>4 DEF Written
  <2>2. CASE data = <<>>
    <3>1. copied = Len(s)
      BY <1>1, <2>1, <2>2
    <3>2. whole = Len(all)
      <4>1. ASSUME whole < Len(all) PROVE FALSE
        <5>1. whole + 1 \in 0..Len(all)
          BY <1>1, <4>1
        <5>2. off[whole + 1] <= Len(s) /\ off[whole + 1] \in Nat
          BY <5>1, Offsets
        <5> QED  BY <1>1, <3>1, <4>1, <5>2
      <4> QED  BY <1>1, <4>1
    <3> QED  BY <1>1, <1>2, <2>1, <2>2, <3>2, SubSeqFull DEF Accepted
  <2>3. CASE data # <<>>
    <3>1. Len(data) \in Nat \ {0}
      BY <2>1, <2>3, EmptySeq
    <3>2. whole # Len(all)
      BY <1>1, <2>1, <3>1
    <3>3. whole = Len(all) - 1
      BY <1>1, <2>1, <3>2
    <3> QED  BY <1>2, <2>1, <2>3, <3>3 DEF Accepted
  <2> QED  BY <2>2, <2>3
<1> QED  BY <1>3, <1>4, <1>2 DEF Written

-----------------------------------------------------------------------------
(***************************************************************************)
(* Writing.                                                                *)
(***************************************************************************)

Extended(all, off, s, body) ==
    [i \in 0..(Len(all) + 1) |-> IF i <= Len(all) THEN off[i] ELSE Len(s) + Len(body) + 2]

LEMMA BodyBytes ==
    ASSUME NEW body \in Bodies
    PROVE  /\ body \in Seq(Bytes) /\ Len(body) \in Nat
           /\ body \o <<"n", "n">> \in Seq(Bytes)
           /\ Len(body \o <<"n", "n">>) = Len(body) + 2
           /\ \A i \in 1..Len(body) : (body \o <<"n", "n">>)[i] = body[i]
           /\ (body \o <<"n", "n">>)[Len(body) + 1] = "n"
           /\ (body \o <<"n", "n">>)[Len(body) + 2] = "n"
<1>1. body \in Seq(Bytes)
  BY FramingAssumption DEF Bytes
<1>2. /\ <<"n", "n">> \in Seq(Bytes) /\ Len(<<"n", "n">>) = 2
      /\ <<"n", "n">>[1] = "n" /\ <<"n", "n">>[2] = "n"
  BY DEF Bytes
<1> QED  BY <1>1, <1>2, Glue

LEMMA StreamGrows ==
    ASSUME NEW s, NEW all, NEW off, Stream(s, all, off), NEW body \in Bodies
    PROVE  Stream(s \o (body \o <<"n", "n">>), Append(all, body), Extended(all, off, s, body))
<1> DEFINE n == Len(all)
           m == Len(body)
           l == Len(s)
           t == body \o <<"n", "n">>
           s2 == s \o t
           all2 == Append(all, body)
           off2 == Extended(all, off, s, body)
<1>1. /\ all \in Seq(Bodies) /\ s \in Seq(Bytes) /\ n \in Nat /\ l \in Nat /\ m \in Nat
      /\ off \in [0..n -> Nat] /\ off[0] = 0 /\ off[n] = l
      /\ \A i, j \in 0..n : i < j => off[i] < off[j]
      /\ \A i \in 0..n : off[i] <= l
  BY Offsets, BodyBytes DEF Stream
<1>2. /\ t \in Seq(Bytes) /\ Len(t) = m + 2 /\ \A i \in 1..m : t[i] = body[i]
      /\ t[m + 1] = "n" /\ t[m + 2] = "n"
  BY BodyBytes
<1>3. /\ s2 \in Seq(Bytes) /\ Len(s2) = l + (m + 2)
      /\ \A i \in 1..l : s2[i] = s[i]
      /\ \A i \in 1..(m + 2) : s2[l + i] = t[i]
  BY <1>1, <1>2, Glue
<1>4. /\ all2 \in Seq(Bodies) /\ Len(all2) = n + 1
      /\ \A i \in 1..n : all2[i] = all[i]
      /\ all2[n + 1] = body
  BY <1>1, AppendProperties
<1>5. /\ \A i \in 0..n : off2[i] = off[i]
      /\ off2[n + 1] = l + m + 2
      /\ off2 = [i \in 0..(n + 1) |-> IF i <= n THEN off[i] ELSE l + m + 2]
  BY <1>1 DEF Extended
<1>6. \A i \in 1..n :
          /\ off[i] = off[i - 1] + Len(all[i]) + 2
          /\ \A k \in 1..Len(all[i]) : s[off[i - 1] + k] = all[i][k]
          /\ s[off[i] - 1] = "n" /\ s[off[i]] = "n"
  BY Zenon DEF Stream
<1>7. \A i \in 1..n : Len(all[i]) \in Nat
  BY <1>1
<1> HIDE DEF n, m, l, t, s2, all2, off2
<1>8. off2 \in [0..Len(all2) -> Nat] /\ off2[0] = 0 /\ off2[Len(all2)] = Len(s2)
  <2>1. off2 \in [0..(n + 1) -> Nat]
    BY <1>1, <1>5
  <2> QED  BY <2>1, <1>1, <1>3, <1>4, <1>5
<1>9. \A i, j \in 0..Len(all2) : i < j => off2[i] < off2[j]
  <2> SUFFICES ASSUME NEW i \in 0..(n + 1), NEW j \in 0..(n + 1), i < j
               PROVE  off2[i] < off2[j]
    BY <1>4
  <2>1. i \in 0..n /\ off2[i] = off[i] /\ off[i] \in Nat /\ off[i] <= l
    BY <1>1, <1>5
  <2>2. CASE j = n + 1
    BY <1>1, <1>5, <2>1, <2>2
  <2>3. CASE j # n + 1
    <3>1. j \in 0..n
      BY <1>1, <2>3
    <3> QED  BY <1>1, <1>5, <2>1, <3>1
  <2> QED  BY <2>2, <2>3
<1>10. ASSUME NEW i \in 1..Len(all2)
       PROVE  /\ off2[i] = off2[i - 1] + Len(all2[i]) + 2
              /\ \A k \in 1..Len(all2[i]) : s2[off2[i - 1] + k] = all2[i][k]
              /\ s2[off2[i] - 1] = "n" /\ s2[off2[i]] = "n"
  <2>1. CASE i = n + 1
    <3>1. /\ all2[i] = body /\ off2[i] = l + m + 2 /\ i - 1 \in 0..n /\ i - 1 = n
          /\ off2[i - 1] = l
      BY <1>1, <1>4, <1>5, <2>1
    <3>2. \A k \in 1..m : s2[l + k] = body[k]
      <4>1. \A k \in 1..m : k \in 1..(m + 2)
        BY <1>1
      <4> QED  BY <1>2, <1>3, <4>1
    <3>3. m + 1 \in 1..(m + 2) /\ m + 2 \in 1..(m + 2)
      BY <1>1
    <3>4. s2[l + (m + 1)] = "n" /\ s2[l + (m + 2)] = "n"
      BY <1>2, <1>3, <3>3
    <3>5. off2[i] = l + (m + 2) /\ off2[i] - 1 = l + (m + 1)
      BY <1>1, <3>1
    <3>6. s2[off2[i] - 1] = "n" /\ s2[off2[i]] = "n"
      BY <3>4, <3>5, Zenon
    <3> QED  BY <3>1, <3>2, <3>6 DEF m
  <2>2. CASE i # n + 1
    <3>1. i \in 1..n /\ i \in 0..n /\ i - 1 \in 0..n /\ all2[i] = all[i]
      BY <1>1, <1>4, <2>2
    <3>2. /\ off2[i] = off[i] /\ off2[i - 1] = off[i - 1]
          /\ off[i] \in Nat /\ off[i - 1] \in Nat /\ off[i] <= l
      BY <1>1, <1>5, <3>1
    <3>3. /\ off[i] = off[i - 1] + Len(all[i]) + 2
          /\ \A k \in 1..Len(all[i]) : s[off[i - 1] + k] = all[i][k]
          /\ s[off[i] - 1] = "n" /\ s[off[i]] = "n"
          /\ Len(all[i]) \in Nat
      BY <1>6, <1>7, <3>1
    <3> DEFINE a == Len(all[i])
               o == off[i - 1]
    <3>4. /\ a \in Nat /\ o \in Nat /\ off[i] = o + a + 2 /\ o + a + 2 <= l
      BY <3>2, <3>3
    <3>5. \A k \in 1..a : s2[o + k] = s[o + k]
      <4> HIDE DEF a, o
      <4>1. \A k \in 1..a : o + k \in 1..l
        BY <1>1, <3>4
      <4> QED  BY <1>3, <4>1
    <3>6. off[i] - 1 \in 1..l /\ off[i] \in 1..l
      <4> HIDE DEF a, o
      <4> QED  BY <1>1, <3>4
    <3>7. s2[off[i] - 1] = "n" /\ s2[off[i]] = "n"
      BY <1>3, <3>3, <3>6
    <3> QED  BY <3>1, <3>2, <3>3, <3>5, <3>7
  <2> QED  BY <2>1, <2>2
<1>11. Stream(s2, all2, off2)
  BY <1>3, <1>4, <1>8, <1>9, <1>10 DEF Stream
<1> QED  BY <1>11 DEF s2, all2, off2, t

LEMMA WriteStep ==
    ASSUME NEW s, NEW all, NEW off, NEW whole, NEW base, NEW h, NEW g,
           Frame(s, all, off, whole, base, h, g), NEW body \in Bodies, Write(body)
    PROVE  Frame(s \o (body \o <<"n", "n">>), Append(all, body),
                 Extended(all, off, s, body), whole, base, h, g)'
<1> DEFINE t == body \o <<"n", "n">>
           s2 == s \o t
           all2 == Append(all, body)
           off2 == Extended(all, off, s, body)
           n == Len(all)
           l == Len(s)
<1>1. /\ Stream(s, all, off) /\ Written(s, all, off, Copied(base), whole)
      /\ Gathered(s, all, off, base, h, g)
  BY DEF Frame
<1>2. /\ open /\ data = <<>> /\ written' = Append(written, body) /\ data' = t
      /\ UNCHANGED <<wire, open, pc, bufferSize, buffer, start, messages, received>>
  BY DEF Write
<1>3. /\ n \in Nat /\ l \in Nat /\ all \in Seq(Bodies) /\ s \in Seq(Bytes)
      /\ \A i \in 0..n : off[i] \in Nat /\ off[i] <= l
      /\ \A i, j \in 0..n : off[i] <= off[j] => i <= j
      /\ off[n] = l
  BY <1>1, Offsets DEF Stream
<1>4. Stream(s2, all2, off2)
  BY <1>1, StreamGrows
<1>5. /\ t \in Seq(Bytes) /\ Len(t) = Len(body) + 2 /\ Len(body) \in Nat
  BY BodyBytes
<1>6. /\ Len(s2) = l + Len(t) /\ \A i \in 1..l : s2[i] = s[i]
      /\ \A i \in 1..Len(t) : s2[l + i] = t[i]
  BY <1>3, <1>5, Glue
<1>7. Len(all2) = n + 1
  BY <1>3, AppendProperties
<1>8. /\ \A i \in 0..n : off2[i] = off[i]
      /\ off2[n + 1] = l + Len(body) + 2
  BY <1>3 DEF Extended
<1>9. /\ whole \in 0..n /\ off[whole] <= Copied(base) /\ Copied(base) \in 0..l
      /\ whole < n => Copied(base) < off[whole + 1]
      /\ written = all /\ Len(data) = l - Copied(base)
  BY <1>1, <1>2 DEF Written
<1>10. Copied(base) = l /\ whole = n
  <2>1. Copied(base) = l
    BY <1>2, <1>3, <1>9
  <2>2. whole \in 0..n /\ off[n] <= l => (whole < n => l < off[whole + 1])
    BY <1>9, <2>1
  <2>3. ASSUME whole < n PROVE FALSE
    <3>1. whole + 1 \in 0..n
      BY <1>3, <1>9, <2>3
    <3> QED  BY <1>3, <1>9, <2>1, <2>3, <3>1
  <2> QED  BY <1>3, <1>9, <2>1, <2>3
<1>11. Copied(base)' = l
  BY <1>2, <1>10 DEF Copied
<1>12. Written(s2, all2, off2, Copied(base), whole)'
  <2>1. /\ Copied(base)' \in 0..Len(s2) /\ whole \in 0..Len(all2)
        /\ off2[whole] <= Copied(base)' /\ Copied(base)' < off2[whole + 1]
        /\ whole >= Len(all2) - 1
    BY <1>3, <1>5, <1>6, <1>7, <1>8, <1>10, <1>11
  <2>2. /\ open' /\ written' = all2 /\ data' \in Seq(Bytes)
        /\ Len(data') = Len(s2) - Copied(base)'
    BY <1>2, <1>3, <1>5, <1>6, <1>9, <1>11
  <2>3. \A k \in 1..Len(data') : data'[k] = s2[Copied(base)' + k]
    BY <1>2, <1>6, <1>11
  <2>4. open' \in BOOLEAN
    BY <1>1, <1>2 DEF Written
  <2> QED  BY <2>1, <2>2, <2>3, <2>4 DEF Written
<1>13. Gathered(s2, all2, off2, base, h, g)'
  <2>1. /\ base \in Nat /\ h \in 0..n /\ g \in h..n
        /\ wire \in Seq(Bytes) /\ Len(wire) <= Capacity
        /\ buffer \in Seq(Bytes) /\ bufferSize \in Nat \ {0} /\ Len(buffer) <= bufferSize
        /\ \A k \in 1..Len(buffer) : buffer[k] = s[base + k]
        /\ \A k \in 1..Len(wire) : wire[k] = s[base + Len(buffer) + k]
        /\ received = SubSeq(all, 1, h) /\ messages \in Seq(Bodies)
        /\ start \in 1..(Len(buffer) + 1)
        /\ pc \in {"idle", "read", "scan", "ended"}
        /\ pc = "idle" => base + Len(buffer) = off[h]
        /\ pc \in {"read", "scan"} =>
              base + start - 1 = off[g] /\ messages = SubSeq(all, h + 1, g)
        /\ pc = "read" => Delimiters = {}
    BY <1>1 DEF Gathered
  <2>2. base + Len(buffer) + Len(wire) = l /\ Len(buffer) \in Nat /\ Len(wire) \in Nat
    BY <1>10, <2>1 DEF Copied
  <2>3. \A k \in 1..Len(buffer) : buffer[k] = s2[base + k]
    <3>1. \A k \in 1..Len(buffer) : base + k \in 1..l
      BY <2>1, <2>2
    <3> QED  BY <1>6, <2>1, <3>1
  <2>4. \A k \in 1..Len(wire) : wire[k] = s2[base + Len(buffer) + k]
    <3>1. \A k \in 1..Len(wire) : base + Len(buffer) + k \in 1..l
      BY <2>1, <2>2
    <3> QED  BY <1>6, <2>1, <3>1
  <2>5. SubSeq(all2, 1, h) = SubSeq(all, 1, h)
    <3>1. 1 \in 1..(n + 1) /\ h \in (1 - 1)..n
      BY <1>3, <2>1
    <3> QED  BY <1>3, <3>1, Prefix
  <2>6. SubSeq(all2, h + 1, g) = SubSeq(all, h + 1, g)
    <3>1. h + 1 \in 1..(n + 1) /\ g \in ((h + 1) - 1)..n
      BY <1>3, <2>1
    <3> QED  BY <1>3, <3>1, Prefix
  <2>7. off2[h] = off[h] /\ off2[g] = off[g] /\ h \in 0..Len(all2) /\ g \in h..Len(all2)
    BY <1>3, <1>7, <1>8, <2>1
  <2>8. Delimiters' = Delimiters
    BY <1>2 DEF Delimiters
  <2>9. UNCHANGED <<wire, pc, bufferSize, buffer, start, messages, received>>
    BY <1>2
  <2> HIDE DEF s2, all2, off2
  <2> QED  BY <2>1, <2>3, <2>4, <2>5, <2>6, <2>7, <2>8, <2>9 DEF Gathered
<1> QED  BY <1>4, <1>12, <1>13 DEF Frame, Stream

\* While bytes of a message wait, it is the only one that is not whole.
LEMMA OneUnfinished ==
    ASSUME NEW s, NEW all, NEW off, NEW whole, NEW copied,
           Stream(s, all, off), Written(s, all, off, copied, whole), data # <<>>
    PROVE  /\ open /\ written = all /\ data \in Seq(Bytes)
           /\ copied \in Nat /\ Len(data) \in Nat /\ Len(s) = copied + Len(data)
           /\ Len(all) \in Nat \ {0} /\ whole = Len(all) - 1
<1>1. /\ open /\ written = all /\ data \in Seq(Bytes) /\ copied \in 0..Len(s)
      /\ Len(data) = Len(s) - copied /\ whole >= Len(all) - 1 /\ whole \in 0..Len(all)
      /\ off[whole] <= copied
  BY DEF Written
<1>2. Len(s) \in Nat /\ Len(all) \in Nat /\ off[Len(all)] = Len(s)
  BY Offsets DEF Stream
<1>3. Len(data) \in Nat \ {0}
  BY <1>1, EmptySeq
<1>4. whole # Len(all)
  BY <1>1, <1>2, <1>3
<1> QED  BY <1>1, <1>2, <1>3, <1>4

LEMMA CopyStep ==
    ASSUME NEW s, NEW all, NEW off, NEW whole, NEW base, NEW h, NEW g,
           Frame(s, all, off, whole, base, h, g), Copy
    PROVE  \E last : Frame(s, all, off, last, base, h, g)'
<1> DEFINE n == Len(all)
           l == Len(s)
           w == Len(wire)
           c == Copied(base)
<1>1. /\ Stream(s, all, off) /\ Written(s, all, off, c, whole)
      /\ Gathered(s, all, off, base, h, g)
  BY DEF Frame
<1>2. PICK k \in 1..Min({Len(data), Capacity - w}) :
          /\ wire' = wire \o SubSeq(data, 1, k)
          /\ data' = SubSeq(data, k + 1, Len(data))
          /\ UNCHANGED <<written, open, pc, bufferSize, buffer, start, messages, received>>
  BY DEF Copy
<1>3. /\ wire \in Seq(Bytes) /\ buffer \in Seq(Bytes) /\ base \in Nat /\ Capacity \in Nat
      /\ data \in Seq(Bytes) \cup {<<>>}
  BY <1>1, FramingAssumption DEF Gathered, Written
<1>4. w \in Nat /\ Len(data) \in Nat /\ Len(buffer) \in Nat
  BY <1>3
<1>5. k \in 1..Len(data) /\ w + k <= Capacity
  <2>1. Len(data) \in Int /\ Capacity - w \in Int
    BY <1>3, <1>4
  <2>2. /\ Min({Len(data), Capacity - w}) <= Len(data)
        /\ Min({Len(data), Capacity - w}) <= Capacity - w
        /\ Min({Len(data), Capacity - w}) \in Int
    BY <2>1, Least
  <2> QED  BY <1>3, <1>4, <2>2
<1>6. data # <<>>
  BY <1>4, <1>5
<1>7. /\ open /\ written = all /\ data \in Seq(Bytes)
      /\ c \in Nat /\ l = c + Len(data)
      /\ n \in Nat \ {0} /\ whole = n - 1
  BY <1>1, <1>6, OneUnfinished
<1>8. /\ SubSeq(data, 1, k) \in Seq(Bytes) /\ Len(SubSeq(data, 1, k)) = k
      /\ \A i \in 1..k : SubSeq(data, 1, k)[i] = data[i]
      /\ data' \in Seq(Bytes) /\ Len(data') = Len(data) - k
      /\ \A i \in 1..(Len(data) - k) : data'[i] = data[k + i]
  <2>1. k \in 0..Len(data)
    BY <1>5
  <2> QED  BY <1>2, <1>7, <2>1, Cut
<1>9. /\ wire' \in Seq(Bytes) /\ Len(wire') = w + k
      /\ \A i \in 1..w : wire'[i] = wire[i]
      /\ \A i \in 1..k : wire'[w + i] = data[i]
  BY <1>2, <1>3, <1>8, Glue
<1>10. c = base + Len(buffer) + w /\ Copied(base)' = c + k
  <2>1. c = base + Len(buffer) + w
    BY DEF Copied
  <2>2. Copied(base)' = base + Len(buffer) + (w + k)
    BY <1>2, <1>9 DEF Copied
  <2> QED  BY <1>3, <1>4, <1>5, <2>1, <2>2
<1>11. /\ \A i \in 1..Len(data) : data[i] = s[c + i]
       /\ off[whole] <= c /\ off[whole] \in Nat /\ off[n] = l
  <2>1. whole \in 0..n
    BY <1>7
  <2>2. /\ \A i \in 1..Len(data) : data[i] = s[c + i]
        /\ off[whole] <= c
    BY <1>1, <1>7 DEF Written
  <2>3. off[n] = l
    BY <1>1 DEF Stream
  <2> QED  BY <1>1, <2>1, <2>2, <2>3, Offsets
<1> HIDE DEF n, l, w, c
<1> PICK last : /\ data' = <<>> => last = n
                /\ data' # <<>> => last = whole
  <2>1. CASE data' = <<>>
    BY <2>1
  <2>2. CASE data' # <<>>
    BY <2>2
  <2> QED  BY <2>1, <2>2
<1>12. Written(s, all, off, Copied(base), last)'
  <2>1. data' = <<>> <=> k = Len(data)
    <3>1. data' = <<>> <=> Len(data') = 0
      BY <1>8, EmptySeq
    <3> QED  BY <1>4, <1>5, <1>8, <3>1
  <2>2. \A i \in 1..Len(data') : data'[i] = s[Copied(base)' + i]
    <3>1. \A i \in 1..Len(data') :
             /\ i \in 1..(Len(data) - k) /\ k + i \in 1..Len(data)
             /\ Copied(base)' + i = c + (k + i)
      BY <1>4, <1>5, <1>7, <1>8, <1>10
    <3> QED  BY <1>8, <1>11, <3>1
  <2>3. Copied(base)' \in 0..l /\ Len(data') = l - Copied(base)'
    <3> DEFINE d == Len(data)
    <3>1. d \in Nat /\ k \in 1..d /\ c \in Nat /\ l = c + d
      BY <1>4, <1>5, <1>7
    <3>2. Len(data') = d - k /\ Copied(base)' = c + k
      BY <1>8, <1>10
    <3> HIDE DEF d
    <3>3. c + k \in 0..l /\ d - k = l - (c + k)
      BY <3>1
    <3> QED  BY <3>2, <3>3
  <2>4. /\ last \in 0..n /\ last >= n - 1
        /\ off[last] <= Copied(base)'
        /\ last < n => Copied(base)' < off[last + 1]
    <3>1. CASE data' = <<>>
      BY <1>4, <1>5, <1>7, <1>10, <1>11, <2>1, <3>1
    <3>2. CASE data' # <<>>
      <4>1. last = whole /\ last + 1 = n /\ k < Len(data)
        BY <1>4, <1>5, <1>7, <2>1, <3>2
      <4>2. Copied(base)' < l /\ off[whole] <= Copied(base)'
        BY <1>4, <1>5, <1>7, <1>10, <1>11, <4>1
      <4> QED  BY <1>7, <1>11, <4>1, <4>2
    <3> QED  BY <3>1, <3>2
  <2>5. open' /\ open' \in BOOLEAN
    BY <1>1, <1>2, <1>7 DEF Written
  <2>6. written' = all /\ data' \in Seq(Bytes)
    BY <1>2, <1>7, <1>8
  <2> QED  BY <2>2, <2>3, <2>4, <2>5, <2>6 DEF Written, n, l
<1>13. Gathered(s, all, off, base, h, g)'
  <2>1. \A i \in 1..Len(wire') : wire'[i] = s[base + Len(buffer) + i]
    <3> SUFFICES ASSUME NEW i \in 1..(w + k)
                 PROVE  wire'[i] = s[base + Len(buffer) + i]
      BY <1>9
    <3>1. CASE i <= w
      <4>1. i \in 1..w
        BY <1>4, <1>5, <3>1
      <4> QED  BY <1>1, <1>9, <4>1 DEF Gathered, w
    <3>2. CASE ~(i <= w)
      <4>1. i - w \in 1..k /\ i - w \in 1..Len(data) /\ w + (i - w) = i
            /\ c + (i - w) = base + Len(buffer) + i
        BY <1>3, <1>4, <1>5, <1>10, <3>2
      <4> QED  BY <1>9, <1>11, <4>1
    <3> QED  BY <3>1, <3>2
  <2>2. Len(wire') <= Capacity
    BY <1>5, <1>9
  <2>3. Delimiters' = Delimiters
    BY <1>2 DEF Delimiters
  <2>4. UNCHANGED <<pc, bufferSize, buffer, start, messages, received>>
    BY <1>2
  <2> QED  BY <1>1, <1>9, <2>1, <2>2, <2>3, <2>4 DEF Gathered
<1>14. Frame(s, all, off, last, base, h, g)'
  BY <1>1, <1>12, <1>13 DEF Frame, Stream
<1> QED  BY <1>14

LEMMA CloseStep ==
    ASSUME NEW s, NEW all, NEW off, NEW whole, NEW base, NEW h, NEW g,
           Frame(s, all, off, whole, base, h, g), Close
    PROVE  Frame(s, all, off, whole, base, h, g)'
<1>1. /\ Stream(s, all, off) /\ Written(s, all, off, Copied(base), whole)
      /\ Gathered(s, all, off, base, h, g)
  BY DEF Frame
<1>2. /\ ~open' /\ open' \in BOOLEAN /\ data' = <<>> /\ written' = Accepted
      /\ UNCHANGED <<wire, pc, bufferSize, buffer, start, messages, received>>
  BY DEF Close, Accepted
<1>3. written' = SubSeq(all, 1, whole)
  BY <1>1, <1>2, AcceptedIsWhole
<1>4. Copied(base)' = Copied(base) /\ Delimiters' = Delimiters
  BY <1>2 DEF Copied, Delimiters
<1>5. Written(s, all, off, Copied(base), whole)'
  BY <1>1, <1>2, <1>3, <1>4 DEF Written
<1>6. Gathered(s, all, off, base, h, g)'
  BY <1>1, <1>2, <1>4 DEF Gathered
<1> QED  BY <1>1, <1>5, <1>6 DEF Frame, Stream

-----------------------------------------------------------------------------
(***************************************************************************)
(* Reading.                                                                *)
(***************************************************************************)

LEMMA WriterKept ==
    ASSUME NEW s, NEW all, NEW off, NEW whole, NEW copied,
           Written(s, all, off, copied, whole), UNCHANGED writer
    PROVE  Written(s, all, off, copied, whole)'
BY DEF Written, writer

LEMMA CallStep ==
    ASSUME NEW s, NEW all, NEW off, NEW whole, NEW base, NEW h, NEW g,
           Frame(s, all, off, whole, base, h, g), Call
    PROVE  \E b : Frame(s, all, off, whole, b, h, h)'
<1> PICK b : b = base + Len(buffer)
  OBVIOUS
<1>1. /\ Stream(s, all, off) /\ Written(s, all, off, Copied(base), whole)
      /\ Gathered(s, all, off, base, h, g)
  BY DEF Frame
<1>2. /\ pc = "idle" /\ pc' = "read" /\ bufferSize' = BufferSize /\ buffer' = <<>>
      /\ start' = 1 /\ messages' = <<>> /\ UNCHANGED writer /\ UNCHANGED <<wire, received>>
  BY DEF Call
<1>3. /\ base \in Nat /\ buffer \in Seq(Bytes) /\ wire \in Seq(Bytes)
      /\ b = off[h] /\ h \in 0..Len(all) /\ all \in Seq(Bodies)
      /\ \A k \in 1..Len(wire) : wire[k] = s[b + k]
  BY <1>1, <1>2 DEF Gathered, Stream
<1>4. /\ Len(buffer) \in Nat /\ Len(wire) \in Nat /\ b \in Nat /\ Len(buffer') = 0
      /\ buffer' \in Seq(Bytes)
  BY <1>2, <1>3
<1>5. Copied(b)' = Copied(base)
  BY <1>2, <1>3, <1>4 DEF Copied
<1>6. Written(s, all, off, Copied(b), whole)'
  BY <1>1, <1>2, <1>5, WriterKept
<1>7. Delimiters' = {}
  BY <1>2, <1>4 DEF Delimiters
<1>8. messages' = SubSeq(all, h + 1, h) /\ messages' \in Seq(Bodies)
  <2>1. h + 1 \in Int /\ h \in Int /\ h < h + 1
    BY <1>3
  <2> QED  BY <1>2, <2>1, SubSeqEmpty
<1>9. /\ bufferSize' \in Nat \ {0} /\ Len(buffer') <= bufferSize'
  BY <1>2, <1>4, FramingAssumption
<1>10. \A k \in 1..Len(wire') : wire'[k] = s[b + Len(buffer') + k]
  <2>1. b + Len(buffer') = b
    BY <1>4
  <2> QED  BY <1>2, <1>3, <2>1
<1>11. /\ b \in Nat /\ h \in h..Len(all) /\ start' \in 1..(Len(buffer') + 1)
       /\ b + start' - 1 = off[h] /\ Len(wire') <= Capacity
  <2>1. Len(wire) <= Capacity
    BY <1>1 DEF Gathered
  <2> QED  BY <1>2, <1>3, <1>4, <2>1
<1>12. \A k \in 1..Len(buffer') : buffer'[k] = s[b + k]
  BY <1>4
<1>13. received' = SubSeq(all, 1, h)
  BY <1>1, <1>2 DEF Gathered
<1>14. Gathered(s, all, off, b, h, h)'
  BY <1>2, <1>3, <1>4, <1>7, <1>8, <1>9, <1>10, <1>11, <1>12, <1>13 DEF Gathered
<1>15. Frame(s, all, off, whole, b, h, h)'
  BY <1>1, <1>6, <1>14 DEF Frame, Stream
<1> QED  BY <1>15

\* A read always has room.
LEMMA RoomToRead ==
    ASSUME buffer \in Seq(Bytes), bufferSize \in Nat \ {0}, Len(buffer) <= bufferSize
    PROVE  /\ Len(buffer) \in Nat /\ Grown \in Nat \ {0} /\ Room \in Nat \ {0}
           /\ Len(buffer) + Room = Grown
<1> DEFINE n == Len(buffer)
<1>1. n \in Nat /\ bufferSize \in Nat \ {0} /\ n <= bufferSize
  OBVIOUS
<1>2. Grown = IF n = bufferSize THEN 2 * bufferSize ELSE bufferSize
  BY DEF Grown
<1>3. Room = Grown - n
  BY DEF Room
<1> HIDE DEF n
<1>4. Grown \in Nat \ {0} /\ Grown - n \in Nat \ {0}
  BY <1>1, <1>2
<1>5. n + Room = Grown
  BY <1>1, <1>3, <1>4
<1> QED  BY <1>1, <1>3, <1>4, <1>5 DEF n

\* After g messages and no delimiter, all that arrived is less than a message more.
LEMMA NothingLeft ==
    ASSUME NEW s, NEW all, NEW off, NEW whole, NEW base, NEW h, NEW g,
           Frame(s, all, off, whole, base, h, g),
           pc \in {"read", "scan"}
    PROVE  /\ g <= whole
           /\ (Delimiters = {} /\ wire = <<>>) => g = whole
<1> DEFINE n == Len(buffer)
           w == Len(wire)
           c == Copied(base)
<1>1. /\ Stream(s, all, off) /\ Written(s, all, off, c, whole)
      /\ Gathered(s, all, off, base, h, g)
  BY DEF Frame
<1>2. /\ base \in Nat /\ h \in 0..Len(all) /\ g \in h..Len(all)
      /\ buffer \in Seq(Bytes) /\ wire \in Seq(Bytes)
      /\ \A k \in 1..n : buffer[k] = s[base + k]
      /\ start \in 1..(n + 1) /\ base + start - 1 = off[g]
  BY <1>1 DEF Gathered
<1>3. n \in Nat /\ w \in Nat /\ Len(all) \in Nat /\ c = base + n + w
  BY <1>1, <1>2, Offsets DEF Copied
<1>4. /\ whole \in 0..Len(all) /\ off[whole] <= c
      /\ whole < Len(all) => c < off[whole + 1]
  BY <1>1 DEF Written
<1>5. g \in 0..Len(all) /\ off[g] \in Nat /\ off[g] <= base + n /\ off[g] <= c
  <2>1. g \in 0..Len(all)
    BY <1>2, <1>3
  <2>2. off[g] \in Nat
    BY <1>1, <2>1, Offsets
  <2> HIDE DEF n, w, c
  <2> QED  BY <1>2, <1>3, <2>1, <2>2
<1>6. g <= whole
  <2>1. ASSUME whole < g PROVE FALSE
    <3>1. whole + 1 \in 0..Len(all) /\ whole + 1 <= g /\ whole < Len(all)
      BY <1>3, <1>4, <1>5, <2>1
    <3>2. off[whole + 1] <= off[g] /\ off[whole + 1] \in Nat
      BY <1>1, <1>5, <3>1, Offsets
    <3>3. c < off[whole + 1]
      BY <1>4, <3>1
    <3> HIDE DEF c
    <3> QED  BY <1>2, <1>3, <1>5, <3>2, <3>3
  <2> QED  BY <1>4, <1>5, <2>1
<1>7. ASSUME Delimiters = {}, wire = <<>>, g < whole
      PROVE  FALSE
  <2> DEFINE o == off[g + 1]
             i == o - 1 - base
  <2>1. g + 1 \in 1..Len(all) /\ g + 1 \in 0..Len(all) /\ (g + 1) - 1 = g /\ g + 1 <= whole
    BY <1>3, <1>4, <1>5, <1>7
  <2>2. /\ o \in Nat /\ o <= off[whole]
    BY <1>1, <1>4, <2>1, Offsets
  <2>3. o = off[g] + Len(all[g + 1]) + 2 /\ s[o - 1] = "n" /\ s[o] = "n"
    <3>1. \A k \in 1..Len(all) :
             off[k] = off[k - 1] + Len(all[k]) + 2 /\ s[off[k] - 1] = "n" /\ s[off[k]] = "n"
      BY <1>1, Zenon DEF Stream
    <3> QED  BY <2>1, <3>1
  <2>4. Len(all[g + 1]) \in Nat
    BY <1>1, <2>1 DEF Stream
  <2>5. w = 0
    BY <1>7
  <2>6. off[whole] \in Nat
    BY <1>1, <1>4, Offsets
  <2>7. o <= base + n
    <3> HIDE DEF n, w, c, o
    <3> QED  BY <1>2, <1>3, <1>4, <2>2, <2>5, <2>6
  <2>8. off[g] + 2 <= o
    BY <1>5, <2>2, <2>3, <2>4
  <2>9. i \in start..(n - 1) /\ i \in 1..n /\ i + 1 \in 1..n /\ base + i = o - 1 /\ base + (i + 1) = o
    <3> HIDE DEF n, o
    <3> QED  BY <1>2, <1>3, <1>5, <2>2, <2>7, <2>8
  <2>10. buffer[i] = "n" /\ buffer[i + 1] = "n"
    <3> HIDE DEF o, i
    <3> QED  BY <1>2, <2>3, <2>9
  <2>11. i \in Delimiters
    <3> HIDE DEF o, i
    <3> QED  BY <2>9, <2>10 DEF Delimiters
  <2> QED  BY <1>7, <2>11
<1>8. g \in Int /\ whole \in Int
  BY <1>4, <1>5
<1> QED  BY <1>6, <1>7, <1>8

\* What a call has gathered follows what was handed over before it.
LEMMA Together ==
    ASSUME NEW s, NEW all, NEW off, NEW whole, NEW base, NEW h, NEW g,
           Frame(s, all, off, whole, base, h, g), pc \in {"read", "scan"}
    PROVE  received \o messages = SubSeq(all, 1, g)
<1>1. /\ received = SubSeq(all, 1, h) /\ messages = SubSeq(all, h + 1, g)
      /\ h \in 0..Len(all) /\ g \in h..Len(all) /\ all \in Seq(Bodies)
  BY DEF Frame, Gathered, Stream
<1>2. /\ 1 \in 1..(Len(all) + 1) /\ h \in (1 - 1)..Len(all) /\ g \in h..Len(all)
  BY <1>1
<1> QED  BY <1>1, <1>2, ConcatAdjacentSubSeq

LEMMA ReadStep ==
    ASSUME NEW s, NEW all, NEW off, NEW whole, NEW base, NEW h, NEW g,
           Frame(s, all, off, whole, base, h, g), Read
    PROVE  \/ /\ Frame(s, all, off, whole, base, h, g)'
              /\ pc' = "scan" /\ UNCHANGED received
           \/ /\ Frame(s, all, off, whole, base, g, g)'
              /\ pc' = "ended" /\ ~open /\ g = whole /\ received' = SubSeq(all, 1, g)
<1> DEFINE b == Len(buffer)
           w == Len(wire)
<1> PICK n : n = Min({Room, w})
  OBVIOUS
<1>1. /\ Stream(s, all, off) /\ Written(s, all, off, Copied(base), whole)
      /\ Gathered(s, all, off, base, h, g)
  BY DEF Frame
<1>2. /\ pc = "read" /\ (wire # <<>> \/ ~open \/ Room = 0)
      /\ bufferSize' = Grown
      /\ buffer' = buffer \o SubSeq(wire, 1, n)
      /\ wire' = SubSeq(wire, n + 1, Len(wire))
      /\ \/ n > 0 /\ pc' = "scan" /\ UNCHANGED received
         \/ n = 0 /\ Return(TRUE)
      /\ UNCHANGED writer /\ UNCHANGED <<start, messages>>
  BY DEF Read
<1>3. /\ base \in Nat /\ buffer \in Seq(Bytes) /\ wire \in Seq(Bytes)
      /\ h \in 0..Len(all) /\ g \in h..Len(all) /\ all \in Seq(Bodies)
      /\ bufferSize \in Nat \ {0} /\ b <= bufferSize /\ w <= Capacity
      /\ start \in 1..(b + 1) /\ base + start - 1 = off[g]
      /\ messages = SubSeq(all, h + 1, g) /\ messages \in Seq(Bodies)
      /\ received = SubSeq(all, 1, h) /\ Delimiters = {}
      /\ \A k \in 1..b : buffer[k] = s[base + k]
      /\ \A k \in 1..w : wire[k] = s[base + b + k]
  BY <1>1, <1>2 DEF Gathered, Stream
<1>4. /\ b \in Nat /\ w \in Nat /\ Grown \in Nat \ {0} /\ Room \in Nat \ {0}
      /\ b + Room = Grown /\ Capacity \in Nat
  BY <1>3, RoomToRead, FramingAssumption
<1>5. n \in 0..w /\ n <= Room /\ (n = 0 => w = 0)
  <2>1. Room \in Int /\ w \in Int
    BY <1>4
  <2>2. n \in {Room, w} /\ n <= Room /\ n <= w
    BY <2>1, Least
  <2> HIDE DEF w
  <2> QED  BY <1>4, <2>2
<1>6. /\ SubSeq(wire, 1, n) \in Seq(Bytes) /\ Len(SubSeq(wire, 1, n)) = n
      /\ \A k \in 1..n : SubSeq(wire, 1, n)[k] = wire[k]
      /\ wire' \in Seq(Bytes) /\ Len(wire') = w - n
      /\ \A k \in 1..(w - n) : wire'[k] = wire[n + k]
  <2>1. n \in 0..Len(wire) /\ wire \in Seq(Bytes) /\ wire' = SubSeq(wire, n + 1, Len(wire))
    BY <1>2, <1>3, <1>5
  <2>2. /\ SubSeq(wire, 1, n) \in Seq(Bytes) /\ Len(SubSeq(wire, 1, n)) = n
        /\ \A k \in 1..n : SubSeq(wire, 1, n)[k] = wire[k]
        /\ SubSeq(wire, n + 1, Len(wire)) \in Seq(Bytes)
        /\ Len(SubSeq(wire, n + 1, Len(wire))) = Len(wire) - n
        /\ \A k \in 1..(Len(wire) - n) : SubSeq(wire, n + 1, Len(wire))[k] = wire[n + k]
    BY <2>1, Cut
  <2> QED  BY <2>1, <2>2
<1>7. /\ buffer' \in Seq(Bytes) /\ Len(buffer') = b + n
      /\ \A k \in 1..b : buffer'[k] = buffer[k]
      /\ \A k \in 1..n : buffer'[b + k] = wire[k]
  <2> DEFINE t == SubSeq(wire, 1, n)
  <2>1. /\ t \in Seq(Bytes) /\ Len(t) = n /\ buffer \in Seq(Bytes) /\ buffer' = buffer \o t
        /\ \A k \in 1..n : t[k] = wire[k]
    BY <1>2, <1>3, <1>6
  <2> HIDE DEF t
  <2>2. /\ buffer \o t \in Seq(Bytes) /\ Len(buffer \o t) = Len(buffer) + Len(t)
        /\ \A i \in 1..Len(buffer) : (buffer \o t)[i] = buffer[i]
        /\ \A i \in 1..Len(t) : (buffer \o t)[Len(buffer) + i] = t[i]
    <3>1. buffer \in Seq(Bytes) /\ t \in Seq(Bytes)
      BY <2>1
    <3> QED  BY ONLY <3>1, Glue
  <2> QED  BY <2>1, <2>2
<1>8. Copied(base) = base + b + w /\ Copied(base)' = base + (b + n) + (w - n)
  BY <1>6, <1>7 DEF Copied
<1>n. base \in Nat /\ b \in Nat /\ w \in Nat /\ n \in Nat /\ n <= w
  BY <1>3, <1>4, <1>5
<1> HIDE DEF b, w
<1>9. Written(s, all, off, Copied(base), whole)'
  <2>1. Copied(base)' = Copied(base)
    BY <1>n, <1>8
  <2> QED  BY <1>1, <1>2, <2>1, WriterKept
<1>10. \A k \in 1..Len(buffer') : buffer'[k] = s[base + k]
  <2> SUFFICES ASSUME NEW k \in 1..(b + n) PROVE buffer'[k] = s[base + k]
    BY <1>7
  <2>1. CASE k <= b
    <3>1. k \in 1..b
      BY <1>n, <2>1
    <3> QED  BY <1>3, <1>7, <3>1
  <2>2. CASE ~(k <= b)
    <3>1. k - b \in 1..n /\ k - b \in 1..w /\ b + (k - b) = k /\ base + b + (k - b) = base + k
      BY <1>n, <2>2
    <3>2. buffer'[b + (k - b)] = wire[k - b] /\ wire[k - b] = s[base + b + (k - b)]
      BY <1>3, <1>7, <3>1
    <3> QED  BY <3>1, <3>2
  <2> QED  BY <2>1, <2>2
<1>11. \A k \in 1..Len(wire') : wire'[k] = s[base + Len(buffer') + k]
  <2>1. ASSUME NEW k \in 1..(w - n) PROVE wire'[k] = s[base + (b + n) + k]
    <3>1. n + k \in 1..w /\ base + b + (n + k) = base + (b + n) + k
      BY <1>n
    <3>2. wire'[k] = wire[n + k] /\ wire[n + k] = s[base + b + (n + k)]
      BY <1>3, <1>6, <3>1
    <3> QED  BY <3>1, <3>2
  <2> QED  BY <1>6, <1>7, <2>1
<1>12. /\ bufferSize' \in Nat \ {0} /\ Len(buffer') <= bufferSize'
       /\ start' \in 1..(Len(buffer') + 1) /\ start' = start /\ messages' = messages
       /\ Len(wire') <= Capacity
  <2>1. Len(buffer') <= Grown
    BY <1>4, <1>5, <1>7
  <2>2. start \in 1..(Len(buffer') + 1)
    BY <1>3, <1>4, <1>5, <1>7
  <2>3. Len(wire') <= Capacity
    BY <1>3, <1>4, <1>5, <1>6
  <2> QED  BY <1>2, <1>4, <2>1, <2>2, <2>3
<1>13. CASE n > 0 /\ pc' = "scan" /\ UNCHANGED received
  <2>1. Gathered(s, all, off, base, h, g)'
    BY <1>3, <1>6, <1>7, <1>10, <1>11, <1>12, <1>13 DEF Gathered
  <2>2. Frame(s, all, off, whole, base, h, g)'
    BY <1>1, <1>9, <2>1 DEF Frame, Stream
  <2> QED  BY <1>13, <2>2
<1>14. CASE n = 0 /\ Return(TRUE)
  <2>1. w = 0 /\ wire = <<>> /\ ~open
    <3>1. w = 0
      BY <1>5, <1>14
    <3>2. wire = <<>>
      BY <1>3, <3>1, EmptySeq DEF w
    <3> QED  BY <1>2, <1>4, <3>1, <3>2
  <2>2. g = whole
    BY <1>2, <1>3, <2>1, NothingLeft
  <2>3. pc' = "ended" /\ received' = SubSeq(all, 1, g)
    BY <1>2, <1>14, Together DEF Return
  <2>4. g \in 0..Len(all) /\ g \in g..Len(all)
    BY <1>3
  <2>5. Gathered(s, all, off, base, g, g)'
    BY <1>3, <1>6, <1>7, <1>10, <1>11, <1>12, <2>3, <2>4 DEF Gathered
  <2>6. Frame(s, all, off, whole, base, g, g)'
    BY <1>1, <1>9, <2>5 DEF Frame, Stream
  <2> QED  BY <2>1, <2>2, <2>3, <2>6
<1> QED  BY <1>2, <1>13, <1>14

\* The first delimiter found is the end of the next message.
LEMMA NextEnd ==
    ASSUME NEW s, NEW all, NEW off, NEW whole, NEW base, NEW h, NEW g,
           Frame(s, all, off, whole, base, h, g),
           pc = "scan", Delimiters # {}
    PROVE  /\ g \in 0..(Len(all) - 1)
           /\ Min(Delimiters) \in Delimiters
           /\ base + Min(Delimiters) + 1 = off[g + 1]
<1> DEFINE n == Len(buffer)
           o == off[g + 1]
           x == o - 1 - base
<1>1. /\ Stream(s, all, off) /\ Written(s, all, off, Copied(base), whole)
      /\ Gathered(s, all, off, base, h, g)
  BY DEF Frame
<1>2. /\ base \in Nat /\ h \in 0..Len(all) /\ g \in h..Len(all)
      /\ buffer \in Seq(Bytes) /\ wire \in Seq(Bytes)
      /\ \A k \in 1..n : buffer[k] = s[base + k]
      /\ start \in 1..(n + 1) /\ base + start - 1 = off[g]
  BY <1>1 DEF Gathered
<1>3. n \in Nat /\ Len(wire) \in Nat /\ Len(all) \in Nat /\ Len(s) \in Nat
  BY <1>1, <1>2, Offsets
<1>4. base + n <= Len(s)
  <2>1. base + n + Len(wire) \in 0..Len(s)
    BY <1>1 DEF Written, Copied
  <2> HIDE DEF n
  <2> QED  BY <1>2, <1>3, <2>1
<1>5. ASSUME NEW i \in Delimiters
      PROVE  /\ i \in start..(n - 1) /\ i \in Nat /\ base + i \in Nat
             /\ s[base + i] = "n" /\ s[base + i + 1] = "n"
             /\ off[g] < base + i /\ base + i + 1 <= Len(s)
  <2>1. i \in start..(n - 1) /\ buffer[i] = "n" /\ buffer[i + 1] = "n"
    BY DEF Delimiters
  <2> HIDE DEF n
  <2>2. i \in 1..n /\ i + 1 \in 1..n /\ base + (i + 1) = base + i + 1 /\ i \in Nat /\ base + i \in Nat
    BY <1>2, <1>3, <2>1
  <2>3. off[g] < base + i /\ base + i + 1 <= Len(s)
    BY <1>2, <1>3, <1>4, <2>1
  <2>4. s[base + i] = "n" /\ s[base + (i + 1)] = "n"
    BY <1>2, <2>1, <2>2
  <2> QED  BY <2>1, <2>2, <2>3, <2>4
<1>6. g \in 0..Len(all) /\ off[g] \in Nat
  <2>1. g \in 0..Len(all)
    BY <1>2, <1>3
  <2> QED  BY <1>1, <2>1, Offsets
<1>7. g \in 0..(Len(all) - 1)
  <2>1. PICK i \in Delimiters : TRUE
    OBVIOUS
  <2>2. off[g] < Len(s)
    BY <1>3, <1>5, <1>6
  <2>3. off[Len(all)] = Len(s)
    BY <1>1 DEF Stream
  <2>4. g # Len(all)
    BY <1>3, <1>6, <2>2, <2>3
  <2> QED  BY <1>3, <1>6, <2>4
<1>8. /\ o \in Nat /\ off[g] + 2 <= o /\ s[o - 1] = "n" /\ s[o] = "n"
  <2>1. g + 1 \in 1..Len(all) /\ g + 1 \in 0..Len(all) /\ (g + 1) - 1 = g
    BY <1>3, <1>7
  <2>2. \A k \in 1..Len(all) :
           off[k] = off[k - 1] + Len(all[k]) + 2 /\ s[off[k] - 1] = "n" /\ s[off[k]] = "n"
    BY <1>1, Zenon DEF Stream
  <2>3. Len(all[g + 1]) \in Nat /\ o \in Nat
    BY <1>1, <2>1, Offsets DEF Stream
  <2>4. o = off[g] + Len(all[g + 1]) + 2 /\ s[o - 1] = "n" /\ s[o] = "n"
    BY <2>1, <2>2
  <2> QED  BY <1>6, <2>3, <2>4
<1> HIDE DEF o, n
<1>9. ASSUME NEW i \in Delimiters
      PROVE  x \in Delimiters /\ x <= i
  <2>1. CASE base + i + 1 <= o
    <3> DEFINE p == base + i
    <3>1. /\ p \in Nat /\ off[g] < p /\ p + 1 <= off[g + 1] /\ s[p] = "n" /\ s[p + 1] = "n"
      BY <1>5, <2>1 DEF o
    <3> HIDE DEF p
    <3>2. p + 1 = o
      BY <1>1, <1>7, <3>1, FirstDelimiter DEF o
    <3>3. base \in Nat /\ i \in Nat /\ base + i + 1 = o
      BY <1>2, <1>5, <3>2 DEF p
    <3>4. x = i
      BY <3>3
    <3> QED  BY <3>3, <3>4
  <2>2. CASE ~(base + i + 1 <= o)
    <3>1. /\ x \in start..(n - 1) /\ x <= i /\ x \in 1..n /\ x + 1 \in 1..n
          /\ base + x = o - 1 /\ base + (x + 1) = o
      <4>1. /\ base \in Nat /\ n \in Nat /\ start \in 1..(n + 1) /\ base + start - 1 = off[g]
            /\ off[g] \in Nat /\ o \in Nat /\ off[g] + 2 <= o
            /\ i \in start..(n - 1) /\ base + i \in Nat
        BY <1>2, <1>3, <1>5, <1>6, <1>8
      <4>2. o <= base + i /\ i \in Nat /\ start \in Nat
        BY <4>1, <2>2
      <4> QED  BY <4>1, <4>2
    <3> HIDE DEF x
    <3>2. buffer[x] = "n" /\ buffer[x + 1] = "n"
      BY <1>2, <1>8, <3>1
    <3>3. x \in Delimiters
      BY <3>1, <3>2 DEF Delimiters, n
    <3> QED  BY <3>1, <3>3
  <2> QED  BY <2>1, <2>2
<1>10. x \in Delimiters /\ \A i \in Delimiters : x <= i /\ i \in Nat
  BY <1>5, <1>9
<1> HIDE DEF x
<1>11. Min(Delimiters) = x
  <2>1. Min(Delimiters) \in Delimiters /\ \A i \in Delimiters : Min(Delimiters) <= i
    BY <1>10 DEF Min
  <2> QED  BY <1>10, <2>1
<1>12. base + x + 1 = o
  BY <1>2, <1>8 DEF x
<1> QED  BY <1>7, <1>10, <1>11, <1>12 DEF o

LEMMA GatherStep ==
    ASSUME NEW s, NEW all, NEW off, NEW whole, NEW base, NEW h, NEW g,
           Frame(s, all, off, whole, base, h, g), Gather
    PROVE  Frame(s, all, off, whole, base, h, g + 1)'
<1> DEFINE n == Len(buffer)
<1> PICK loc : loc = Min(Delimiters)
  OBVIOUS
<1>1. /\ Stream(s, all, off) /\ Written(s, all, off, Copied(base), whole)
      /\ Gathered(s, all, off, base, h, g)
  BY DEF Frame
<1>2. /\ pc = "scan" /\ Delimiters # {}
      /\ messages' = Append(messages, SubSeq(buffer, start, loc - 1))
      /\ start' = loc + 2
      /\ UNCHANGED writer /\ UNCHANGED <<wire, pc, bufferSize, buffer, received>>
  BY DEF Gather
<1>3. /\ g \in 0..(Len(all) - 1) /\ loc \in Delimiters /\ base + loc + 1 = off[g + 1]
  BY <1>2, NextEnd
<1>4. /\ base \in Nat /\ h \in 0..Len(all) /\ g \in h..Len(all) /\ buffer \in Seq(Bytes)
      /\ \A k \in 1..n : buffer[k] = s[base + k]
      /\ start \in 1..(n + 1) /\ base + start - 1 = off[g] /\ all \in Seq(Bodies)
      /\ messages = SubSeq(all, h + 1, g) /\ messages \in Seq(Bodies)
  BY <1>1, <1>2 DEF Gathered, Stream
<1>5. loc \in start..(n - 1) /\ n \in Nat /\ Len(all) \in Nat
  BY <1>3, <1>4 DEF Delimiters
<1>6. /\ off[g] \in Nat /\ off[g + 1] = off[g] + Len(all[g + 1]) + 2
      /\ \A k \in 1..Len(all[g + 1]) : s[off[g] + k] = all[g + 1][k]
      /\ all[g + 1] \in Bodies /\ g + 1 \in h..Len(all)
  <2>1. g + 1 \in 1..Len(all) /\ g \in 0..Len(all) /\ (g + 1) - 1 = g /\ g + 1 \in h..Len(all)
    BY <1>3, <1>4, <1>5
  <2>2. \A i \in 1..Len(all) :
           /\ off[i] = off[i - 1] + Len(all[i]) + 2
           /\ \A k \in 1..Len(all[i]) : s[off[i - 1] + k] = all[i][k]
    BY <1>1, Zenon DEF Stream
  <2>3. /\ off[g + 1] = off[g] + Len(all[g + 1]) + 2
        /\ \A k \in 1..Len(all[g + 1]) : s[off[g] + k] = all[g + 1][k]
    BY <2>1, <2>2
  <2>4. off[g] \in Nat
    BY <1>1, <2>1, Offsets
  <2>5. all[g + 1] \in Bodies
    BY <1>4, <2>1, ElementOfSeq
  <2> QED  BY <2>1, <2>3, <2>4, <2>5
<1>7. SubSeq(buffer, start, loc - 1) = all[g + 1]
  <2> DEFINE m == Len(all[g + 1])
             b == SubSeq(buffer, start, loc - 1)
  <2>1. all[g + 1] \in Seq(Bytes) /\ m \in Nat
    BY <1>6, BodyBytes
  <2>2. /\ start \in Int /\ loc - 1 \in Int /\ m = (loc - 1) - start + 1
        /\ start + m = loc /\ m <= n /\ start + m - 1 <= n /\ start >= 1
    <3> HIDE DEF n, m
    <3>1. m \in Nat /\ base + loc + 1 = off[g] + m + 2
      BY <1>3, <1>6, <2>1 DEF m
    <3>2. /\ base \in Nat /\ n \in Nat /\ start \in 1..(n + 1) /\ base + start - 1 = off[g]
          /\ loc \in start..(n - 1) /\ off[g] \in Nat
      BY <1>4, <1>5, <1>6
    <3> QED  BY <3>1, <3>2
  <2>3. \A i \in start..(loc - 1) : buffer[i] \in Bytes
    <3>1. \A i \in start..(loc - 1) : i \in 1..n
      <4> HIDE DEF n
      <4> QED  BY <1>4, <1>5
    <3> QED  BY <1>4, <3>1
  <2>4. /\ b \in Seq(Bytes)
        /\ Len(b) = IF start <= loc - 1 THEN (loc - 1) - start + 1 ELSE 0
        /\ \A i \in 1..((loc - 1) - start + 1) : b[i] = buffer[start + i - 1]
    BY <2>2, <2>3, SubSeqProperties
  <2>5. Len(b) = m /\ \A i \in 1..m : b[i] = buffer[start + i - 1]
    <3> HIDE DEF b, m
    <3> QED  BY <2>1, <2>2, <2>4
  <2>6. ASSUME NEW i \in 1..m PROVE b[i] = all[g + 1][i]
    <3>1. start + i - 1 \in 1..n /\ base + (start + i - 1) = off[g] + i
      <4> HIDE DEF n, m
      <4>1. /\ base \in Nat /\ n \in Nat /\ start \in 1..(n + 1) /\ base + start - 1 = off[g]
            /\ off[g] \in Nat /\ m \in Nat /\ start + m - 1 <= n
        BY <1>4, <1>5, <1>6, <2>1, <2>2
      <4> QED  BY <4>1
    <3>2. buffer[start + i - 1] = s[off[g] + i]
      BY <1>4, <3>1
    <3> QED  BY <1>6, <2>5, <3>2
  <2> HIDE DEF b
  <2>7. b = all[g + 1]
    BY <2>1, <2>4, <2>5, <2>6, SeqEqual
  <2> QED  BY <2>7 DEF b
<1>8. messages' = SubSeq(all, h + 1, g + 1) /\ messages' \in Seq(Bodies)
  <2>1. g \in h..(Len(all) - 1)
    BY <1>3, <1>4, <1>5
  <2>2. SubSeq(all, h + 1, g + 1) = Append(SubSeq(all, h + 1, g), all[g + 1])
    BY <1>4, <2>1, OneMore
  <2>3. messages' = Append(messages, all[g + 1])
    BY <1>2, <1>7
  <2>4. messages \in Seq(Bodies) /\ all[g + 1] \in Bodies /\ messages = SubSeq(all, h + 1, g)
    BY <1>4, <1>6
  <2>5. Append(messages, all[g + 1]) \in Seq(Bodies)
    BY <2>4, AppendProperties
  <2> QED  BY <2>2, <2>3, <2>4, <2>5
<1>9. start' \in 1..(n + 1) /\ base + start' - 1 = off[g + 1]
  <2> HIDE DEF n
  <2>1. start' = loc + 2 /\ base \in Nat /\ n \in Nat /\ start \in 1..(n + 1)
        /\ loc \in start..(n - 1)
    BY <1>2, <1>4, <1>5
  <2>2. base + loc + 1 = off[g + 1]
    BY <1>3
  <2>3. start \in Nat /\ loc \in Nat
    BY <2>1
  <2> QED  BY <2>1, <2>2, <2>3
<1>10. Copied(base)' = Copied(base)
  BY <1>2 DEF Copied
<1>11. Gathered(s, all, off, base, h, g + 1)'
  BY <1>1, <1>2, <1>6, <1>8, <1>9 DEF Gathered
<1> QED  BY <1>1, <1>2, <1>10, <1>11, WriterKept DEF Frame, Stream

LEMMA ScannedStep ==
    ASSUME NEW s, NEW all, NEW off, NEW whole, NEW base, NEW h, NEW g,
           Frame(s, all, off, whole, base, h, g), Scanned
    PROVE  \/ /\ Frame(s, all, off, whole, base, h, g)'
              /\ pc' = "read" /\ UNCHANGED received
           \/ /\ Frame(s, all, off, whole, base, g, g)'
              /\ pc' = "idle" /\ received' = SubSeq(all, 1, g) /\ h <= g /\ g <= whole
<1>1. /\ Stream(s, all, off) /\ Written(s, all, off, Copied(base), whole)
      /\ Gathered(s, all, off, base, h, g)
  BY DEF Frame
<1>2. /\ pc = "scan" /\ Delimiters = {}
      /\ IF start = Len(buffer) + 1 THEN Return(FALSE) ELSE pc' = "read" /\ UNCHANGED received
      /\ UNCHANGED writer /\ UNCHANGED <<wire, bufferSize, buffer, start, messages>>
  BY DEF Scanned
<1>3. Copied(base)' = Copied(base) /\ Delimiters' = {}
  BY <1>2 DEF Copied, Delimiters
<1>4. Written(s, all, off, Copied(base), whole)'
  BY <1>1, <1>2, <1>3, WriterKept
<1>5. CASE start = Len(buffer) + 1
  <2>1. pc' = "idle" /\ received' = SubSeq(all, 1, g)
    BY <1>2, <1>5, Together DEF Return
  <2>2. h <= g /\ g <= whole /\ g \in 0..Len(all) /\ g \in g..Len(all)
    BY <1>1, <1>2, NothingLeft DEF Gathered
  <2>3. base + Len(buffer) = off[g]
    <3>1. /\ base \in Nat /\ start = Len(buffer) + 1 /\ base + start - 1 = off[g]
          /\ Len(buffer) \in Nat
      BY <1>1, <1>2, <1>5 DEF Gathered
    <3> QED  BY <3>1
  <2>4. Gathered(s, all, off, base, g, g)'
    BY <1>1, <1>2, <2>1, <2>2, <2>3 DEF Gathered
  <2>5. Frame(s, all, off, whole, base, g, g)'
    BY <1>1, <1>4, <2>4 DEF Frame, Stream
  <2> QED  BY <2>1, <2>2, <2>5
<1>6. CASE start # Len(buffer) + 1
  <2>1. pc' = "read" /\ UNCHANGED received
    BY <1>2, <1>6
  <2>2. Gathered(s, all, off, base, h, g)'
    BY <1>1, <1>2, <1>3, <2>1 DEF Gathered
  <2>3. Frame(s, all, off, whole, base, h, g)'
    BY <1>1, <1>4, <2>2 DEF Frame, Stream
  <2> QED  BY <2>1, <2>3
<1> QED  BY <1>5, <1>6

-----------------------------------------------------------------------------
(***************************************************************************)
(* The invariant.                                                          *)
(***************************************************************************)

LEMMA InitInv == Init => Inv
<1> SUFFICES ASSUME Init PROVE Inv
  OBVIOUS
<1> DEFINE off == [i \in 0..0 |-> 0]
<1>1. /\ Len(<<>>) = 0 /\ <<>> \in Seq(Bodies) /\ <<>> \in Seq(Bytes)
  OBVIOUS
<1>2. /\ written = <<>> /\ data = <<>> /\ wire = <<>> /\ open = TRUE
      /\ pc = "idle" /\ bufferSize = BufferSize /\ buffer = <<>>
      /\ start = 1 /\ messages = <<>> /\ received = <<>>
  BY DEF Init
<1>3. off \in [0..0 -> Nat] /\ off[0] = 0
  OBVIOUS
<1> HIDE DEF off
<1>4. Stream(<<>>, <<>>, off)
  BY <1>1, <1>3 DEF Stream
<1>5. Copied(0) = 0
  BY <1>1, <1>2 DEF Copied
<1>6. Written(<<>>, <<>>, off, Copied(0), 0)
  BY <1>1, <1>2, <1>3, <1>5 DEF Written
<1>7. SubSeq(<<>>, 1, 0) = <<>>
  BY SubSeqEmpty
<1>8. BufferSize \in Nat \ {0} /\ Capacity \in Nat
  BY FramingAssumption
<1>9. Gathered(<<>>, <<>>, off, 0, 0, 0)
  BY <1>1, <1>2, <1>3, <1>7, <1>8 DEF Gathered
<1>10. Frame(<<>>, <<>>, off, 0, 0, 0, 0)
  BY <1>4, <1>6, <1>9 DEF Frame
<1> QED  BY <1>10 DEF Inv

LEMMA StutterStep ==
    ASSUME NEW s, NEW all, NEW off, NEW whole, NEW base, NEW h, NEW g,
           Frame(s, all, off, whole, base, h, g), UNCHANGED vars
    PROVE  Frame(s, all, off, whole, base, h, g)'
<1>1. /\ Stream(s, all, off) /\ Written(s, all, off, Copied(base), whole)
      /\ Gathered(s, all, off, base, h, g)
  BY DEF Frame
<1>2. UNCHANGED <<written, data, wire, open, pc, bufferSize, buffer, start, messages, received>>
  BY DEF vars
<1>3. Copied(base)' = Copied(base) /\ Delimiters' = Delimiters
  BY <1>2 DEF Copied, Delimiters
<1>4. Written(s, all, off, Copied(base), whole)'
  BY <1>1, <1>2, <1>3 DEF Written
<1>5. Gathered(s, all, off, base, h, g)'
  BY <1>1, <1>2, <1>3 DEF Gathered
<1> QED  BY <1>1, <1>4, <1>5 DEF Frame, Stream

LEMMA NextInv == Inv /\ [Next]_vars => Inv'
<1> SUFFICES ASSUME Inv, [Next]_vars PROVE Inv'
  OBVIOUS
<1>1. PICK s, all, off, whole, base, h, g : Frame(s, all, off, whole, base, h, g)
  BY DEF Inv
<1>2. ASSUME NEW body \in Bodies, Write(body) PROVE Inv'
  BY <1>1, <1>2, WriteStep DEF Inv
<1>3. CASE Copy
  BY <1>1, <1>3, CopyStep DEF Inv
<1>4. CASE Close
  BY <1>1, <1>4, CloseStep DEF Inv
<1>5. CASE Call
  BY <1>1, <1>5, CallStep DEF Inv
<1>6. CASE Read
  <2>1. Frame(s, all, off, whole, base, h, g)' \/ Frame(s, all, off, whole, base, g, g)'
    BY <1>1, <1>6, ReadStep
  <2> QED  BY <2>1 DEF Inv
<1>7. CASE Gather
  BY <1>1, <1>7, GatherStep DEF Inv
<1>8. CASE Scanned
  <2>1. Frame(s, all, off, whole, base, h, g)' \/ Frame(s, all, off, whole, base, g, g)'
    BY <1>1, <1>8, ScannedStep
  <2> QED  BY <2>1 DEF Inv
<1>9. CASE UNCHANGED vars
  BY <1>1, <1>9, StutterStep DEF Inv
<1> QED  BY <1>2, <1>3, <1>4, <1>5, <1>6, <1>7, <1>8, <1>9 DEF Next, Reader

LEMMA InvImpliesTypeOK == Inv => TypeOK
<1> SUFFICES ASSUME Inv PROVE TypeOK
  OBVIOUS
<1>1. PICK s, all, off, whole, base, h, g : Frame(s, all, off, whole, base, h, g)
  BY DEF Inv
<1>2. /\ all \in Seq(Bodies) /\ h \in 0..Len(all) /\ received = SubSeq(all, 1, h)
      /\ Len(wire) <= Capacity /\ Len(buffer) <= bufferSize
      /\ start \in 1..(Len(buffer) + 1) /\ messages \in Seq(Bodies)
      /\ pc \in {"idle", "read", "scan", "ended"}
  BY <1>1 DEF Frame, Stream, Gathered
<1>3. received \in Seq(Bodies)
  BY <1>2, Cut
<1> QED  BY <1>2, <1>3 DEF TypeOK

LEMMA Invariant == Spec => []Inv
BY InitInv, NextInv, PTL DEF Spec

\* No read of commonRead goes beyond its buffer, and what it gathers are texts,
\* for every size of the buffer and of the pipe and all texts.
THEOREM FramingTypes == Spec => []TypeOK
BY Invariant, InvImpliesTypeOK, PTL

-----------------------------------------------------------------------------
(***************************************************************************)
(* The steps of Channel.                                                   *)
(***************************************************************************)

ChannelVars == <<Accepted, received, open, pc = "ended">>

LEMMA ChannelInit == Init => Promise!Init
BY DEF Init, Promise!Init, Accepted

LEMMA WriteIsStutter ==
    ASSUME Inv, NEW body \in Bodies, Write(body)
    PROVE  UNCHANGED ChannelVars
<1>1. PICK s, all, off, whole, base, h, g : Frame(s, all, off, whole, base, h, g)
  BY DEF Inv
<1>2. open /\ data = <<>> /\ written' = Append(written, body) /\ data' = body \o <<"n", "n">>
      /\ UNCHANGED <<received, open, pc>>
  BY DEF Write
<1>3. written \in Seq(Bodies)
  BY <1>1, <1>2 DEF Frame, Written, Stream
<1>4. data' # <<>>
  BY <1>2, BodyBytes
<1>5. /\ Append(written, body) \in Seq(Bodies) /\ Len(Append(written, body)) - 1 = Len(written)
  BY <1>3, AppendProperties
<1>6. SubSeq(Append(written, body), 1, Len(written)) = written
  <2>1. 1 \in 1..(Len(written) + 1) /\ Len(written) \in (1 - 1)..Len(written)
    BY <1>3
  <2>2. SubSeq(Append(written, body), 1, Len(written)) = SubSeq(written, 1, Len(written))
    BY <1>3, <2>1, Prefix
  <2> QED  BY <1>3, <2>2, SubSeqFull
<1>7. Accepted' = written /\ Accepted = written
  BY <1>2, <1>4, <1>5, <1>6 DEF Accepted
<1> QED  BY <1>2, <1>7 DEF ChannelVars

LEMMA CopyIsAccept ==
    ASSUME Inv, Copy
    PROVE  UNCHANGED ChannelVars \/ \E body \in Bodies : Promise!Accept(body)
<1>1. PICK s, all, off, whole, base, h, g : Frame(s, all, off, whole, base, h, g)
  BY DEF Inv
<1>2. UNCHANGED <<written, open, received, pc>>
  BY DEF Copy
<1>3. data # <<>>
  <2>1. PICK k \in 1..Min({Len(data), Capacity - Len(wire)}) : TRUE
    BY DEF Copy
  <2>2. wire \in Seq(Bytes) /\ data \in Seq(Bytes) \cup {<<>>} /\ Capacity \in Nat
    BY <1>1, FramingAssumption DEF Frame, Gathered, Written
  <2>3. Len(data) \in Int /\ Capacity - Len(wire) \in Int
    BY <2>2
  <2>4. Min({Len(data), Capacity - Len(wire)}) <= Len(data)
        /\ Min({Len(data), Capacity - Len(wire)}) \in Int
    BY <2>3, Least
  <2>5. Len(data) # 0
    BY <2>1, <2>3, <2>4
  <2> QED  BY <2>5
<1>4. open /\ written = all /\ Len(all) \in Nat \ {0} /\ all \in Seq(Bodies)
  BY <1>1, <1>3, OneUnfinished DEF Frame, Stream
<1>5. CASE data' # <<>>
  BY <1>2, <1>3, <1>5 DEF Accepted, ChannelVars
<1>6. CASE data' = <<>>
  <2> DEFINE n == Len(all)
             body == all[n]
  <2>1. Accepted' = all /\ Accepted = SubSeq(all, 1, n - 1)
    BY <1>2, <1>3, <1>4, <1>6 DEF Accepted
  <2>2. body \in Bodies
    BY <1>4
  <2>3. /\ 0 \in 0..n /\ n - 1 \in 0..(n - 1) /\ 0 + 1 = 1 /\ (n - 1) + 1 = n
    BY <1>4
  <2>4. SubSeq(all, 0 + 1, (n - 1) + 1) = Append(SubSeq(all, 0 + 1, n - 1), all[(n - 1) + 1])
    BY <1>4, <2>3, OneMore
  <2>5. Accepted' = Append(Accepted, body)
    BY <1>4, <2>1, <2>3, <2>4, SubSeqFull
  <2>6. Promise!Accept(body)
    BY <1>2, <1>4, <2>5 DEF Promise!Accept
  <2> QED  BY <2>2, <2>6
<1> QED  BY <1>5, <1>6

LEMMA CloseIsClose ==
    ASSUME Close PROVE Promise!Close
BY DEF Close, Promise!Close, Accepted

LEMMA ReadIsEnd ==
    ASSUME Inv, Read
    PROVE  UNCHANGED ChannelVars \/ Promise!End
<1>1. PICK s, all, off, whole, base, h, g : Frame(s, all, off, whole, base, h, g)
  BY DEF Inv
<1>2. UNCHANGED <<written, data, open>> /\ Accepted' = Accepted /\ pc = "read"
  BY DEF Read, writer, Accepted
<1>3. Accepted = SubSeq(all, 1, whole)
  BY <1>1, AcceptedIsWhole DEF Frame
<1>4. CASE pc' = "scan" /\ UNCHANGED received
  BY <1>2, <1>4 DEF ChannelVars
<1>5. CASE pc' = "ended" /\ ~open /\ g = whole /\ received' = SubSeq(all, 1, g)
  BY <1>2, <1>3, <1>5 DEF Promise!End
<1> QED  BY <1>1, <1>4, <1>5, ReadStep

LEMMA ScannedIsHandOver ==
    ASSUME Inv, Scanned
    PROVE  UNCHANGED ChannelVars \/ Promise!HandOver
<1>1. PICK s, all, off, whole, base, h, g : Frame(s, all, off, whole, base, h, g)
  BY DEF Inv
<1>2. UNCHANGED <<written, data, open>> /\ Accepted' = Accepted /\ pc = "scan"
  BY DEF Scanned, writer, Accepted
<1>3. CASE pc' = "read" /\ UNCHANGED received
  BY <1>2, <1>3 DEF ChannelVars
<1>4. CASE pc' = "idle" /\ received' = SubSeq(all, 1, g) /\ h <= g /\ g <= whole
  <2>1. /\ Accepted = SubSeq(all, 1, whole) /\ Accepted \in Seq(Bodies) /\ Len(Accepted) = whole
    BY <1>1, AcceptedIsWhole DEF Frame
  <2>2. /\ received = SubSeq(all, 1, h) /\ all \in Seq(Bodies) /\ whole \in 0..Len(all)
        /\ h \in 0..Len(all) /\ g \in 0..Len(all) /\ Len(all) \in Nat
    BY <1>1, <1>4 DEF Frame, Stream, Gathered, Written
  <2>3. Len(received) = h
    BY <2>2, Cut
  <2>4. CASE g = h
    BY <1>2, <1>4, <2>2, <2>4 DEF ChannelVars
  <2>5. CASE g # h
    <3>1. /\ g \in (h + 1)..whole /\ 1 \in 1..Len(all) /\ whole \in 1..Len(all)
          /\ 1 \in 1..(whole - 1 + 1) /\ g \in 1..(whole - 1 + 1)
          /\ 1 + 1 - 1 = 1 /\ 1 + g - 1 = g
      BY <1>4, <2>2, <2>5
    <3>2. SubSeq(SubSeq(all, 1, whole), 1, g) = SubSeq(all, 1 + 1 - 1, 1 + g - 1)
      BY <2>2, <3>1, SubSeqOfSubSeq
    <3>3. received' = SubSeq(Accepted, 1, g)
      BY <1>4, <2>1, <3>1, <3>2
    <3>4. g \in (Len(received) + 1)..Len(Accepted)
      BY <2>1, <2>3, <3>1
    <3> QED  BY <1>2, <1>4, <3>3, <3>4 DEF Promise!HandOver
  <2> QED  BY <2>4, <2>5
<1> QED  BY <1>1, <1>3, <1>4, ScannedStep

LEMMA ChannelStep == Inv /\ [Next]_vars => [Promise!Next]_ChannelVars
<1> SUFFICES ASSUME Inv, [Next]_vars PROVE Promise!Next \/ UNCHANGED ChannelVars
  OBVIOUS
<1>1. ASSUME NEW body \in Bodies, Write(body) PROVE UNCHANGED ChannelVars
  BY <1>1, WriteIsStutter
<1>2. CASE Copy
  BY <1>2, CopyIsAccept DEF Promise!Next
<1>3. CASE Close
  BY <1>3, CloseIsClose DEF Promise!Next
<1>4. CASE Call
  BY <1>4 DEF Call, ChannelVars, Accepted, writer
<1>5. CASE Read
  BY <1>5, ReadIsEnd DEF Promise!Next
<1>6. CASE Gather
  BY <1>6 DEF Gather, ChannelVars, Accepted, writer
<1>7. CASE Scanned
  BY <1>7, ScannedIsHandOver DEF Promise!Next
<1>8. CASE UNCHANGED vars
  BY <1>8 DEF vars, ChannelVars, Accepted
<1> QED  BY <1>1, <1>2, <1>3, <1>4, <1>5, <1>6, <1>7, <1>8 DEF Next, Reader

\* For every buffer, pipe and set of texts, and however the bytes are cut, what
\* commonRead hands over is what was written, whole, once and in order, and the
\* end comes after the last whole message.
THEOREM FramingImplementsChannel == Spec => ImplementsChannel
BY Invariant, ChannelInit, ChannelStep, PTL
   DEF Spec, ImplementsChannel, Promise!Spec, ChannelVars
=============================================================================

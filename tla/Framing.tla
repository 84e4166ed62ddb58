------------------------------- MODULE Framing -------------------------------
(***************************************************************************)
(* Communication.cpp on one pipe or connection: messages are written with  *)
(* an empty line at the end of each, the kernel carries bytes in pieces of *)
(* any size, and commonRead puts the messages together again.              *)
(*                                                                         *)
(* All descriptors block, and no signal is handled that returns: write     *)
(* returns when all bytes are copied, or the process dies in it.  A reset  *)
(* (read < 0) is in Session.                                               *)
(***************************************************************************)
EXTENDS Naturals, Sequences, FiniteSetsExt

CONSTANTS
    Bodies,      \* message texts, sequences of "x" and newlines "n"
    BufferSize,  \* the first size of the buffer of commonRead (1024)
    Capacity,    \* bytes that the pipe or the connection holds
    MaxWritten   \* bound: messages written

ASSUME FramingAssumption ==
    /\ BufferSize \in Nat \ {0} /\ Capacity \in Nat \ {0} /\ MaxWritten \in Nat
    \* Texts are lines that are not empty, joined by newlines (TokenMatrix::str).
    /\ \A b \in Bodies :
          /\ b \in Seq({"x", "n"})
          /\ b # <<>> => b[1] # "n" /\ b[Len(b)] # "n"
          /\ \A i \in 1..(Len(b) - 1) : b[i] = "x" \/ b[i + 1] = "x"

VARIABLES
    written,    \* the messages given to commonWrite
    data,       \* the bytes of the last of them that are not copied yet
    wire,       \* the bytes in the pipe or connection
    open,       \* FALSE once the writer has closed its end or died
    pc,         \* the reader: "idle", "read", "scan" or "ended"
    bufferSize, buffer,  \* the size of the buffer, the bytes read into it
    start,      \* where the next message starts in it (currMessageIndex + 1)
    messages,   \* gathered by this call
    received    \* handed over by earlier calls

vars == <<written, data, wire, open, pc, bufferSize, buffer, start, messages, received>>
writer == <<written, data, open>>

Init ==
    /\ written = <<>> /\ data = <<>> /\ wire = <<>> /\ open = TRUE
    /\ pc = "idle" /\ bufferSize = BufferSize /\ buffer = <<>>
    /\ start = 1 /\ messages = <<>> /\ received = <<>>

-----------------------------------------------------------------------------
(***************************************************************************)
(* The writer.                                                             *)
(***************************************************************************)

Write(body) ==
    /\ open /\ data = <<>> /\ Len(written) < MaxWritten
    /\ written' = Append(written, body)
    /\ data' = body \o <<"n", "n">>
    /\ UNCHANGED <<wire, open, pc, bufferSize, buffer, start, messages, received>>

\* The kernel copies as much as it likes of what fits.
Copy ==
    \E k \in 1..Min({Len(data), Capacity - Len(wire)}) :
        /\ wire' = wire \o SubSeq(data, 1, k)
        /\ data' = SubSeq(data, k + 1, Len(data))
        /\ UNCHANGED <<written, open, pc, bufferSize, buffer, start, messages, received>>

\* Also in the middle of a write, when the process dies.
Close ==
    /\ open
    /\ open' = FALSE
    /\ written' = IF data = <<>> THEN written ELSE SubSeq(written, 1, Len(written) - 1)
    /\ data' = <<>>
    /\ UNCHANGED <<wire, pc, bufferSize, buffer, start, messages, received>>

-----------------------------------------------------------------------------
(***************************************************************************)
(* The reader.                                                             *)
(***************************************************************************)

\* commonRead is called when poll reports something.
Call ==
    /\ pc = "idle" /\ (wire # <<>> \/ ~open)
    /\ pc' = "read"
    /\ bufferSize' = BufferSize /\ buffer' = <<>>
    /\ start' = 1 /\ messages' = <<>>
    /\ UNCHANGED <<writer, wire, received>>

\* Mutant: the buffer keeps its size.
NeverGrown == bufferSize

\* A full buffer is doubled before the read.
Grown == IF Len(buffer) = bufferSize THEN 2 * bufferSize ELSE bufferSize

\* Mutant: read is asked to fill the whole buffer again.
RoomOfAll == Grown

Room == Grown - Len(buffer)

Return(last) ==
    /\ received' = received \o messages
    /\ pc' = IF last THEN "ended" ELSE "idle"

\* Without room read returns 0 at once, as at the end.
Read ==
    /\ pc = "read"
    /\ wire # <<>> \/ ~open \/ Room = 0
    /\ bufferSize' = Grown
    /\ LET n == Min({Room, Len(wire)})
       IN  /\ buffer' = buffer \o SubSeq(wire, 1, n)
           /\ wire' = SubSeq(wire, n + 1, Len(wire))
           /\ \/ n > 0 /\ pc' = "scan" /\ UNCHANGED received
              \/ n = 0 /\ Return(TRUE)
    /\ UNCHANGED <<writer, start, messages>>

\* Mutant: a delimiter at the very end is not seen.
DelimitersInside ==
    {i \in start..(Len(buffer) - 2) : buffer[i] = "n" /\ buffer[i + 1] = "n"}

Delimiters ==
    {i \in start..(Len(buffer) - 1) : buffer[i] = "n" /\ buffer[i + 1] = "n"}

Gather ==
    /\ pc = "scan" /\ Delimiters # {}
    /\ LET loc == Min(Delimiters)
       IN  /\ messages' = Append(messages, SubSeq(buffer, start, loc - 1))
           /\ start' = loc + 2
    /\ UNCHANGED <<writer, wire, pc, bufferSize, buffer, received>>

\* At the end of a message the call returns, inside of one it reads on.
Scanned ==
    /\ pc = "scan" /\ Delimiters = {}
    /\ IF start = Len(buffer) + 1 THEN Return(FALSE)
                                  ELSE pc' = "read" /\ UNCHANGED received
    /\ UNCHANGED <<writer, wire, bufferSize, buffer, start, messages>>

Reader == Call \/ Read \/ Gather \/ Scanned

Next ==
    \/ \E body \in Bodies : Write(body)
    \/ Copy
    \/ Close
    \/ Reader

Spec == Init /\ [][Next]_vars
FairSpec == Spec /\ WF_vars(Copy) /\ WF_vars(Reader)

-----------------------------------------------------------------------------
(***************************************************************************)
(* Properties.                                                             *)
(***************************************************************************)

\* The reads of commonRead stay inside its buffer, however the bytes arrive
\* and however often it is doubled (&buffer[bytesRead], Communication.cpp:37).
TypeOK ==
    /\ Len(wire) <= Capacity
    /\ pc \in {"idle", "read", "scan", "ended"}
    /\ Len(buffer) <= bufferSize
    /\ start \in 1..(Len(buffer) + 1)
    /\ messages \in Seq(Bodies) /\ received \in Seq(Bodies)

\* The messages whose last byte is copied.
Accepted == IF data = <<>> THEN written ELSE SubSeq(written, 1, Len(written) - 1)

Promise == INSTANCE Channel WITH accepted <- Accepted, ended <- (pc = "ended")

\* However the bytes are cut into pieces, the reader gets the messages that were
\* written, whole, once and in order; a message that its writer dies in is
\* dropped, and the end is reported with the last whole message, not before.
ImplementsChannel == Promise!Spec

\* A message that is copied completely is handed over, although commonRead goes
\* on reading while the bytes it has end inside a later message, and that
\* message may be longer than the buffer, longer than the pipe, or never end.
HandedOver ==
    \A i \in 1..MaxWritten : Len(Accepted) >= i ~> Len(received) >= i
=============================================================================

-------------------------- MODULE SessionRefinement --------------------------
(***************************************************************************)
(* What SessionService sees of Session.  The answers a shell has not read  *)
(* are on its connection and in the pipe of its thread; none comes after   *)
(* EXITACK, because the loop of the thread ends with it.                   *)
(***************************************************************************)
EXTENDS Session, SequencesExt

UpToExit(s) ==
    LET i == SelectInSeq(s, LAMBDA m : m.type = "EXITACK")
    IN  IF i = 0 THEN s ELSE SubSeq(s, 1, i)

\* The answers without their place among the commands.
Plain(s) == [i \in DOMAIN s |-> [type |-> s[i].type, user |-> s[i].user,
                                 ok |-> s[i].ok]]

Unread == [c \in Clients |-> IF InShell(c)
                             THEN Plain(UpToExit(toClient[c] \o threadPipe[c]))
                             ELSE <<>>]

Service == INSTANCE SessionService WITH
               unread <- Unread,
               present <- {c \in Clients : InShell(c)},
               online <- isOnline

\* The threads, pipes and connections carry out the commands of a client one
\* at a time and in order (mainThread, threadTask): they implement Service.
ImplementsService == Service!Spec
=============================================================================

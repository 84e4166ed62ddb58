--------------------------- MODULE SessionService ---------------------------
(***************************************************************************)
(* What the server promises to a client shell, without sockets, threads    *)
(* and pipes: the commands of a client are carried out one at a time, in   *)
(* the order in which they were typed, each at most once and each as one   *)
(* step on the table of players; the client reads the answers in that      *)
(* order.  EXITACK is the last answer.                                     *)
(***************************************************************************)
EXTENDS Naturals, Sequences

CONSTANTS Clients, Users, Accounts, NoUser

VARIABLES
    asked,    \* the commands each client has sent
    served,   \* how many of them have been carried out
    unread,   \* the answers the client has not read yet
    present,  \* the clients that are running
    online    \* the players that are logged in

vars == <<asked, served, unread, present, online>>

Init ==
    /\ asked = [c \in Clients |-> <<>>]
    /\ served = [c \in Clients |-> 0]
    /\ unread = [c \in Clients |-> <<>>]
    /\ present = {}
    /\ online = {}

\* A client runs once.
Open(c) ==
    /\ c \notin present /\ asked[c] = <<>>
    /\ present' = present \cup {c}
    /\ UNCHANGED <<asked, served, unread, online>>

Ask(c) ==
    /\ c \in present
    /\ \E type \in {"LOGIN", "LOGOUT", "LIST", "EXIT"}, u \in Users \cup {NoUser},
          right \in BOOLEAN :
          asked' = [asked EXCEPT
                      ![c] = Append(@, [type |-> type, user |-> u, right |-> right])]
    /\ UNCHANGED <<served, unread, present, online>>

Read(c) ==
    /\ c \in present
    /\ unread[c] # <<>>
    /\ unread' = [unread EXCEPT ![c] = Tail(@)]
    /\ UNCHANGED <<asked, served, present, online>>

\* The client exits or dies.
Leave(c) ==
    /\ c \in present
    /\ present' = present \ {c}
    /\ unread' = [unread EXCEPT ![c] = <<>>]
    /\ UNCHANGED <<asked, served, online>>

\* An answer reaches a running client that has not been let go.
Answer(c, type, u, ok) ==
    unread' = IF /\ c \in present
                 /\ \A i \in 1..Len(unread[c]) : unread[c][i].type # "EXITACK"
              THEN [unread EXCEPT
                      ![c] = Append(@, [type |-> type, user |-> u, ok |-> ok])]
              ELSE unread

Serve(c) ==
    LET cmd == asked[c][served[c] + 1]
        ok  == cmd.right /\ cmd.user \in Accounts \ online
    IN  /\ served[c] < Len(asked[c])
        /\ served' = [served EXCEPT ![c] = @ + 1]
        /\ \/ /\ cmd.type = "LOGIN"
              /\ online' = IF ok THEN online \cup {cmd.user} ELSE online
              /\ Answer(c, "LOGINACK", cmd.user, ok)
           \/ /\ cmd.type = "LOGOUT"
              /\ \E u \in Accounts : /\ online' = online \ {u}
                                    /\ Answer(c, "LOGOUTACK", u, TRUE)
           \/ /\ cmd.type = "LIST"
              /\ UNCHANGED online
              /\ Answer(c, "LIST", NoUser, TRUE)
           \/ /\ cmd.type = "EXIT"
              /\ UNCHANGED online
              /\ Answer(c, "EXITACK", NoUser, TRUE)
        /\ UNCHANGED <<asked, present>>

\* A session ends without a command of its client.
Evict ==
    /\ \E u \in online : online' = online \ {u}
    /\ UNCHANGED <<asked, served, unread, present>>

Next ==
    \/ \E c \in Clients : Open(c) \/ Ask(c) \/ Read(c) \/ Leave(c) \/ Serve(c)
    \/ Evict

Spec == Init /\ [][Next]_vars
=============================================================================

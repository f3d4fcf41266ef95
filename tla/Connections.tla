---------------------------- MODULE Connections ----------------------------
(***************************************************************************)
(* What a server built on TcpServer promises of its connections, with no   *)
(* descriptors, batches, buffers or handlers: each is opened once, in the  *)
(* order of its number; replies are owed to its peer until the kernel has  *)
(* taken them; it may be asked to close, and it is closed exactly once,    *)
(* when nothing is owed any more.                                          *)
(***************************************************************************)
EXTENDS Integers

CONSTANT Conn  \* the connections: integers

VARIABLES state,  \* "none", then "open", perhaps "closing", then "closed"
          owed    \* replies accepted from the handlers and not yet delivered

connVars == <<state, owed>>

Init ==
  /\ state = [c \in Conn |-> "none"]
  /\ owed = [c \in Conn |-> 0]

Up(c) == state[c] \in {"open", "closing"}

Open(c) ==
  /\ state[c] = "none"
  /\ \A d \in Conn : d < c => state[d] # "none"
  /\ state' = [state EXCEPT ![c] = "open"]
  /\ UNCHANGED owed

Reply(c) ==
  /\ Up(c)
  /\ owed' = [owed EXCEPT ![c] = @ + 1]
  /\ UNCHANGED state

AskClose(c) ==
  /\ state[c] = "open" /\ owed[c] > 0
  /\ state' = [state EXCEPT ![c] = "closing"]
  /\ UNCHANGED owed

\* The last reply: it is accepted and the close is asked for in one call.
ReplyAndAskClose(c) ==
  /\ Up(c)
  /\ owed' = [owed EXCEPT ![c] = @ + 1]
  /\ state' = [state EXCEPT ![c] = "closing"]

\* Some replies are delivered; the last one to a connection asked to close
\* closes it.
Deliver(c) ==
  /\ Up(c) /\ owed[c] > 0
  /\ \E n \in 0 .. owed[c] - 1 :
       /\ owed' = [owed EXCEPT ![c] = n]
       /\ n = 0 => state[c] = "open"
  /\ UNCHANGED state

DeliverLast(c) ==
  /\ state[c] = "closing" /\ owed[c] > 0
  /\ owed' = [owed EXCEPT ![c] = 0]
  /\ state' = [state EXCEPT ![c] = "closed"]

Close(c) ==
  /\ state[c] = "open" /\ owed[c] = 0
  /\ state' = [state EXCEPT ![c] = "closed"]
  /\ UNCHANGED owed

Next ==
  \E c \in Conn :
    \/ Open(c) \/ Reply(c) \/ AskClose(c) \/ ReplyAndAskClose(c)
    \/ Deliver(c) \/ DeliverLast(c) \/ Close(c)

Spec == Init /\ [][Next]_connVars
=============================================================================

------------------------------ MODULE Sockets ------------------------------
(***************************************************************************)
(* The TCP connections of the listening socket as the server's system      *)
(* calls see them, and what the remote peers do to them.  None of this is  *)
(* code of the repository except Socket::recv; it is modelled from how     *)
(* net/socket.cpp and server/handles.cpp use accept, recv and send.        *)
(*                                                                         *)
(* Connections are numbered in the order in which they are established.    *)
(* The bytes of a stream are abstracted to what the server tells apart:    *)
(* how many complete CRLF-terminated lines a buffer holds, and whether an  *)
(* unfinished line follows them.  The bytes of an output stream are        *)
(* counted in replies.                                                     *)
(***************************************************************************)
EXTENDS Integers

CONSTANTS MaxConn,  \* bound: connections peers ever establish
          MaxSend,  \* bound: pieces of data the peers ever send, together
          SndCap    \* replies the kernel's send buffer of a socket holds

ASSUME SocketsAssumption ==
  /\ MaxConn \in Nat \ {0}
  /\ MaxSend \in Nat
  /\ SndCap \in Nat \ {0}

VARIABLES arrived,  \* connections established so far: 1 .. arrived
          sent,     \* pieces of data the peers have sent (only a bound)
          inq,      \* received by the kernel, not yet read by the server
          fin,      \* the peer has sent everything it will send (FIN)
          rst,      \* the peer has reset the connection (RST)
          sndq      \* replies in the kernel, not yet taken by the peer

sockVars == <<arrived, sent, inq, fin, rst, sndq>>

Conn == 1 .. MaxConn
Data == [lines : Nat, tail : BOOLEAN]
Nothing == [lines |-> 0, tail |-> FALSE]

\* The contents of a buffer holding a to which b is appended.
Join(a, b) == [lines |-> a.lines + b.lines,
               tail  |-> b.tail \/ (a.tail /\ b.lines = 0)]

SocketsTypeOK ==
  /\ arrived \in 0 .. MaxConn
  /\ sent \in 0 .. MaxSend
  /\ inq  \in [Conn -> Data]
  /\ fin  \in [Conn -> BOOLEAN]
  /\ rst  \in [Conn -> BOOLEAN]
  /\ sndq \in [Conn -> 0 .. SndCap]

SocketsInit ==
  /\ arrived = 0
  /\ sent = 0
  /\ inq  = [c \in Conn |-> Nothing]
  /\ fin  = [c \in Conn |-> FALSE]
  /\ rst  = [c \in Conn |-> FALSE]
  /\ sndq = [c \in Conn |-> 0]

-----------------------------------------------------------------------------
(* What the kernel reports of a socket. *)

AtEnd(c)    == fin[c] \/ rst[c]               \* recv ends in 0 or an error
Readable(c) == inq[c] # Nothing \/ AtEnd(c)
Writable(c) == rst[c] \/ sndq[c] < SndCap     \* a reset socket fails at once

-----------------------------------------------------------------------------
(* The peers. *)

Connect ==
  /\ arrived < MaxConn
  /\ arrived' = arrived + 1
  /\ UNCHANGED <<sent, inq, fin, rst, sndq>>

Pieces == {[lines |-> 1, tail |-> FALSE], [lines |-> 0, tail |-> TRUE]}

PeerSends(c) ==
  /\ ~AtEnd(c) /\ sent < MaxSend
  /\ sent' = sent + 1
  /\ \E d \in Pieces : inq' = [inq EXCEPT ![c] = Join(@, d)]
  /\ UNCHANGED <<arrived, fin, rst, sndq>>

PeerEnds(c) ==
  /\ ~AtEnd(c)
  /\ fin' = [fin EXCEPT ![c] = TRUE]
  /\ UNCHANGED <<arrived, sent, inq, rst, sndq>>

PeerResets(c) ==
  /\ ~rst[c]
  /\ rst' = [rst EXCEPT ![c] = TRUE]
  /\ UNCHANGED <<arrived, sent, inq, fin, sndq>>

PeerReads(c) ==
  /\ ~rst[c] /\ sndq[c] > 0
  /\ sndq' = [sndq EXCEPT ![c] = @ - 1]
  /\ UNCHANGED <<arrived, sent, inq, fin, rst>>

PeerStep(c) == PeerSends(c) \/ PeerEnds(c) \/ PeerResets(c) \/ PeerReads(c)
=============================================================================

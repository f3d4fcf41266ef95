----------------------------- MODULE EventLoop -----------------------------
(***************************************************************************)
(* The reactor: EventLoop (net/eventloop.cpp), the dispatch of one handle  *)
(* (net/handle.cpp) and what it needs of a selector.  One thread runs it,  *)
(* so a handler runs to completion before the next one; what happens       *)
(* between two steps of a handler is done by the peers.                    *)
(*                                                                         *)
(* A handle is a number and a selector's view of it is its descriptor.     *)
(* ERROR bits reach handlers that only write to the log, and are left out. *)
(***************************************************************************)
EXTENDS Integers

CONSTANT MaxFd  \* descriptors the process may open besides the listening one

ASSUME EventLoopAssumption == MaxFd \in Nat \ {0}

VARIABLES handles,   \* EventLoop::handles, the handle registered at each fd
          interest,  \* the events the selector watches at each fd
          active,    \* active_handles: the part of the batch not dispatched
          cur,       \* the handle whose handle_event is running
          revents,   \* the bits of cur->revents it has still to test
          pc         \* where the thread is

loopVars == <<handles, interest, active, cur, revents, pc>>

ListenFd == 0
Fd       == 1 .. MaxFd
AnyFd    == 0 .. MaxFd
NoHandle == -1
Bits     == {"READ", "WRITE"}

LoopTypeOK(Handle) ==
  /\ handles  \in [AnyFd -> Handle \cup {NoHandle}]
  /\ interest \in [AnyFd -> SUBSET Bits]
  /\ active   \in [AnyFd -> SUBSET Bits]
  /\ cur      \in Handle \cup {NoHandle}
  /\ revents  \in SUBSET Bits

\* The loop starts with one handle registered, the acceptor (TcpServer::bind).
LoopInit(acceptor) ==
  /\ handles  = [fd \in AnyFd |-> IF fd = ListenFd THEN acceptor ELSE NoHandle]
  /\ interest = [fd \in AnyFd |-> IF fd = ListenFd THEN {"READ"} ELSE {}]
  /\ active   = [fd \in AnyFd |-> {}]
  /\ cur = NoHandle
  /\ revents = {}
  /\ pc = "select"

-----------------------------------------------------------------------------
(* Calls a handler makes. *)

Register(fd, h, bits) ==
  /\ handles'  = [handles EXCEPT ![fd] = h]
  /\ interest' = [interest EXCEPT ![fd] = bits]

\* Faulty: the selector is not told.
UnregisterWatched(fd) ==
  /\ handles'  = [handles EXCEPT ![fd] = NoHandle]
  /\ revents'  = IF handles[fd] = cur THEN {} ELSE revents
  /\ UNCHANGED interest

\* Faulty: revents is not reset.
UnregisterKeepsBits(fd) ==
  /\ handles'  = [handles EXCEPT ![fd] = NoHandle]
  /\ interest' = [interest EXCEPT ![fd] = {}]
  /\ UNCHANGED revents

\* The handle is forgotten and the bits it has still to test are dropped.
Unregister(fd) ==
  /\ handles'  = [handles EXCEPT ![fd] = NoHandle]
  /\ interest' = [interest EXCEPT ![fd] = {}]
  /\ revents'  = IF handles[fd] = cur THEN {} ELSE revents

\* Faulty: the events are changed and the selector is not told.
EnableNothing(fd) == UNCHANGED interest
DisableNothing(fd) == UNCHANGED interest

EnableWrite(fd)  == interest' = [interest EXCEPT ![fd] = @ \cup {"WRITE"}]
DisableWrite(fd) == interest' = [interest EXCEPT ![fd] = @ \ {"WRITE"}]

-----------------------------------------------------------------------------
(* The loop itself.  A call of the selector that finds nothing ready       *)
(* changes nothing and is a stuttering step.                               *)

Select(ready) ==
  /\ pc = "select"
  /\ \E fd \in AnyFd : ready[fd] # {}
  /\ active' = ready
  /\ pc' = "batch"
  /\ UNCHANGED <<handles, interest, cur, revents>>

\* A signal: the selector returns EINTR and asks for the shutdown, the rest of
\* update() finds nothing to do, and do_loop() goes on to clear().
Interrupted ==
  /\ pc = "select"
  /\ pc' = "clear"
  /\ UNCHANGED <<handles, interest, active, cur, revents>>

\* Faulty: the events are those of a one-shot registration.
DispatchOnce ==
  /\ pc = "batch"
  /\ \E fd \in AnyFd :
       /\ active[fd] # {}
       /\ cur' = handles[fd]
       /\ revents' = active[fd]
       /\ active' = [active EXCEPT ![fd] = {}]
       /\ interest' = [interest EXCEPT ![fd] = {}]
  /\ pc' = "event"
  /\ UNCHANGED handles

\* The kernel lists the ready descriptors in an order of its own.
Dispatch ==
  /\ pc = "batch"
  /\ \E fd \in AnyFd :
       /\ active[fd] # {}
       /\ cur' = handles[fd]
       /\ revents' = active[fd]
       /\ active' = [active EXCEPT ![fd] = {}]
  /\ pc' = "event"
  /\ UNCHANGED <<handles, interest>>

EventDone ==
  /\ pc = "event" /\ revents = {}
  /\ cur' = NoHandle
  /\ pc' = "batch"
  /\ UNCHANGED <<handles, interest, active, revents>>

BatchDone ==
  /\ pc = "batch"
  /\ \A fd \in AnyFd : active[fd] = {}
  /\ pc' = "select"
  /\ UNCHANGED <<handles, interest, active, cur, revents>>
=============================================================================

------------------------------ MODULE Selector ------------------------------
(***************************************************************************)
(* What EventLoop asks of a selector, whichever of Epoll, Kqueue, Poll or  *)
(* Select it is built with: it watches each registered descriptor for the  *)
(* events asked for last, and a call of select() reports of each of them   *)
(* the watched events that are ready, and no other descriptor.  A selector *)
(* that is told of changes (EV_CLEAR) may leave out what it has reported.  *)
(* A call that fails reports nothing or, if the selector does not look     *)
(* whether it failed, all that it was asked for.                           *)
(***************************************************************************)
EXTENDS Integers

CONSTANTS Fd,     \* descriptors
          Bits    \* events

VARIABLES watched,  \* the events of each registered descriptor
          ready,    \* the events the kernel had when select() was called
          reported, \* what select() has just given: pairs <<fd, events>>
          error     \* the call was a select() that failed

selVars == <<watched, ready, reported, error>>

NotReady == [fd \in Fd |-> {}]

\* The call is not select().
Silent == ready' = NotReady /\ reported' = {} /\ error' = FALSE

Init ==
  /\ watched = [fd \in {} |-> {}]
  /\ ready = NotReady /\ reported = {} /\ error = FALSE

\* The caller registers a descriptor once: assert in add_handle().
Add(fd, e) ==
  /\ fd \notin DOMAIN watched
  /\ watched' = [g \in DOMAIN watched \cup {fd} |->
                   IF g = fd THEN e ELSE watched[g]]
  /\ Silent

Update(fd, e) ==
  /\ fd \in DOMAIN watched
  /\ watched' = [watched EXCEPT ![fd] = e]
  /\ Silent

Remove(fd) ==
  /\ fd \in DOMAIN watched
  /\ watched' = [g \in DOMAIN watched \ {fd} |-> watched[g]]
  /\ Silent

Found == [fd \in DOMAIN watched |-> watched[fd] \cap ready'[fd]]

\* The pairs of a function from descriptors to events, without empty ones.
Pairs(f) == {<<fd, f[fd]>> : fd \in {g \in DOMAIN f : f[g] # {}}}

Report ==
  /\ reported' = Pairs(Found)
  /\ error' = FALSE
  /\ UNCHANGED watched

ReportSome ==
  /\ \A p \in reported' :
       /\ p[1] \in DOMAIN watched
       /\ p[2] # {} /\ p[2] \subseteq Found[p[1]]
       /\ \A q \in reported' : p[1] = q[1] => p = q
  /\ error' = FALSE
  /\ UNCHANGED watched

\* The call fails, and nothing is known to be ready.
Fail(given) ==
  /\ ready' = NotReady /\ reported' = given
  /\ error' = TRUE
  /\ UNCHANGED watched

Register ==
  \E fd \in Fd :
    Remove(fd) \/ \E e \in SUBSET Bits : Add(fd, e) \/ Update(fd, e)

Level    == Init /\ [][Register \/ Report \/ Fail({})]_selVars
Guessing == Init /\ [][Register \/ Report \/ Fail(Pairs(watched))]_selVars
Edge     == Init /\ [][Register \/ ReportSome \/ Fail({})]_selVars
=============================================================================

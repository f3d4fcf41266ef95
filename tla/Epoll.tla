-------------------------------- MODULE Epoll --------------------------------
(***************************************************************************)
(* Epoll (net/epoll.cpp, include/epoll.hpp): the kernel keeps the events   *)
(* of each descriptor, and the class only how many there are, which it     *)
(* tells epoll_wait(), and an array for what it gives.  The array starts   *)
(* with Places entries and grows with the descriptors; epoll_wait() is     *)
(* told of one place more than there are descriptors.                      *)
(***************************************************************************)
EXTENDS FiniteSets, Integers

CONSTANTS Fd, Bits,
          Places  \* 10 in the code

VARIABLES watched,   \* the kernel's events of each descriptor it watches
          n_events,  \* how many descriptors there are
          capacity,  \* places in epoll_events
          ready,     \* the events the kernel had when select() was called
          reported,  \* active_handles, when select() was the last call
          error,     \* it was an epoll_wait() that failed
          shutdown   \* EventLoop::_shutdown

Init ==
  /\ watched = [fd \in {} |-> {}]
  /\ n_events = 0
  /\ capacity = Places
  /\ ready = [fd \in Fd |-> {}]
  /\ reported = {}
  /\ error = FALSE /\ shutdown = FALSE

\* The call is not select().
Silent ==
  /\ ready' = [fd \in Fd |-> {}] /\ reported' = {} /\ error' = FALSE
  /\ UNCHANGED shutdown

\* Faulty: the array is not made to hold them.
GrownNot(n) == capacity

\* The least capacity that resize() gives.
Grown(n) == IF capacity < n THEN n ELSE capacity

Add(fd, e) ==
  /\ fd \notin DOMAIN watched
  /\ watched' = [g \in DOMAIN watched \cup {fd} |->
                   IF g = fd THEN e ELSE watched[g]]
  /\ n_events' = n_events + 1
  /\ capacity' = Grown(n_events')
  /\ Silent

Update(fd, e) ==
  /\ fd \in DOMAIN watched
  /\ watched' = [watched EXCEPT ![fd] = e]
  /\ Silent
  /\ UNCHANGED <<n_events, capacity>>

\* Faulty: a descriptor is counted out twice.
CountedOutTwice == n_events' = n_events - 2

CountedOut == n_events' = n_events - 1

Remove(fd) ==
  /\ fd \in DOMAIN watched
  /\ watched' = [g \in DOMAIN watched \ {fd} |-> watched[g]]
  /\ CountedOut
  /\ Silent
  /\ UNCHANGED capacity

Least(a, b) == IF a < b THEN a ELSE b

\* epoll_wait() gives the descriptors that are ready, as many as it has places
\* for.
Report(now) ==
  LET found  == [fd \in DOMAIN watched |-> watched[fd] \cap now[fd]]
      events == {<<fd, found[fd]>> : fd \in {g \in DOMAIN watched : found[g] # {}}}
  IN /\ ready' = now
     /\ \E given \in SUBSET events :
          /\ Cardinality(given) = Least(n_events + 1, Cardinality(events))
          /\ reported' = given
     /\ error' = FALSE
     /\ UNCHANGED <<watched, n_events, capacity, shutdown>>

\* epoll_wait() fails: nothing is reported, and EINTR shuts the loop down.
Fails(errno) ==
  /\ ready' = [fd \in Fd |-> {}]
  /\ reported' = {}
  /\ error' = TRUE
  /\ shutdown' = (shutdown \/ errno = "EINTR")
  /\ UNCHANGED <<watched, n_events, capacity>>

-----------------------------------------------------------------------------
Abstract == INSTANCE Selector

\* Epoll is a Selector: n_events never falls behind the descriptors there are,
\* and no ready descriptor is left out for want of a place.
EpollSelects == Abstract!Level

\* epoll_wait() never writes past the array, although it is told of one place
\* more than the array may have.
EventsFit == Cardinality(reported) <= capacity
=============================================================================

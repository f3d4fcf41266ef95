-------------------------------- MODULE Poll --------------------------------
(***************************************************************************)
(* Poll (net/poll.cpp): the array that poll() takes, and a map from each   *)
(* descriptor to its place in the array.  A descriptor is removed by       *)
(* moving the last entry into its place.                                   *)
(***************************************************************************)
EXTENDS Integers, Sequences

CONSTANTS Fd, Bits

VARIABLES pollfds,   \* the array, from index 1
          handles,   \* Poll::handles, the index of each registered descriptor
          ready,     \* the events the kernel had when select() was called
          reported,  \* active_handles, when select() was the last call
          error      \* it was a poll() that failed

Init ==
  /\ pollfds = <<>>
  /\ handles = [fd \in {} |-> 0]
  /\ ready = [fd \in Fd |-> {}]
  /\ reported = {}
  /\ error = FALSE

\* The call is not select().
Silent == ready' = [fd \in Fd |-> {}] /\ reported' = {} /\ error' = FALSE

Add(fd, e) ==
  /\ fd \notin DOMAIN handles
  /\ pollfds' = Append(pollfds, [fd |-> fd, events |-> e])
  /\ handles' = [g \in DOMAIN handles \cup {fd} |->
                   IF g = fd THEN Len(pollfds) + 1 ELSE handles[g]]
  /\ Silent

Update(fd, e) ==
  /\ fd \in DOMAIN handles
  /\ pollfds' = [pollfds EXCEPT ![handles[fd]].events = e]
  /\ Silent
  /\ UNCHANGED handles

Front(s) == SubSeq(s, 1, Len(s) - 1)

\* Faulty: the last entry is dropped and not moved.
RemoveLast(fd) ==
  /\ fd \in DOMAIN handles
  /\ LET moved == [handles EXCEPT ![pollfds[Len(pollfds)].fd] = handles[fd]]
     IN /\ pollfds' = Front(pollfds)
        /\ handles' = [g \in DOMAIN handles \ {fd} |-> moved[g]]
  /\ Silent

Remove(fd) ==
  /\ fd \in DOMAIN handles
  /\ LET last  == pollfds[Len(pollfds)]
         moved == [handles EXCEPT ![last.fd] = handles[fd]]
     IN /\ pollfds' = Front([pollfds EXCEPT ![handles[fd]] = last])
        /\ handles' = [g \in DOMAIN handles \ {fd} |-> moved[g]]
  /\ Silent

\* revents of an entry: poll() is asked for its events, and gives those ready.
Revents(p, now) == p.events \cap now[p.fd]

Report(now) ==
  LET active == {i \in DOMAIN pollfds : Revents(pollfds[i], now) # {}}
  IN /\ ready' = now
     /\ reported' = {<<pollfds[i].fd, Revents(pollfds[i], now)>> : i \in active}
     /\ error' = FALSE
     /\ UNCHANGED <<pollfds, handles>>

\* poll() fails: it is logged, and the array is not looked at.
Fails ==
  /\ ready' = [fd \in Fd |-> {}]
  /\ reported' = {}
  /\ error' = TRUE
  /\ UNCHANGED <<pollfds, handles>>

-----------------------------------------------------------------------------
Abstract == INSTANCE Selector
  WITH watched <- [fd \in DOMAIN handles |-> pollfds[handles[fd]].events]

\* Poll is a Selector: the events it hands to poll() for a descriptor, and so
\* those it reports, are the ones asked for last, whatever entries were moved
\* before, and nothing is reported of a descriptor that was removed, or by a
\* call that failed.
PollSelects == Abstract!Level
=============================================================================

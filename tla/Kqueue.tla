------------------------------- MODULE Kqueue -------------------------------
(***************************************************************************)
(* Kqueue (net/kqueue.cpp): the kernel keeps a filter per descriptor and   *)
(* event, which must be added before it can be enabled, disabled or        *)
(* deleted, and the class keeps what it believes of them in two maps.      *)
(*                                                                         *)
(* Like Epoll it counts the descriptors, keeps an array for what the       *)
(* kernel gives, and tells it of one place more than there are             *)
(* descriptors; but a descriptor with two filters may take two places.     *)
(*                                                                         *)
(* A descriptor may be closed or stay open after it is removed; closing it *)
(* deletes its filters.                                                    *)
(***************************************************************************)
EXTENDS FiniteSets, Integers

CONSTANTS Fd, Bits,
          Places  \* 10 in the code

VARIABLES revents,        \* the events each descriptor is watched for
          enable_events,  \* those it was ever watched for since it was added
          filters,        \* the kernel's filters, by descriptor and event
          failed,         \* a set_kevent() failed: assert(n != -1)
          n_events,       \* how many descriptors there are
          capacity,       \* places in k_events
          written,        \* how many of them kevent() has just written
          ready,          \* the events the kernel had when select() was called
          reported,       \* active_handles, when select() was the last call
          error,          \* it was a kevent() that failed
          shutdown        \* EventLoop::_shutdown

Absent == [b \in Bits |-> "absent"]

Init ==
  /\ revents = [fd \in {} |-> {}]
  /\ enable_events = [fd \in {} |-> {}]
  /\ filters = [fd \in Fd |-> Absent]
  /\ failed = FALSE
  /\ n_events = 0 /\ capacity = Places /\ written = 0
  /\ ready = [fd \in Fd |-> {}]
  /\ reported = {}
  /\ error = FALSE /\ shutdown = FALSE

\* f with fd bound to e, added to its domain if need be.
Put(f, fd, e) ==
  [g \in DOMAIN f \cup {fd} |-> IF g = fd THEN e ELSE f[g]]

Drop(f, fd) == [g \in DOMAIN f \ {fd} |-> f[g]]

\* Some filters of fd change to what the function to says; those that need a
\* filter that was never added make kevent() fail.
SetKevent(fd, to, needed) ==
  /\ filters' = [filters EXCEPT ![fd] =
                   [b \in Bits |-> IF b \in DOMAIN to THEN to[b] ELSE @[b]]]
  /\ failed' = (failed \/ \E b \in needed : filters[fd][b] = "absent")

\* The call is not select().
Silent ==
  /\ ready' = [fd \in Fd |-> {}] /\ reported' = {} /\ error' = FALSE
  /\ written' = 0
  /\ UNCHANGED shutdown

\* The least capacity that resize() gives.
Grown(n) == IF capacity < n THEN n ELSE capacity

Add(fd, e) ==
  /\ fd \notin DOMAIN revents
  /\ SetKevent(fd, [b \in e |-> "on"], {})
  /\ revents' = Put(revents, fd, e)
  /\ enable_events' = Put(enable_events, fd, e)
  /\ n_events' = n_events + 1
  /\ capacity' = Grown(n_events')
  /\ Silent

\* The events whose filter update_event() enables or disables.
Changed(fd, e) == (e \ revents[fd]) \cup (revents[fd] \ e)

Switch(fd, e, needed) ==
  SetKevent(fd, [b \in Changed(fd, e) |-> IF b \in e THEN "on" ELSE "off"],
            needed)

\* Faulty: every filter is taken to have been added.
UpdateForgets(fd, e) ==
  /\ fd \in DOMAIN revents
  /\ Switch(fd, e, Changed(fd, e))
  /\ revents' = [revents EXCEPT ![fd] = e]
  /\ enable_events' = [enable_events EXCEPT ![fd] = @ \cup e]
  /\ Silent
  /\ UNCHANGED <<n_events, capacity>>

\* Faulty: revents is not updated.
UpdateStale(fd, e) ==
  /\ fd \in DOMAIN revents
  /\ Switch(fd, e, Changed(fd, e) \cap enable_events[fd])
  /\ enable_events' = [enable_events EXCEPT ![fd] = @ \cup e]
  /\ Silent
  /\ UNCHANGED <<revents, n_events, capacity>>

\* _check_and_set_event for each event: a filter that was never enabled is
\* added, the others are only enabled or disabled.
Update(fd, e) ==
  /\ fd \in DOMAIN revents
  /\ Switch(fd, e, Changed(fd, e) \cap enable_events[fd])
  /\ revents' = [revents EXCEPT ![fd] = e]
  /\ enable_events' = [enable_events EXCEPT ![fd] = @ \cup e]
  /\ Silent
  /\ UNCHANGED <<n_events, capacity>>

\* Only the filters that are enabled are deleted.
Remove(fd) ==
  /\ fd \in DOMAIN revents
  /\ SetKevent(fd, [b \in revents[fd] |-> "absent"], revents[fd])
  /\ revents' = Drop(revents, fd)
  /\ enable_events' = Drop(enable_events, fd)
  /\ n_events' = n_events - 1
  /\ Silent
  /\ UNCHANGED capacity

\* The caller closes a descriptor it has removed.
CloseFd(fd) ==
  /\ fd \notin DOMAIN revents
  /\ filters[fd] # Absent
  /\ filters' = [filters EXCEPT ![fd] = Absent]
  /\ Silent
  /\ UNCHANGED <<revents, enable_events, failed, n_events, capacity>>

\* The kernel's events: of the filters that are enabled, those that are ready.
KernelEvents(now) ==
  {p \in Fd \X Bits : filters[p[1]][p[2]] = "on" /\ p[2] \in now[p[1]]}

\* kevent() gives at most n_events + 1 events, of those that are enabled and,
\* with EV_CLEAR, not reported before; the events of one descriptor are joined.
\* One that is written behind the array is taken to be read back as written.
Report(now) ==
  /\ ready' = now
  /\ \E some \in SUBSET KernelEvents(now) :
       /\ IsFiniteSet(some) /\ Cardinality(some) <= n_events + 1
       /\ written' = Cardinality(some)
       /\ reported' = {<<fd, {b \in Bits : <<fd, b>> \in some}>> :
                         fd \in {p[1] : p \in some}}
  /\ error' = FALSE
  /\ UNCHANGED <<revents, enable_events, filters, failed, n_events, capacity,
                 shutdown>>

\* kevent() fails: nothing is reported, and EINTR shuts the loop down.
Fails(errno) ==
  /\ ready' = [fd \in Fd |-> {}]
  /\ reported' = {}
  /\ written' = 0
  /\ error' = TRUE
  /\ shutdown' = (shutdown \/ errno = "EINTR")
  /\ UNCHANGED <<revents, enable_events, filters, failed, n_events, capacity>>

-----------------------------------------------------------------------------
\* What the kernel watches, not what the class believes of it.
Enabled == [fd \in DOMAIN revents |-> {b \in Bits : filters[fd][b] = "on"}]

Abstract == INSTANCE Selector WITH watched <- Enabled

\* Kqueue is a Selector of the kind that reports changes, with filters left
\* over by a removal and descriptors registered again with and without a close
\* in between: the kernel watches what was asked for last, and reports nothing
\* of a descriptor that is not registered (assert in EventLoop::do_select), and
\* nothing at all by a call that failed.
KqueueSelects == Abstract!Edge

\* kevent() may write behind the array, since a descriptor can give two events:
\* by one place at most, and only while there are as many descriptors as places.
EventsAlmostFit ==
  /\ written <= capacity + 1
  /\ written > capacity => n_events = capacity

\* No kevent() call fails: assert(n != -1) in set_kevent.  enable_events tells
\* the filters that need EV_ADD from those that must not lose their state.
KeventSucceeds == ~failed
=============================================================================

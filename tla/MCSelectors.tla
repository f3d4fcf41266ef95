---------------------------- MODULE MCSelectors ----------------------------
(***************************************************************************)
(* The selector that EventLoop is built with (include/eventloop.hpp, lines *)
(* 63 to 69) or could be, and the calls it makes to it.                    *)
(***************************************************************************)
EXTENDS Integers, Sequences

CONSTANTS Fd, Bits, Places,
          Ready  \* what select() may find ready

ASSUME SelectorsAssumption ==
  /\ Fd \subseteq Nat /\ Places \in Nat
  /\ Ready \subseteq [Fd -> SUBSET Bits]

VARIABLES built,  \* the selector: "Epoll", "Kqueue", "Poll" or "Select"
          shutdown,  \* EventLoop::_shutdown
          watched, n_events, capacity, eready, ereported, eerror,
          pollfds, phandles, pready, preported, perror,
          all_fds, shandles, fds, max_fds, sready, sreported, serror,
          revents, enable_events, filters, failed, kn_events, kcapacity,
          written, kready, kreported, kerror

E == INSTANCE Epoll
     WITH ready <- eready, reported <- ereported, error <- eerror
P == INSTANCE Poll
     WITH handles <- phandles, ready <- pready, reported <- preported,
          error <- perror
S == INSTANCE Select
     WITH handles <- shandles, ready <- sready, reported <- sreported,
          error <- serror
K == INSTANCE Kqueue
     WITH n_events <- kn_events, capacity <- kcapacity,
          ready <- kready, reported <- kreported, error <- kerror

epoll  == <<watched, n_events, capacity, eready, ereported, eerror>>
poll   == <<pollfds, phandles, pready, preported, perror>>
select == <<all_fds, shandles, fds, max_fds, sready, sreported, serror>>
kqueue == <<revents, enable_events, filters, failed, kn_events, kcapacity,
            written, kready, kreported, kerror>>
vars   == <<built, shutdown, epoll, poll, select, kqueue>>

Init ==
  /\ built \in {"Epoll", "Kqueue", "Poll", "Select"}
  /\ E!Init /\ P!Init /\ S!Init /\ K!Init

Events == SUBSET Bits

\* For TLC: all or nothing of each descriptor, or one event.
MCReady == [Fd -> {{}, Bits}]
           \cup {[fd \in Fd |-> IF fd = g THEN {b} ELSE {}] :
                     g \in Fd, b \in Bits}

\* Why epoll_wait() or kevent() failed.
Errno == {"EINTR", "other"}

\* select() is not called after shutdown(): do_loop().
EpollStep ==
  /\ built = "Epoll"
  /\ \/ \E fd \in Fd, e \in Events : E!Add(fd, e) \/ E!Update(fd, e)
     \/ \E fd \in Fd : E!Remove(fd)
     \/ ~shutdown /\ \E now \in Ready : E!Report(now)
     \/ ~shutdown /\ \E errno \in Errno : E!Fails(errno)
  /\ UNCHANGED <<built, poll, select, kqueue>>

PollStep ==
  /\ built = "Poll"
  /\ \/ \E fd \in Fd, e \in Events : P!Add(fd, e) \/ P!Update(fd, e)
     \/ \E fd \in Fd : P!Remove(fd)
     \/ \E now \in Ready : P!Report(now)
     \/ P!Fails
  /\ UNCHANGED <<built, shutdown, epoll, select, kqueue>>

SelectStep ==
  /\ built = "Select"
  /\ \/ \E fd \in Fd, e \in Events : S!Add(fd, e) \/ S!Update(fd, e)
     \/ \E fd \in Fd : S!Remove(fd)
     \/ \E now \in Ready : S!Report(now)
     \/ S!Fails
  /\ UNCHANGED <<built, shutdown, epoll, poll, kqueue>>

KqueueStep ==
  /\ built = "Kqueue"
  /\ \/ \E fd \in Fd, e \in Events : K!Add(fd, e) \/ K!Update(fd, e)
     \/ \E fd \in Fd : K!Remove(fd) \/ K!CloseFd(fd)
     \/ ~shutdown /\ K!Report([fd \in Fd |-> Bits])  \* any part is reported
     \/ ~shutdown /\ \E errno \in Errno : K!Fails(errno)
  /\ UNCHANGED <<built, epoll, poll, select>>

Next == EpollStep \/ PollStep \/ SelectStep \/ KqueueStep

Spec == Init /\ [][Next]_vars

\* Each implements what EventLoop asks of a selector (see the modules).
EpollSelects  == E!EpollSelects
PollSelects   == P!PollSelects
SelectSelects == S!SelectSelects
KqueueSelects == K!KqueueSelects

\* The array of Epoll::select is never too short, that of Kqueue::select by one
\* place at most, while there are as many descriptors as places.
EventsFit == E!EventsFit /\ K!EventsAlmostFit

\* assert(n != -1) in Kqueue::set_kevent.
KeventSucceeds == K!KeventSucceeds
=============================================================================

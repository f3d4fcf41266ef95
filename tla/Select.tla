------------------------------- MODULE Select -------------------------------
(***************************************************************************)
(* Select (net/select.cpp): a set of descriptors per event, the array and  *)
(* the index map of Poll for the scan of the result, and the largest       *)
(* descriptor, which select() must be told.  ERROR is left out.            *)
(***************************************************************************)
EXTENDS Integers, Sequences

CONSTANTS Fd, Bits

VARIABLES all_fds,   \* the registered descriptors, an array from index 1
          handles,   \* Select::handles, the index of each
          fds,       \* read_fds and write_fds, by event
          max_fds,   \* 0 when nothing is registered
          ready,     \* the events the kernel had when select() was called
          reported,  \* active_fds, when select() was the last call
          error      \* it was a select() that failed

Init ==
  /\ all_fds = <<>>
  /\ handles = [fd \in {} |-> 0]
  /\ fds = [b \in Bits |-> {}]
  /\ max_fds = 0
  /\ ready = [fd \in Fd |-> {}]
  /\ reported = {}
  /\ error = FALSE

SetFds(fd, e) ==
  fds' = [b \in Bits |-> IF b \in e THEN fds[b] \cup {fd} ELSE fds[b] \ {fd}]

\* The call is not select().
Silent == ready' = [fd \in Fd |-> {}] /\ reported' = {} /\ error' = FALSE

Add(fd, e) ==
  /\ fd \notin DOMAIN handles
  /\ max_fds' = IF fd > max_fds THEN fd ELSE max_fds
  /\ all_fds' = Append(all_fds, fd)
  /\ handles' = [g \in DOMAIN handles \cup {fd} |->
                   IF g = fd THEN Len(all_fds) + 1 ELSE handles[g]]
  /\ SetFds(fd, e)
  /\ Silent

Update(fd, e) ==
  /\ fd \in DOMAIN handles
  /\ SetFds(fd, e)
  /\ Silent
  /\ UNCHANGED <<all_fds, handles, max_fds>>

\* Faulty: the end of the array is taken for the largest descriptor.
LastAdded(S) == IF Len(all_fds) < 2 THEN 0 ELSE all_fds[Len(all_fds) - 1]

\* The last key of the map without fd, or 0.
LastKey(S) == IF S = {} THEN 0 ELSE CHOOSE m \in S : \A g \in S : g <= m

Remove(fd) ==
  /\ fd \in DOMAIN handles
  /\ LET n     == Len(all_fds)
         moved == [handles EXCEPT ![all_fds[n]] = handles[fd]]
         rest  == DOMAIN handles \ {fd}
     IN /\ all_fds' = SubSeq([all_fds EXCEPT ![handles[fd]] = all_fds[n]],
                             1, n - 1)
        /\ handles' = [g \in rest |-> moved[g]]
        /\ max_fds' = IF fd = max_fds \/ n = 1 THEN LastKey(rest) ELSE max_fds
  /\ SetFds(fd, {})
  /\ Silent

\* What select() has left in the copies is scanned in the order of all_fds.
Scan(left) ==
  LET active == {i \in DOMAIN all_fds : left[all_fds[i]] # {}}
  IN {<<all_fds[i], left[all_fds[i]]>> : i \in active}

\* What each descriptor is asked for: the copies that select() is given.
Asked == [fd \in Fd |-> {b \in Bits : fd \in fds[b]}]

\* select() looks at the descriptors up to max_fds, and leaves those that are
\* ready.
Report(now) ==
  /\ ready' = now
  /\ reported' = Scan([fd \in Fd |-> IF fd <= max_fds THEN Asked[fd] \cap now[fd]
                                                     ELSE {}])
  /\ error' = FALSE
  /\ UNCHANGED <<all_fds, handles, fds, max_fds>>

\* select() fails and leaves the copies as they were.  That is logged, and they
\* are scanned all the same.
Fails ==
  /\ ready' = [fd \in Fd |-> {}]
  /\ reported' = Scan(Asked)
  /\ error' = TRUE
  /\ UNCHANGED <<all_fds, handles, fds, max_fds>>

-----------------------------------------------------------------------------
Abstract == INSTANCE Selector
  WITH watched <- [fd \in DOMAIN handles |-> {b \in Bits : fd \in fds[b]}]

\* Select is a Selector, of the kind that does not look whether select() failed:
\* a call that succeeds reports what is ready and nothing else, one that fails
\* all that is asked for, ready or not.  In particular max_fds is never below a
\* registered descriptor, whose events select() would then leave out without an
\* error, and the array names each registered descriptor.
SelectSelects == Abstract!Guessing
=============================================================================

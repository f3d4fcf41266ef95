-------------------------- MODULE SelectorProofs --------------------------
(***************************************************************************)
(* Each of the four selectors implements Selector, for any set of          *)
(* descriptors and any events: the refinements that MCSelectors has TLC    *)
(* check on three descriptors, and its two invariants.                     *)
(*                                                                         *)
(* The abstract watched is what the kernel is asked for, read from the     *)
(* structure each class keeps: a map, an array with an index, sets of      *)
(* descriptors, filters.  So each proof has an invariant that says how     *)
(* that structure hangs together, and one that a step of the class is a    *)
(* step of Selector.                                                       *)
(***************************************************************************)
EXTENDS MCSelectors, FiniteSetTheorems, TLAPS

-----------------------------------------------------------------------------
(* Epoll *)

\* The inductive invariant: n_events counts the descriptors the kernel watches,
\* and the array has a place for each.
EpollInv ==
  /\ DOMAIN watched \subseteq Fd /\ IsFiniteSet(DOMAIN watched)
  /\ n_events = Cardinality(DOMAIN watched)
  /\ capacity \in Nat /\ n_events <= capacity
  /\ E!EventsFit

(* Epoll counts as FiniteSets does. *)
LEMMA SameCardinality == \A D : E!Cardinality(D) = Cardinality(D)
  BY Zenon DEF E!Cardinality, Cardinality

LEMMA EpollSteps ==
  ASSUME [Next]_vars
  PROVE  \/ \E fd \in Fd, e \in SUBSET Bits : E!Add(fd, e) \/ E!Update(fd, e)
         \/ \E fd \in Fd : E!Remove(fd)
         \/ \E now \in [Fd -> SUBSET Bits] : E!Report(now)
         \/ \E errno \in Errno : E!Fails(errno)
         \/ UNCHANGED epoll
  BY SelectorsAssumption
     DEF Next, EpollStep, PollStep, SelectStep, KqueueStep, vars, Events

(* There are no more events to report than descriptors. *)
LEMMA EventsCount ==
  ASSUME NEW D, IsFiniteSet(D), NEW found, NEW R \in SUBSET D
  PROVE  LET T == {<<fd, found[fd]>> : fd \in R}
         IN IsFiniteSet(T) /\ Cardinality(T) \in Nat
            /\ Cardinality(T) <= Cardinality(D)
<1> DEFINE T == {<<fd, found[fd]>> : fd \in R}
           f == [fd \in R |-> <<fd, found[fd]>>]
<1>1. f \in Surjection(R, T)
  BY DEF Surjection
<1>2. /\ IsFiniteSet(R) /\ Cardinality(R) \in Nat /\ Cardinality(D) \in Nat
      /\ Cardinality(R) <= Cardinality(D)
  BY FS_Subset, FS_CardinalityType
<1> HIDE DEF f, T
<1>3. IsFiniteSet(T) /\ Cardinality(T) <= Cardinality(R)
  BY <1>1, <1>2, FS_Surjection
<1>4. Cardinality(T) \in Nat
  BY <1>3, FS_CardinalityType
<1>5. Cardinality(T) <= Cardinality(D)
  BY <1>2, <1>3, <1>4
<1> QED
  BY <1>3, <1>4, <1>5 DEF T

(* epoll_wait() has a place for every event: none is left out. *)
LEMMA EpollReports ==
  ASSUME EpollInv, NEW now, E!Report(now)
  PROVE  /\ E!Abstract!Report
         /\ Cardinality(ereported') \in Nat /\ Cardinality(ereported') <= n_events
<1> DEFINE found  == [fd \in DOMAIN watched |-> watched[fd] \cap now[fd]]
           events == {<<fd, found[fd]>> : fd \in {g \in DOMAIN watched : found[g] # {}}}
<1>1. /\ IsFiniteSet(events) /\ Cardinality(events) \in Nat
      /\ Cardinality(events) <= n_events /\ n_events \in Nat
  <2>1. {g \in DOMAIN watched : found[g] # {}} \subseteq DOMAIN watched
    OBVIOUS
  <2> HIDE DEF found
  <2> QED
    BY <2>1, EventsCount, FS_CardinalityType DEF EpollInv
<1>2. /\ eready' = now /\ UNCHANGED watched
      /\ ereported' \in SUBSET events
      /\ Cardinality(ereported') = E!Least(n_events + 1, Cardinality(events))
  <2>1. \E given \in SUBSET events :
          /\ E!Cardinality(given) = E!Least(n_events + 1, E!Cardinality(events))
          /\ ereported' = given
    BY Zenon DEF E!Report
  <2> HIDE DEF events
  <2>2. eready' = now /\ UNCHANGED watched
    BY DEF E!Report
  <2> QED
    BY <2>1, <2>2, SameCardinality
<1>3. Cardinality(ereported') = Cardinality(events)
  BY <1>1, <1>2 DEF E!Least
<1> HIDE DEF events
<1>4. ereported' = events
  BY <1>1, <1>2, <1>3, FS_Subset
<1>6. eerror' = FALSE
  BY DEF E!Report
<1>5. E!Abstract!Report
  BY <1>2, <1>4, <1>6 DEF E!Abstract!Report, E!Abstract!Found, E!Abstract!Pairs, events
<1> QED
  BY <1>1, <1>3, <1>5

LEMMA EpollInit == ASSUME Init PROVE EpollInv
<1>1. DOMAIN watched = {} /\ n_events = 0 /\ capacity = Places /\ ereported = {}
  BY DEF Init, E!Init
<1>2. IsFiniteSet({}) /\ Cardinality({}) = 0
  BY FS_EmptySet
<1>3. capacity \in Nat /\ 0 <= capacity
  BY <1>1, SelectorsAssumption
<1> QED
  BY <1>1, <1>2, <1>3, SameCardinality DEF EpollInv, E!EventsFit

LEMMA EpollNext == ASSUME EpollInv, [Next]_vars PROVE EpollInv'
<1>1. /\ DOMAIN watched \subseteq Fd /\ IsFiniteSet(DOMAIN watched)
      /\ n_events = Cardinality(DOMAIN watched) /\ n_events \in Nat
      /\ capacity \in Nat /\ n_events <= capacity
      /\ Cardinality(ereported) <= capacity /\ Cardinality({}) = 0
  BY FS_CardinalityType, FS_EmptySet, SameCardinality
     DEF EpollInv, E!EventsFit
<1>2. SUFFICES /\ DOMAIN watched' \subseteq Fd /\ IsFiniteSet(DOMAIN watched')
               /\ n_events' = Cardinality(DOMAIN watched')
               /\ capacity' \in Nat /\ n_events' <= capacity'
               /\ Cardinality(ereported') <= capacity'
  BY SameCardinality DEF EpollInv, E!EventsFit
<1>3. CASE \E fd \in Fd, e \in SUBSET Bits : E!Add(fd, e)
  <2>1. PICK fd \in Fd :
          /\ DOMAIN watched' = DOMAIN watched \cup {fd} /\ fd \notin DOMAIN watched
          /\ n_events' = n_events + 1 /\ capacity' = E!Grown(n_events + 1)
          /\ ereported' = {}
    BY <1>3 DEF E!Add, E!Grown, E!Silent
  <2>2. /\ IsFiniteSet(DOMAIN watched')
        /\ Cardinality(DOMAIN watched') = n_events + 1
    BY <1>1, <2>1, FS_AddElement
  <2>3. capacity' \in Nat /\ n_events + 1 <= capacity' /\ 0 <= capacity'
    BY <1>1, <2>1 DEF E!Grown
  <2> QED
    BY <1>1, <2>1, <2>2, <2>3
<1>4. CASE \E fd \in Fd, e \in SUBSET Bits : E!Update(fd, e)
  <2>1. /\ DOMAIN watched' = DOMAIN watched /\ ereported' = {}
        /\ UNCHANGED <<n_events, capacity>>
    BY <1>4 DEF E!Update, E!Silent
  <2>2. 0 <= capacity
    BY <1>1
  <2> QED
    BY <1>1, <2>1, <2>2
<1>5. CASE \E fd \in Fd : E!Remove(fd)
  <2>1. PICK fd \in Fd :
          /\ DOMAIN watched' = DOMAIN watched \ {fd} /\ fd \in DOMAIN watched
          /\ n_events' = n_events - 1 /\ capacity' = capacity
          /\ ereported' = {}
    BY <1>5 DEF E!Remove, E!CountedOut, E!Silent
  <2>2. /\ IsFiniteSet(DOMAIN watched')
        /\ Cardinality(DOMAIN watched') = n_events - 1
    BY <1>1, <2>1, FS_RemoveElement
  <2>3. 0 <= capacity /\ n_events - 1 <= capacity
    BY <1>1
  <2> QED
    BY <1>1, <2>1, <2>2, <2>3
<1>6. CASE \E now \in [Fd -> SUBSET Bits] : E!Report(now)
  <2>1. PICK now \in [Fd -> SUBSET Bits] : E!Report(now)
    BY <1>6
  <2>2. UNCHANGED <<watched, n_events, capacity>>
    BY <2>1 DEF E!Report
  <2>3. Cardinality(ereported') \in Nat /\ Cardinality(ereported') <= n_events
    BY <2>1, EpollReports
  <2>4. Cardinality(ereported') <= capacity
    BY <1>1, <2>3
  <2> QED
    BY <1>1, <2>2, <2>4
<1>7. CASE \E errno \in Errno : E!Fails(errno)
  <2>1. ereported' = {} /\ UNCHANGED <<watched, n_events, capacity>>
    BY <1>7 DEF E!Fails
  <2>2. 0 <= capacity
    BY <1>1
  <2> QED
    BY <1>1, <2>1, <2>2
<1>8. CASE UNCHANGED epoll
  BY <1>1, <1>8 DEF epoll
<1> QED
  BY <1>3, <1>4, <1>5, <1>6, <1>7, <1>8, EpollSteps

(* A call of Epoll is a call of Selector. *)
LEMMA EpollRefines ==
  ASSUME EpollInv, [Next]_vars
  PROVE  [E!Abstract!Register \/ E!Abstract!Report \/ E!Abstract!Fail({})]_(
            E!Abstract!selVars)
<1>1. ASSUME NEW fd \in Fd, NEW e \in SUBSET Bits, E!Add(fd, e)
      PROVE  E!Abstract!Add(fd, e)
  BY <1>1 DEF E!Add, E!Silent, E!Abstract!Add, E!Abstract!Silent, E!Abstract!NotReady
<1>2. ASSUME NEW fd \in Fd, NEW e \in SUBSET Bits, E!Update(fd, e)
      PROVE  E!Abstract!Update(fd, e)
  BY <1>2 DEF E!Update, E!Silent, E!Abstract!Update, E!Abstract!Silent,
              E!Abstract!NotReady
<1>3. ASSUME NEW fd \in Fd, E!Remove(fd)
      PROVE  E!Abstract!Remove(fd)
  BY <1>3 DEF E!Remove, E!Silent, E!Abstract!Remove, E!Abstract!Silent,
              E!Abstract!NotReady
<1>4. ASSUME NEW errno, E!Fails(errno)
      PROVE  E!Abstract!Fail({})
  BY <1>4 DEF E!Fails, E!Abstract!Fail, E!Abstract!NotReady
<1>5. ASSUME UNCHANGED epoll PROVE UNCHANGED E!Abstract!selVars
  BY <1>5 DEF epoll, E!Abstract!selVars
<1> QED
  BY <1>1, <1>2, <1>3, <1>4, <1>5, EpollReports, EpollSteps DEF E!Abstract!Register

(* Epoll implements Selector: however descriptors come and go, n_events never
   falls behind them and every ready one is reported. *)
THEOREM EpollIsASelector == Spec => EpollSelects
<1>1. Init => EpollInv
  BY EpollInit
<1>2. EpollInv /\ [Next]_vars => EpollInv'
  BY EpollNext
<1>3. Init => E!Abstract!Init
  BY DEF Init, E!Init, E!Abstract!Init, E!Abstract!NotReady
<1>4. EpollInv /\ [Next]_vars
        => [E!Abstract!Register \/ E!Abstract!Report \/ E!Abstract!Fail({})]_(
              E!Abstract!selVars)
  BY EpollRefines
<1> QED
  BY <1>1, <1>2, <1>3, <1>4, PTL DEF Spec, EpollSelects, E!EpollSelects, E!Abstract!Level

-----------------------------------------------------------------------------
(* An array of n entries, each of a descriptor, and a map with the index of    *)
(* each: Poll's pollfds and Select's all_fds.                                  *)

\* key[i] is the descriptor of entry i; h is the map.
Indexed(key, n, h) ==
  /\ n \in Nat /\ DOMAIN h \subseteq Fd
  /\ \A fd \in DOMAIN h : h[fd] \in 1 .. n /\ key[h[fd]] = fd
  /\ \A i \in 1 .. n : key[i] \in DOMAIN h /\ h[key[i]] = i

\* A descriptor is registered: its entry is the last.
Appends(key, n, h, fd, key2, m, h2) ==
  /\ Indexed(key, n, h) /\ fd \in Fd \ DOMAIN h /\ m = n + 1
  /\ key2[m] = fd /\ \A i \in 1 .. n : key2[i] = key[i]
  /\ DOMAIN h2 = DOMAIN h \cup {fd}
  /\ h2[fd] = m /\ \A g \in DOMAIN h : h2[g] = h[g]

LEMMA IndexAdd ==
  ASSUME NEW key, NEW n, NEW h, NEW fd, NEW key2, NEW m, NEW h2,
         Appends(key, n, h, fd, key2, m, h2)
  PROVE  Indexed(key2, m, h2)
<1> USE DEF Appends
<1>1. /\ n \in Nat /\ m \in Nat
      /\ \A i \in 1 .. m : i = m \/ i \in 1 .. n
      /\ \A i \in 1 .. n : i \in 1 .. m
      /\ m \in 1 .. m
  BY DEF Indexed
<1> QED
  BY <1>1 DEF Indexed

\* A descriptor is removed: the last entry takes its place.
MovesLast(key, n, h, fd, key2, m, h2) ==
  /\ Indexed(key, n, h) /\ fd \in DOMAIN h /\ m = n - 1
  /\ \A i \in 1 .. m : key2[i] = IF i = h[fd] THEN key[n] ELSE key[i]
  /\ DOMAIN h2 = DOMAIN h \ {fd}
  /\ \A g \in DOMAIN h2 : h2[g] = IF g = key[n] THEN h[fd] ELSE h[g]

LEMMA IndexRemove ==
  ASSUME NEW key, NEW n, NEW h, NEW fd, NEW key2, NEW m, NEW h2,
         MovesLast(key, n, h, fd, key2, m, h2)
  PROVE  Indexed(key2, m, h2)
<1> USE DEF MovesLast
<1>1. /\ n \in Nat /\ m \in Nat /\ h[fd] \in 1 .. n /\ n \in 1 .. n
      /\ key[n] \in DOMAIN h /\ h[key[n]] = n /\ key[h[fd]] = fd
      /\ \A i \in 1 .. m : i \in 1 .. n /\ i # n
      /\ \A i \in 1 .. n : i = n \/ i \in 1 .. m
  BY DEF Indexed
<1>2. /\ DOMAIN h2 = DOMAIN h \ {fd}
      /\ \A g \in DOMAIN h \ {fd} : h2[g] = IF g = key[n] THEN h[fd] ELSE h[g]
  OBVIOUS
<1>3. \A g \in DOMAIN h2 : h2[g] \in 1 .. m /\ key2[h2[g]] = g
  <2> SUFFICES ASSUME NEW g \in DOMAIN h, g # fd
               PROVE  h2[g] \in 1 .. m /\ key2[h2[g]] = g
    BY <1>2
  <2>1. CASE g = key[n]
    <3>1. h2[g] = h[fd] /\ h[fd] # n
      BY <1>1, <1>2, <2>1
    <3> QED
      BY <1>1, <2>1, <3>1
  <2>2. CASE g # key[n]
    <3>1. /\ h2[g] = h[g] /\ h[g] \in 1 .. n /\ key[h[g]] = g
          /\ h[g] # n /\ h[g] # h[fd]
      BY <1>1, <1>2, <2>2 DEF Indexed
    <3> QED
      BY <1>1, <3>1
  <2> QED
    BY <2>1, <2>2
<1>4. \A i \in 1 .. m : key2[i] \in DOMAIN h2 /\ h2[key2[i]] = i
  <2> SUFFICES ASSUME NEW i \in 1 .. m
               PROVE  key2[i] \in DOMAIN h2 /\ h2[key2[i]] = i
    OBVIOUS
  <2>1. CASE i = h[fd]
    <3>1. key2[i] = key[n] /\ key[n] # fd
      BY <1>1, <2>1
    <3> QED
      BY <1>1, <1>2, <2>1, <3>1
  <2>2. CASE i # h[fd]
    <3>1. /\ i \in 1 .. n /\ i # n /\ key2[i] = key[i]
          /\ key[i] \in DOMAIN h /\ h[key[i]] = i
      BY <1>1, <2>2 DEF Indexed
    <3>2. key[i] # fd /\ key[i] # key[n]
      BY <1>1, <2>2, <3>1
    <3> QED
      BY <1>2, <3>1, <3>2
  <2> QED
    BY <2>1, <2>2
<1> QED
  BY <1>1, <1>2, <1>3, <1>4 DEF Indexed

-----------------------------------------------------------------------------
(* Poll *)

PollKeys == [i \in 1 .. Len(pollfds) |-> pollfds[i].fd]

Entry == [fd : Fd, events : SUBSET Bits]

\* The inductive invariant.
PollInv ==
  /\ pollfds \in Seq(Entry)
  /\ Indexed(PollKeys, Len(pollfds), phandles)

LEMMA PollSteps ==
  ASSUME [Next]_vars
  PROVE  \/ \E fd \in Fd, e \in SUBSET Bits : P!Add(fd, e) \/ P!Update(fd, e)
         \/ \E fd \in Fd : P!Remove(fd)
         \/ \E now \in [Fd -> SUBSET Bits] : P!Report(now)
         \/ P!Fails
         \/ UNCHANGED poll
  BY SelectorsAssumption
     DEF Next, EpollStep, PollStep, SelectStep, KqueueStep, vars, Events

(* What the map and the array say of a registered descriptor. *)
LEMMA PollTypes ==
  ASSUME PollInv
  PROVE  /\ Len(pollfds) \in Nat /\ DOMAIN phandles \subseteq Fd
         /\ DOMAIN pollfds = 1 .. Len(pollfds)
         /\ \A i \in 1 .. Len(pollfds) :
              /\ pollfds[i] \in Entry
              /\ pollfds[i].fd \in DOMAIN phandles /\ phandles[pollfds[i].fd] = i
         /\ \A fd \in DOMAIN phandles :
              phandles[fd] \in 1 .. Len(pollfds) /\ pollfds[phandles[fd]].fd = fd
<1>1. /\ Len(pollfds) \in Nat /\ DOMAIN pollfds = 1 .. Len(pollfds)
      /\ \A i \in 1 .. Len(pollfds) : pollfds[i] \in Entry
  BY DEF PollInv
<1>2. \A i \in 1 .. Len(pollfds) : PollKeys[i] = pollfds[i].fd
  BY DEF PollKeys
<1> QED
  BY <1>1, <1>2 DEF PollInv, Indexed

(* An entry is appended. *)
LEMMA AppendOne ==
  ASSUME NEW T, NEW s \in Seq(T), NEW x \in T
  PROVE  /\ Append(s, x) \in Seq(T) /\ Len(Append(s, x)) = Len(s) + 1
         /\ Append(s, x)[Len(s) + 1] = x
         /\ \A i \in 1 .. Len(s) : Append(s, x)[i] = s[i]
  OBVIOUS

(* The last of n entries is moved to place k. *)
LEMMA MoveLast ==
  ASSUME NEW T, NEW s \in Seq(T), NEW k \in 1 .. Len(s), NEW n, n = Len(s)
  PROVE  LET t == SubSeq([s EXCEPT ![k] = s[n]], 1, n - 1)
         IN /\ t \in Seq(T) /\ Len(t) = n - 1
            /\ \A i \in 1 .. n - 1 : t[i] = IF i = k THEN s[n] ELSE s[i]
<1>1. /\ [s EXCEPT ![k] = s[n]] \in Seq(T) /\ Len([s EXCEPT ![k] = s[n]]) = n
      /\ n \in Nat /\ n > 0
  OBVIOUS
<1> QED
  BY <1>1

LEMMA PollAdd ==
  ASSUME PollInv, NEW fd \in Fd, NEW e \in SUBSET Bits, P!Add(fd, e)
  PROVE  PollInv' /\ P!Abstract!Add(fd, e)
<1> DEFINE r == [fd |-> fd, events |-> e]
<1>1. /\ fd \notin DOMAIN phandles /\ pollfds' = Append(pollfds, r)
      /\ phandles' = [g \in DOMAIN phandles \cup {fd} |->
                        IF g = fd THEN Len(pollfds) + 1 ELSE phandles[g]]
      /\ P!Silent
  BY DEF P!Add
<1>2. r \in Entry /\ r.fd = fd /\ r.events = e
  BY DEF Entry
<1> HIDE DEF r
<1>3. /\ pollfds' \in Seq(Entry)
      /\ Len(pollfds') = Len(pollfds) + 1
      /\ pollfds'[Len(pollfds) + 1] = r
      /\ \A i \in 1 .. Len(pollfds) : pollfds'[i] = pollfds[i]
  BY <1>1, <1>2, AppendOne DEF PollInv
<1>4. PollInv'
  <2>1. /\ Indexed(PollKeys, Len(pollfds), phandles)
        /\ \A i \in 1 .. Len(pollfds) : PollKeys'[i] = PollKeys[i]
        /\ PollKeys'[Len(pollfds) + 1] = fd
    BY <1>2, <1>3, PollTypes DEF PollInv, PollKeys
  <2>2. Indexed(PollKeys', Len(pollfds) + 1, phandles')
    <3>1. /\ DOMAIN phandles' = DOMAIN phandles \cup {fd}
          /\ phandles'[fd] = Len(pollfds) + 1
          /\ \A g \in DOMAIN phandles : phandles'[g] = phandles[g]
      BY <1>1
    <3>2. fd \notin DOMAIN phandles
      BY <1>1
    <3>3. Appends(PollKeys, Len(pollfds), phandles, fd,
                  PollKeys', Len(pollfds) + 1, phandles')
      BY <2>1, <3>1, <3>2 DEF Appends
    <3> QED
      BY <3>3, IndexAdd
  <2> QED
    BY <1>3, <2>2 DEF PollInv, Indexed
<1>5. \A g \in DOMAIN phandles' :
        pollfds'[phandles'[g]].events =
          IF g = fd THEN e ELSE pollfds[phandles[g]].events
  BY <1>1, <1>2, <1>3, PollTypes
<1>6. P!Abstract!Silent
  BY <1>1 DEF P!Silent, P!Abstract!Silent, P!Abstract!NotReady
<1> QED
  BY <1>1, <1>4, <1>5, <1>6 DEF P!Abstract!Add

LEMMA PollUpdate ==
  ASSUME PollInv, NEW fd \in Fd, NEW e \in SUBSET Bits, P!Update(fd, e)
  PROVE  PollInv' /\ P!Abstract!Update(fd, e)
<1> DEFINE k == phandles[fd]
<1>1. /\ fd \in DOMAIN phandles /\ phandles' = phandles /\ P!Silent
      /\ pollfds' = [pollfds EXCEPT ![k] = [pollfds[k] EXCEPT !.events = e]]
      /\ k \in 1 .. Len(pollfds) /\ pollfds[k].fd = fd
  BY PollTypes DEF P!Update
<1>2. /\ [pollfds[k] EXCEPT !.events = e] \in Entry
      /\ [pollfds[k] EXCEPT !.events = e].fd = fd
      /\ [pollfds[k] EXCEPT !.events = e].events = e
  BY <1>1, PollTypes DEF Entry
<1> HIDE DEF k
<1>3. /\ pollfds' \in Seq(Entry)
      /\ Len(pollfds') = Len(pollfds)
      /\ pollfds'[k].fd = fd /\ pollfds'[k].events = e
      /\ \A i \in 1 .. Len(pollfds) : i # k => pollfds'[i] = pollfds[i]
  BY <1>1, <1>2 DEF PollInv
<1>4. PollInv'
  <2>1. PollKeys' = PollKeys
    BY <1>1, <1>3 DEF PollKeys
  <2> QED
    BY <1>1, <1>3, <2>1 DEF PollInv
<1>5. \A g \in DOMAIN phandles : g # fd => phandles[g] # k
  BY <1>1, PollTypes DEF k
<1>6. \A g \in DOMAIN phandles' :
        pollfds'[phandles'[g]].events =
          IF g = fd THEN e ELSE pollfds[phandles[g]].events
  BY <1>1, <1>3, <1>5, PollTypes DEF k
<1>7. P!Abstract!Silent
  BY <1>1 DEF P!Silent, P!Abstract!Silent, P!Abstract!NotReady
<1> QED
  BY <1>1, <1>4, <1>6, <1>7 DEF P!Abstract!Update

(* The entry that is moved keeps its descriptor and its events. *)
LEMMA PollRemove ==
  ASSUME PollInv, NEW fd \in Fd, P!Remove(fd)
  PROVE  PollInv' /\ P!Abstract!Remove(fd)
<1> DEFINE n == Len(pollfds)
           k == phandles[fd]
<1>1. /\ fd \in DOMAIN phandles /\ P!Silent
      /\ pollfds' = SubSeq([pollfds EXCEPT ![k] = pollfds[n]], 1, n - 1)
      /\ phandles' = [g \in DOMAIN phandles \ {fd} |->
                        [phandles EXCEPT ![pollfds[n].fd] = k][g]]
      /\ n \in Nat /\ k \in 1 .. n /\ n \in 1 .. n
      /\ pollfds \in Seq(Entry)
  <2>1. /\ fd \in DOMAIN phandles /\ n \in Nat /\ k \in 1 .. n
        /\ pollfds \in Seq(Entry)
    BY PollTypes DEF P!Remove, PollInv
  <2>2. Len([pollfds EXCEPT ![k] = pollfds[n]]) = n
    BY <2>1
  <2> QED
    BY <2>1, <2>2 DEF P!Remove, P!Front
<1> HIDE DEF n, k
<1>2. /\ pollfds' \in Seq(Entry)
      /\ Len(pollfds') = n - 1
      /\ \A i \in 1 .. n - 1 :
           pollfds'[i] = IF i = k THEN pollfds[n] ELSE pollfds[i]
  <2>1. pollfds \in Seq(Entry) /\ k \in 1 .. Len(pollfds) /\ n = Len(pollfds)
    BY <1>1 DEF n
  <2>2. pollfds' = SubSeq([pollfds EXCEPT ![k] = pollfds[n]], 1, n - 1)
    BY <1>1
  <2>3. LET t == SubSeq([pollfds EXCEPT ![k] = pollfds[n]], 1, n - 1)
         IN /\ t \in Seq(Entry) /\ Len(t) = n - 1
            /\ \A i \in 1 .. n - 1 : t[i] = IF i = k THEN pollfds[n] ELSE pollfds[i]
    BY <2>1, MoveLast
  <2> QED
    BY <2>2, <2>3, Zenon
<1>3. PollInv'
  <2>1. /\ Indexed(PollKeys, n, phandles) /\ PollKeys[n] = pollfds[n].fd
        /\ \A i \in 1 .. n - 1 :
             PollKeys'[i] = IF i = phandles[fd] THEN PollKeys[n] ELSE PollKeys[i]
    BY <1>1, <1>2 DEF PollInv, PollKeys, n, k
  <2>2. Indexed(PollKeys', n - 1, phandles')
    <3>1. DOMAIN phandles' = DOMAIN phandles \ {fd}
      BY <1>1
    <3>2. pollfds[n].fd \in DOMAIN phandles
      BY <1>1, PollTypes DEF n
    <3>3. \A g \in DOMAIN phandles' :
            phandles'[g] = IF g = PollKeys[n] THEN phandles[fd] ELSE phandles[g]
      BY <1>1, <2>1, <3>2 DEF k
    <3>4. MovesLast(PollKeys, n, phandles, fd, PollKeys', n - 1, phandles')
      BY <1>1, <2>1, <3>1, <3>3 DEF MovesLast
    <3> QED
      BY <3>4, IndexRemove
  <2> QED
    BY <1>2, <2>2 DEF PollInv
<1>4. /\ DOMAIN phandles' = DOMAIN phandles \ {fd}
      /\ \A g \in DOMAIN phandles' :
           pollfds'[phandles'[g]].events = pollfds[phandles[g]].events
  <2>1. DOMAIN phandles' = DOMAIN phandles \ {fd}
    BY <1>1
  <2> SUFFICES ASSUME NEW g \in DOMAIN phandles, g # fd
               PROVE  pollfds'[phandles'[g]].events = pollfds[phandles[g]].events
    BY <2>1
  <2>2. CASE g = pollfds[n].fd
    <3>1. phandles'[g] = k /\ phandles[g] = n /\ k # n
      BY <1>1, <2>2, PollTypes DEF n, k
    <3>2. k \in 1 .. n - 1
      BY <1>1, <3>1
    <3> QED
      BY <1>2, <3>1, <3>2
  <2>3. CASE g # pollfds[n].fd
    <3>1. phandles'[g] = phandles[g] /\ phandles[g] \in 1 .. n
      BY <1>1, <2>3, PollTypes DEF n
    <3>2. phandles[g] # n /\ phandles[g] # k
      BY <1>1, <2>3, PollTypes DEF n, k
    <3>3. phandles[g] \in 1 .. n - 1
      BY <1>1, <3>1, <3>2
    <3> QED
      BY <1>2, <3>1, <3>2, <3>3
  <2> QED
    BY <2>2, <2>3
<1>5. P!Abstract!Silent
  BY <1>1 DEF P!Silent, P!Abstract!Silent, P!Abstract!NotReady
<1> QED
  BY <1>1, <1>3, <1>4, <1>5 DEF P!Abstract!Remove

(* The scan of the array finds each registered descriptor, once. *)
LEMMA PollReport ==
  ASSUME PollInv, NEW now \in [Fd -> SUBSET Bits], P!Report(now)
  PROVE  PollInv' /\ P!Abstract!Report
<1> DEFINE W == [fd \in DOMAIN phandles |-> pollfds[phandles[fd]].events]
           F == [fd \in DOMAIN W |-> W[fd] \cap now[fd]]
           active == {i \in DOMAIN pollfds : P!Revents(pollfds[i], now) # {}}
<1>1. /\ pready' = now /\ UNCHANGED <<pollfds, phandles>> /\ perror' = FALSE
      /\ preported' = {<<pollfds[i].fd, P!Revents(pollfds[i], now)>> : i \in active}
  BY DEF P!Report
<1>2. PollInv'
  BY <1>1 DEF PollInv, PollKeys
<1>3. \A i \in DOMAIN pollfds :
        /\ pollfds[i].fd \in DOMAIN W
        /\ P!Revents(pollfds[i], now) = F[pollfds[i].fd]
  BY PollTypes DEF P!Revents
<1>4. \A fd \in DOMAIN W : \E i \in DOMAIN pollfds : pollfds[i].fd = fd
  BY PollTypes
<1>5. preported' = {<<fd, F[fd]>> : fd \in {g \in DOMAIN W : F[g] # {}}}
  <2> HIDE DEF W, F
  <2>1. ASSUME NEW i \in active
        PROVE  <<pollfds[i].fd, P!Revents(pollfds[i], now)>>
                 \in {<<fd, F[fd]>> : fd \in {g \in DOMAIN W : F[g] # {}}}
    BY <1>3
  <2>2. ASSUME NEW fd \in DOMAIN W, F[fd] # {}
        PROVE  <<fd, F[fd]>> \in preported'
    <3>1. PICK i \in DOMAIN pollfds : pollfds[i].fd = fd
      BY <1>4
    <3>2. i \in active /\ P!Revents(pollfds[i], now) = F[fd]
      BY <1>3, <2>2, <3>1
    <3> QED
      BY <1>1, <3>1, <3>2
  <2> QED
    BY <1>1, <2>1, <2>2
<1>6. P!Abstract!Found = F
  BY <1>1 DEF P!Abstract!Found
<1> QED
  BY <1>1, <1>2, <1>5, <1>6 DEF P!Abstract!Report, P!Abstract!Pairs

LEMMA PollInit == ASSUME Init PROVE PollInv /\ P!Abstract!Init
<1>1. pollfds = <<>> /\ phandles = [fd \in {} |-> 0] /\ DOMAIN phandles = {}
  BY DEF Init, P!Init
<1>2. PollInv
  BY <1>1 DEF PollInv, Indexed
<1> QED
  BY <1>1, <1>2 DEF Init, P!Init, P!Abstract!Init, P!Abstract!NotReady

LEMMA PollNext ==
  ASSUME PollInv, [Next]_vars
  PROVE  /\ PollInv'
         /\ [P!Abstract!Register \/ P!Abstract!Report \/ P!Abstract!Fail({})]_(
               P!Abstract!selVars)
<1>1. ASSUME UNCHANGED poll PROVE PollInv' /\ UNCHANGED P!Abstract!selVars
  BY <1>1 DEF poll, PollInv, PollKeys, P!Abstract!selVars
<1>2. ASSUME P!Fails PROVE PollInv' /\ P!Abstract!Fail({})
  BY <1>2 DEF P!Fails, PollInv, PollKeys, P!Abstract!Fail, P!Abstract!NotReady
<1> QED
  BY <1>1, <1>2, PollAdd, PollUpdate, PollRemove, PollReport, PollSteps
     DEF P!Abstract!Register

(* Poll implements Selector: whatever entries a removal moves, poll() is asked
   for the events that each registered descriptor was given last. *)
THEOREM PollIsASelector == Spec => PollSelects
<1>1. Init => PollInv /\ P!Abstract!Init
  BY PollInit
<1>2. PollInv /\ [Next]_vars
        => /\ PollInv'
           /\ [P!Abstract!Register \/ P!Abstract!Report \/ P!Abstract!Fail({})]_(
                 P!Abstract!selVars)
  BY PollNext
<1> QED
  BY <1>1, <1>2, PTL DEF Spec, PollSelects, P!PollSelects, P!Abstract!Level

-----------------------------------------------------------------------------
(* Select *)

\* A set with a largest element in each part of it, as a finite set of numbers
\* has.
HasLargest(D) == \A T \in SUBSET D : T # {} => \E m \in T : \A g \in T : g <= m

\* The inductive invariant: besides the array and its map, max_fds bounds the
\* descriptors, and only registered ones are in the sets.
SelectInv ==
  /\ all_fds \in Seq(Fd) /\ Indexed(all_fds, Len(all_fds), shandles)
  /\ fds \in [Bits -> SUBSET DOMAIN shandles]
  /\ max_fds \in Nat /\ \A fd \in DOMAIN shandles : fd <= max_fds
  /\ HasLargest(DOMAIN shandles)

LEMMA LargestAdd ==
  ASSUME NEW D \in SUBSET Nat, HasLargest(D), NEW x \in Nat
  PROVE  HasLargest(D \cup {x})
<1> SUFFICES ASSUME NEW T \in SUBSET (D \cup {x}), T # {}
             PROVE  \E m \in T : \A g \in T : g <= m
  BY DEF HasLargest
<1>1. CASE T \ {x} = {}
  <2>1. T = {x}
    BY <1>1
  <2> QED
    BY <2>1
<1>2. CASE T \ {x} # {}
  <2>1. PICK m \in T \ {x} : \A g \in T \ {x} : g <= m
    BY <1>2 DEF HasLargest
  <2>2. m \in Nat
    OBVIOUS
  <2>3. CASE x \in T /\ m <= x
    <3>1. \A g \in T : g <= x
      BY <2>1, <2>2, <2>3
    <3> QED
      BY <2>3, <3>1
  <2>4. CASE ~(x \in T /\ m <= x)
    <3>1. \A g \in T : g <= m
      BY <2>1, <2>2, <2>4
    <3> QED
      BY <3>1
  <2> QED
    BY <2>3, <2>4
<1> QED
  BY <1>1, <1>2

LEMMA LargestIsKey ==
  ASSUME NEW D \in SUBSET Nat, HasLargest(D)
  PROVE  S!LastKey(D) \in Nat /\ \A g \in D : g <= S!LastKey(D)
<1>1. CASE D = {}
  BY <1>1 DEF S!LastKey
<1>2. CASE D # {}
  <2>1. \E m \in D : \A g \in D : g <= m
    BY <1>2 DEF HasLargest
  <2>2. S!LastKey(D) = CHOOSE m \in D : \A g \in D : g <= m
    BY <1>2 DEF S!LastKey
  <2> QED
    BY <2>1, <2>2
<1> QED
  BY <1>1, <1>2

LEMMA SelectSteps ==
  ASSUME [Next]_vars
  PROVE  \/ \E fd \in Fd, e \in SUBSET Bits : S!Add(fd, e) \/ S!Update(fd, e)
         \/ \E fd \in Fd : S!Remove(fd)
         \/ \E now \in [Fd -> SUBSET Bits] : S!Report(now)
         \/ S!Fails
         \/ UNCHANGED select
  BY SelectorsAssumption
     DEF Next, EpollStep, PollStep, SelectStep, KqueueStep, vars, Events

LEMMA SelectTypes ==
  ASSUME SelectInv
  PROVE  /\ Len(all_fds) \in Nat /\ DOMAIN all_fds = 1 .. Len(all_fds)
         /\ DOMAIN shandles \subseteq Fd /\ DOMAIN shandles \subseteq Nat
         /\ \A i \in 1 .. Len(all_fds) :
              all_fds[i] \in DOMAIN shandles /\ shandles[all_fds[i]] = i
         /\ \A fd \in DOMAIN shandles :
              /\ shandles[fd] \in 1 .. Len(all_fds)
              /\ all_fds[shandles[fd]] = fd
         /\ \A b \in Bits : fds[b] \subseteq DOMAIN shandles
<1>1. Len(all_fds) \in Nat /\ DOMAIN all_fds = 1 .. Len(all_fds)
  BY DEF SelectInv
<1>2. DOMAIN shandles \subseteq Fd /\ DOMAIN shandles \subseteq Nat
  BY SelectorsAssumption DEF SelectInv, Indexed
<1>3. \A b \in Bits : fds[b] \subseteq DOMAIN shandles
  BY DEF SelectInv
<1> QED
  BY <1>1, <1>2, <1>3 DEF SelectInv, Indexed

(* What FD_SET and FD_CLR leave of the events of each descriptor. *)
LEMMA SetFdsStep ==
  ASSUME NEW fd, NEW e \in SUBSET Bits, S!SetFds(fd, e)
  PROVE  \A b \in Bits : \A g :
        g \in fds'[b] <=> IF g = fd THEN b \in e ELSE g \in fds[b]
  BY DEF S!SetFds

LEMMA SelectAdd ==
  ASSUME SelectInv, NEW fd \in Fd, NEW e \in SUBSET Bits, S!Add(fd, e)
  PROVE  SelectInv' /\ S!Abstract!Add(fd, e)
<1>1. /\ fd \notin DOMAIN shandles /\ all_fds' = Append(all_fds, fd)
      /\ DOMAIN shandles' = DOMAIN shandles \cup {fd}
      /\ shandles'[fd] = Len(all_fds) + 1
      /\ \A g \in DOMAIN shandles : shandles'[g] = shandles[g]
      /\ max_fds' = IF fd > max_fds THEN fd ELSE max_fds
      /\ S!SetFds(fd, e) /\ S!Silent
  BY DEF S!Add
<1>2. /\ all_fds' \in Seq(Fd) /\ Len(all_fds') = Len(all_fds) + 1
      /\ all_fds'[Len(all_fds) + 1] = fd
      /\ \A i \in 1 .. Len(all_fds) : all_fds'[i] = all_fds[i]
  BY <1>1, AppendOne DEF SelectInv
<1>3. Indexed(all_fds', Len(all_fds'), shandles')
  <2>1. Appends(all_fds, Len(all_fds), shandles, fd,
                all_fds', Len(all_fds) + 1, shandles')
    BY <1>1, <1>2 DEF Appends, SelectInv
  <2> QED
    BY <1>2, <2>1, IndexAdd
<1>4. /\ max_fds' \in Nat /\ \A g \in DOMAIN shandles' : g <= max_fds'
      /\ HasLargest(DOMAIN shandles')
  <2>1. fd \in Nat /\ max_fds \in Nat /\ \A g \in DOMAIN shandles : g <= max_fds
    BY SelectorsAssumption DEF SelectInv
  <2>2. HasLargest(DOMAIN shandles')
    <3> DEFINE D == DOMAIN shandles
    <3>1. D \in SUBSET Nat /\ HasLargest(D) /\ DOMAIN shandles' = D \cup {fd}
      BY <1>1, SelectTypes DEF SelectInv
    <3> HIDE DEF D
    <3>2. HasLargest(D \cup {fd})
      BY <2>1, <3>1, LargestAdd
    <3> QED
      BY <3>1, <3>2
  <2> QED
    BY <1>1, <2>1, <2>2, SelectTypes
<1>5. \A b \in Bits : \A g :
        g \in fds'[b] <=> IF g = fd THEN b \in e ELSE g \in fds[b]
  BY <1>1, SetFdsStep
<1>6. fds' \in [Bits -> SUBSET DOMAIN shandles']
  <2>1. \A b \in Bits : fds'[b] \subseteq DOMAIN shandles'
    BY <1>1, <1>5, SelectTypes
  <2> QED
    BY <1>1, <2>1 DEF S!SetFds
<1>7. \A g \in DOMAIN shandles' :
        {b \in Bits : g \in fds'[b]} =
          IF g = fd THEN e ELSE {b \in Bits : g \in fds[b]}
  BY <1>5
<1>8. S!Abstract!Silent
  BY <1>1 DEF S!Silent, S!Abstract!Silent, S!Abstract!NotReady
<1>9. S!Abstract!Add(fd, e)
  BY <1>1, <1>7, <1>8 DEF S!Abstract!Add
<1> QED
  BY <1>2, <1>3, <1>4, <1>6, <1>9 DEF SelectInv

LEMMA SelectUpdate ==
  ASSUME SelectInv, NEW fd \in Fd, NEW e \in SUBSET Bits, S!Update(fd, e)
  PROVE  SelectInv' /\ S!Abstract!Update(fd, e)
<1>1. /\ fd \in DOMAIN shandles /\ S!SetFds(fd, e) /\ S!Silent
      /\ UNCHANGED <<all_fds, shandles, max_fds>>
  BY DEF S!Update
<1>2. \A b \in Bits : \A g :
        g \in fds'[b] <=> IF g = fd THEN b \in e ELSE g \in fds[b]
  BY <1>1, SetFdsStep
<1>3. fds' \in [Bits -> SUBSET DOMAIN shandles']
  <2>1. \A b \in Bits : fds'[b] \subseteq DOMAIN shandles'
    BY <1>1, <1>2, SelectTypes
  <2> QED
    BY <1>1, <2>1 DEF S!SetFds
<1>4. \A g \in DOMAIN shandles :
        {b \in Bits : g \in fds'[b]} =
          IF g = fd THEN e ELSE {b \in Bits : g \in fds[b]}
  BY <1>2
<1>5. S!Abstract!Silent
  BY <1>1 DEF S!Silent, S!Abstract!Silent, S!Abstract!NotReady
<1>6. S!Abstract!Update(fd, e)
  BY <1>1, <1>4, <1>5 DEF S!Abstract!Update
<1> QED
  BY <1>1, <1>3, <1>6 DEF SelectInv

(* When the largest descriptor goes, the largest of the rest is found. *)
LEMMA SelectRemove ==
  ASSUME SelectInv, NEW fd \in Fd, S!Remove(fd)
  PROVE  SelectInv' /\ S!Abstract!Remove(fd)
<1> DEFINE n == Len(all_fds)
           k == shandles[fd]
<1>1. /\ fd \in DOMAIN shandles /\ S!SetFds(fd, {}) /\ S!Silent
      /\ all_fds' = SubSeq([all_fds EXCEPT ![k] = all_fds[n]], 1, n - 1)
      /\ shandles' = [g \in DOMAIN shandles \ {fd} |->
                        [shandles EXCEPT ![all_fds[n]] = k][g]]
      /\ max_fds' = IF fd = max_fds \/ n = 1
                    THEN S!LastKey(DOMAIN shandles \ {fd}) ELSE max_fds
  BY DEF S!Remove
<1>2. /\ n \in Nat /\ k \in 1 .. n /\ n \in 1 .. n /\ all_fds \in Seq(Fd)
      /\ all_fds[n] \in DOMAIN shandles
  <2>1. n \in Nat /\ k \in 1 .. n
    BY <1>1, SelectTypes
  <2>2. n \in 1 .. n
    BY <2>1
  <2> QED
    BY <2>1, <2>2, SelectTypes DEF SelectInv
<1> HIDE DEF n, k
<1>3. /\ DOMAIN shandles' = DOMAIN shandles \ {fd}
      /\ \A g \in DOMAIN shandles' :
           shandles'[g] = IF g = all_fds[n] THEN k ELSE shandles[g]
  BY <1>1, <1>2
<1>4. /\ all_fds' \in Seq(Fd) /\ Len(all_fds') = n - 1
      /\ \A i \in 1 .. n - 1 :
           all_fds'[i] = IF i = k THEN all_fds[n] ELSE all_fds[i]
  <2>1. all_fds \in Seq(Fd) /\ k \in 1 .. Len(all_fds) /\ n = Len(all_fds)
    BY <1>2 DEF n
  <2>2. LET t == SubSeq([all_fds EXCEPT ![k] = all_fds[n]], 1, n - 1)
         IN /\ t \in Seq(Fd) /\ Len(t) = n - 1
            /\ \A i \in 1 .. n - 1 : t[i] = IF i = k THEN all_fds[n] ELSE all_fds[i]
    BY <2>1, MoveLast
  <2> QED
    BY <1>1, <2>2, Zenon
<1>5. Indexed(all_fds', Len(all_fds'), shandles')
  <2>1. MovesLast(all_fds, n, shandles, fd, all_fds', n - 1, shandles')
    BY <1>1, <1>3, <1>4 DEF MovesLast, SelectInv, n, k
  <2> QED
    BY <1>4, <2>1, IndexRemove
<1>6. /\ max_fds' \in Nat /\ \A g \in DOMAIN shandles' : g <= max_fds'
      /\ HasLargest(DOMAIN shandles')
  <2>1. HasLargest(DOMAIN shandles \ {fd})
    BY DEF SelectInv, HasLargest
  <2>2. CASE fd = max_fds \/ n = 1
    BY <1>1, <1>3, <2>1, <2>2, LargestIsKey, SelectTypes
  <2>3. CASE ~(fd = max_fds \/ n = 1)
    BY <1>1, <1>3, <2>1, <2>3 DEF SelectInv
  <2> QED
    BY <2>2, <2>3
<1>7. \A b \in Bits : \A g : g \in fds'[b] <=> g # fd /\ g \in fds[b]
  BY <1>1, SetFdsStep
<1>8. fds' \in [Bits -> SUBSET DOMAIN shandles']
  <2>1. \A b \in Bits : fds'[b] \subseteq DOMAIN shandles'
    BY <1>3, <1>7, SelectTypes
  <2> QED
    BY <1>1, <2>1 DEF S!SetFds
<1>9. \A g \in DOMAIN shandles' :
        {b \in Bits : g \in fds'[b]} = {b \in Bits : g \in fds[b]}
  BY <1>3, <1>7
<1>10. S!Abstract!Silent
  BY <1>1 DEF S!Silent, S!Abstract!Silent, S!Abstract!NotReady
<1>11. S!Abstract!Remove(fd)
  BY <1>1, <1>3, <1>9, <1>10 DEF S!Abstract!Remove
<1> QED
  BY <1>4, <1>5, <1>6, <1>8, <1>11 DEF SelectInv

(* The scan of the copies finds each registered descriptor, once. *)
LEMMA SelectScan ==
  ASSUME SelectInv, NEW left, NEW F, DOMAIN F = DOMAIN shandles,
         \A fd \in DOMAIN shandles : left[fd] = F[fd]
  PROVE  S!Scan(left) = S!Abstract!Pairs(F)
<1> DEFINE active == {i \in DOMAIN all_fds : left[all_fds[i]] # {}}
           pairs  == {<<all_fds[i], left[all_fds[i]]>> : i \in active}
<1>1. /\ \A i \in DOMAIN all_fds : all_fds[i] \in DOMAIN F
      /\ \A fd \in DOMAIN F : \E i \in DOMAIN all_fds : all_fds[i] = fd
  BY SelectTypes
<1>2. ASSUME NEW i \in active
      PROVE  <<all_fds[i], left[all_fds[i]]>> \in S!Abstract!Pairs(F)
  BY <1>1 DEF S!Abstract!Pairs
<1>3. ASSUME NEW fd \in DOMAIN F, F[fd] # {}
      PROVE  <<fd, F[fd]>> \in pairs
  <2>1. PICK i \in DOMAIN all_fds : all_fds[i] = fd
    BY <1>1
  <2>2. i \in active /\ left[all_fds[i]] = F[fd]
    BY <1>3, <2>1
  <2> QED
    BY <2>1, <2>2
<1>4. pairs = S!Abstract!Pairs(F)
  BY <1>2, <1>3 DEF S!Abstract!Pairs
<1> QED
  BY <1>4 DEF S!Scan

\* The abstract watched.
SelectWatched == [fd \in DOMAIN shandles |-> {b \in Bits : fd \in fds[b]}]

LEMMA SelectReport ==
  ASSUME SelectInv, NEW now \in [Fd -> SUBSET Bits], S!Report(now)
  PROVE  SelectInv' /\ S!Abstract!Report
<1> DEFINE left == [fd \in Fd |-> IF fd <= max_fds THEN S!Asked[fd] \cap now[fd]
                                                  ELSE {}]
           F == [fd \in DOMAIN SelectWatched |-> SelectWatched[fd] \cap now[fd]]
<1>1. /\ sready' = now /\ UNCHANGED <<all_fds, shandles, fds, max_fds>>
      /\ sreported' = S!Scan(left) /\ serror' = FALSE
  BY DEF S!Report
<1>2. SelectInv'
  BY <1>1 DEF SelectInv
<1>3. DOMAIN F = DOMAIN shandles
  BY DEF SelectWatched
<1>4. \A fd \in DOMAIN shandles : left[fd] = F[fd]
  BY SelectTypes DEF SelectInv, SelectWatched, S!Asked
<1> HIDE DEF left, F
<1>5. sreported' = S!Abstract!Pairs(F)
  BY <1>1, <1>3, <1>4, SelectScan
<1>6. S!Abstract!Found = F
  BY <1>1 DEF S!Abstract!Found, F, SelectWatched
<1> QED
  BY <1>1, <1>2, <1>5, <1>6 DEF S!Abstract!Report

(* When select() fails, the scan finds everything that is asked for. *)
LEMMA SelectFails ==
  ASSUME SelectInv, S!Fails
  PROVE  SelectInv' /\ S!Abstract!Fail(S!Abstract!Pairs(SelectWatched))
<1>1. /\ sready' = [fd \in Fd |-> {}] /\ serror' = TRUE
      /\ UNCHANGED <<all_fds, shandles, fds, max_fds>>
      /\ sreported' = S!Scan(S!Asked)
  BY DEF S!Fails
<1>2. SelectInv'
  BY <1>1 DEF SelectInv
<1>3. DOMAIN SelectWatched = DOMAIN shandles
  BY DEF SelectWatched
<1>4. \A fd \in DOMAIN shandles : S!Asked[fd] = SelectWatched[fd]
  BY SelectTypes DEF SelectWatched, S!Asked
<1>5. sreported' = S!Abstract!Pairs(SelectWatched)
  BY <1>1, <1>3, <1>4, SelectScan
<1> QED
  BY <1>1, <1>2, <1>5 DEF S!Abstract!Fail, S!Abstract!NotReady

LEMMA SelectInit == ASSUME Init PROVE SelectInv /\ S!Abstract!Init
<1>1. /\ all_fds = <<>> /\ shandles = [fd \in {} |-> 0] /\ DOMAIN shandles = {}
      /\ fds = [b \in Bits |-> {}] /\ max_fds = 0
  BY DEF Init, S!Init
<1>2. SelectInv
  BY <1>1 DEF SelectInv, Indexed, HasLargest
<1> QED
  BY <1>1, <1>2 DEF Init, S!Init, S!Abstract!Init, S!Abstract!NotReady

LEMMA SelectNext ==
  ASSUME SelectInv, [Next]_vars
  PROVE  /\ SelectInv'
         /\ [\/ S!Abstract!Register \/ S!Abstract!Report
             \/ S!Abstract!Fail(S!Abstract!Pairs(SelectWatched))]_(
               S!Abstract!selVars)
<1>1. ASSUME UNCHANGED select PROVE SelectInv' /\ UNCHANGED S!Abstract!selVars
  BY <1>1 DEF select, SelectInv, S!Abstract!selVars
<1> QED
  BY <1>1, SelectAdd, SelectUpdate, SelectRemove, SelectReport, SelectFails,
     SelectSteps DEF S!Abstract!Register

(* Select implements Selector, of the kind that does not look whether select()
   failed: max_fds, which select() must be told, is never below a registered
   descriptor, the array names each of them, and a call that fails reports of
   them all that is asked for. *)
THEOREM SelectIsASelector == Spec => SelectSelects
<1>1. Init => SelectInv /\ S!Abstract!Init
  BY SelectInit
<1>2. SelectInv /\ [Next]_vars
        => /\ SelectInv'
           /\ [\/ S!Abstract!Register \/ S!Abstract!Report
               \/ S!Abstract!Fail(S!Abstract!Pairs(SelectWatched))]_(
                 S!Abstract!selVars)
  BY SelectNext
<1> QED
  BY <1>1, <1>2, PTL
     DEF Spec, SelectSelects, S!SelectSelects, S!Abstract!Guessing, SelectWatched

-----------------------------------------------------------------------------
(* Kqueue *)

\* The inductive invariant: the filters that are on are the events each
\* registered descriptor is watched for, and those that enable_events has have
\* been added.
KqueueInv ==
  /\ failed = FALSE
  /\ DOMAIN revents \subseteq Fd /\ DOMAIN enable_events = DOMAIN revents
  /\ filters \in [Fd -> [Bits -> {"absent", "on", "off"}]]
  /\ \A fd \in DOMAIN revents :
       /\ revents[fd] = {b \in Bits : filters[fd][b] = "on"}
       /\ \A b \in enable_events[fd] : filters[fd][b] # "absent"
       /\ revents[fd] \subseteq enable_events[fd] /\ enable_events[fd] \subseteq Bits
  /\ \A fd \in Fd \ DOMAIN revents : \A b \in Bits : filters[fd][b] # "on"

LEMMA KqueueSteps ==
  ASSUME [Next]_vars
  PROVE  \/ \E fd \in Fd, e \in SUBSET Bits : K!Add(fd, e) \/ K!Update(fd, e)
         \/ \E fd \in Fd : K!Remove(fd) \/ K!CloseFd(fd)
         \/ K!Report([fd \in Fd |-> Bits])
         \/ \E errno \in Errno : K!Fails(errno)
         \/ UNCHANGED kqueue
  BY DEF Next, EpollStep, PollStep, SelectStep, KqueueStep, vars, Events

\* A call of kevent() that the kernel accepts.
Accepted(fd, to, needed) ==
  /\ K!SetKevent(fd, to, needed)
  /\ \A b \in DOMAIN to : to[b] \in {"absent", "on", "off"}
  /\ \A b \in needed : filters[fd][b] # "absent"

\* The filters of fd become what to says, and no others change.
Filtered(fd, to) ==
  /\ filters' \in [Fd -> [Bits -> {"absent", "on", "off"}]]
  /\ failed' = FALSE
  /\ \A g \in Fd : g # fd => filters'[g] = filters[g]
  /\ \A b \in Bits :
       filters'[fd][b] = IF b \in DOMAIN to THEN to[b] ELSE filters[fd][b]

(* A call of kevent() changes the filters of one descriptor. *)
LEMMA SetKeventStep ==
  ASSUME KqueueInv, NEW fd \in Fd, NEW to, NEW needed, Accepted(fd, to, needed)
  PROVE  Filtered(fd, to)
<1> DEFINE C == {"absent", "on", "off"}
           new == [b \in Bits |-> IF b \in DOMAIN to THEN to[b] ELSE filters[fd][b]]
<1>1. filters' = [filters EXCEPT ![fd] = new] /\ failed' = FALSE
  BY DEF Accepted, K!SetKevent, KqueueInv
<1>2. new \in [Bits -> C] /\ filters \in [Fd -> [Bits -> C]]
  BY DEF Accepted, KqueueInv
<1>3. \A b \in Bits : new[b] = IF b \in DOMAIN to THEN to[b] ELSE filters[fd][b]
  OBVIOUS
<1> HIDE DEF C, new
<1>4. /\ filters' \in [Fd -> [Bits -> C]] /\ filters'[fd] = new
      /\ \A g \in Fd : g # fd => filters'[g] = filters[g]
  BY <1>1, <1>2
<1> QED
  BY <1>1, <1>3, <1>4 DEF C, Filtered

LEMMA KqueueAdd ==
  ASSUME KqueueInv, NEW fd \in Fd, NEW e \in SUBSET Bits, K!Add(fd, e)
  PROVE  KqueueInv' /\ K!Abstract!Add(fd, e)
<1>1. /\ fd \notin DOMAIN revents /\ K!SetKevent(fd, [b \in e |-> "on"], {})
      /\ DOMAIN revents' = DOMAIN revents \cup {fd}
      /\ DOMAIN enable_events' = DOMAIN revents \cup {fd}
      /\ revents'[fd] = e /\ enable_events'[fd] = e
      /\ \A g \in DOMAIN revents :
           revents'[g] = revents[g] /\ enable_events'[g] = enable_events[g]
      /\ K!Silent
  BY DEF K!Add, K!Put, KqueueInv
<1>2. /\ filters' \in [Fd -> [Bits -> {"absent", "on", "off"}]]
      /\ failed' = FALSE
      /\ \A g \in Fd : g # fd => filters'[g] = filters[g]
      /\ \A b \in Bits : filters'[fd][b] = IF b \in e THEN "on" ELSE filters[fd][b]
  <2> DEFINE to   == [b \in e |-> "on"]
             none == {}
  <2>1. /\ DOMAIN to = e /\ \A b \in e : to[b] = "on"
        /\ \A b \in none : filters[fd][b] # "absent"
    OBVIOUS
  <2>2. \A b \in DOMAIN to : to[b] \in {"absent", "on", "off"}
    OBVIOUS
  <2>3. K!SetKevent(fd, to, none)
    BY <1>1
  <2> HIDE DEF to, none
  <2>4. Accepted(fd, to, none)
    BY <2>1, <2>2, <2>3 DEF Accepted
  <2>5. Filtered(fd, to)
    BY <2>4, SetKeventStep
  <2> QED
    BY <2>1, <2>5 DEF Filtered
<1>3. \A b \in Bits : filters'[fd][b] = "on" <=> b \in e
  BY <1>1, <1>2 DEF KqueueInv
<1>4. KqueueInv'
  BY <1>1, <1>2, <1>3 DEF KqueueInv
<1>5. \A g \in DOMAIN revents' :
        {b \in Bits : filters'[g][b] = "on"} =
          IF g = fd THEN e ELSE {b \in Bits : filters[g][b] = "on"}
  BY <1>1, <1>2, <1>3 DEF KqueueInv
<1>6. K!Abstract!Silent
  BY <1>1 DEF K!Silent, K!Abstract!Silent, K!Abstract!NotReady
<1> QED
  BY <1>1, <1>4, <1>5, <1>6 DEF K!Abstract!Add, K!Enabled

(* Only filters that were added are enabled or disabled. *)
LEMMA KqueueUpdate ==
  ASSUME KqueueInv, NEW fd \in Fd, NEW e \in SUBSET Bits, K!Update(fd, e)
  PROVE  KqueueInv' /\ K!Abstract!Update(fd, e)
<1> DEFINE changed == K!Changed(fd, e)
           to == [b \in changed |-> IF b \in e THEN "on" ELSE "off"]
<1>1. /\ fd \in DOMAIN revents
      /\ K!SetKevent(fd, to, changed \cap enable_events[fd])
      /\ DOMAIN revents' = DOMAIN revents
      /\ DOMAIN enable_events' = DOMAIN revents
      /\ revents'[fd] = e /\ enable_events'[fd] = enable_events[fd] \cup e
      /\ \A g \in DOMAIN revents : g # fd =>
           revents'[g] = revents[g] /\ enable_events'[g] = enable_events[g]
      /\ K!Silent
  BY DEF K!Update, K!Switch, KqueueInv
<1>2. /\ filters' \in [Fd -> [Bits -> {"absent", "on", "off"}]]
      /\ failed' = FALSE
      /\ \A g \in Fd : g # fd => filters'[g] = filters[g]
      /\ \A b \in Bits :
           filters'[fd][b] = IF b \in changed THEN IF b \in e THEN "on" ELSE "off"
                             ELSE filters[fd][b]
  <2>1. \A b \in changed \cap enable_events[fd] : filters[fd][b] # "absent"
    BY <1>1 DEF KqueueInv
  <2>2. DOMAIN to = changed /\ \A b \in changed : to[b] = IF b \in e THEN "on" ELSE "off"
    OBVIOUS
  <2>3. \A b \in DOMAIN to : to[b] \in {"absent", "on", "off"}
    BY <2>2
  <2>4. K!SetKevent(fd, to, changed \cap enable_events[fd])
    BY <1>1
  <2> HIDE DEF to, changed
  <2>5. Accepted(fd, to, changed \cap enable_events[fd])
    BY <2>1, <2>3, <2>4 DEF Accepted
  <2>6. Filtered(fd, to)
    BY <2>5, SetKeventStep
  <2> QED
    BY <2>2, <2>6 DEF Filtered
<1>3. \A b \in Bits :
        b \in changed <=> (b \in e /\ filters[fd][b] # "on")
                            \/ (b \notin e /\ filters[fd][b] = "on")
  BY <1>1 DEF K!Changed, KqueueInv
<1> HIDE DEF changed
<1>4. \A b \in Bits : filters'[fd][b] = "on" <=> b \in e
  BY <1>2, <1>3
<1>5. \A b \in enable_events[fd] \cup e : filters'[fd][b] # "absent"
  BY <1>1, <1>2, <1>3 DEF KqueueInv
<1>6. KqueueInv'
  <2>1. \A g \in DOMAIN revents' :
          /\ revents'[g] = {b \in Bits : filters'[g][b] = "on"}
          /\ \A b \in enable_events'[g] : filters'[g][b] # "absent"
          /\ revents'[g] \subseteq enable_events'[g]
          /\ enable_events'[g] \subseteq Bits
    <3> SUFFICES ASSUME NEW g \in DOMAIN revents
                 PROVE  /\ revents'[g] = {b \in Bits : filters'[g][b] = "on"}
                        /\ \A b \in enable_events'[g] : filters'[g][b] # "absent"
                        /\ revents'[g] \subseteq enable_events'[g]
                        /\ enable_events'[g] \subseteq Bits
      BY <1>1
    <3>1. CASE g = fd
      BY <1>1, <1>4, <1>5, <3>1 DEF KqueueInv
    <3>2. CASE g # fd
      BY <1>1, <1>2, <3>2 DEF KqueueInv
    <3> QED
      BY <3>1, <3>2
  <2> QED
    BY <1>1, <1>2, <2>1 DEF KqueueInv
<1>7. \A g \in DOMAIN revents :
        {b \in Bits : filters'[g][b] = "on"} =
          IF g = fd THEN e ELSE {b \in Bits : filters[g][b] = "on"}
  BY <1>1, <1>2, <1>4 DEF KqueueInv
<1>8. K!Abstract!Silent
  BY <1>1 DEF K!Silent, K!Abstract!Silent, K!Abstract!NotReady
<1> QED
  BY <1>1, <1>6, <1>7, <1>8 DEF K!Abstract!Update, K!Enabled

(* Filters that are off are left over; none that is on is. *)
LEMMA KqueueRemove ==
  ASSUME KqueueInv, NEW fd \in Fd, K!Remove(fd)
  PROVE  KqueueInv' /\ K!Abstract!Remove(fd)
<1> DEFINE to == [b \in revents[fd] |-> "absent"]
<1>1. /\ fd \in DOMAIN revents
      /\ K!SetKevent(fd, to, revents[fd])
      /\ DOMAIN revents' = DOMAIN revents \ {fd}
      /\ DOMAIN enable_events' = DOMAIN revents \ {fd}
      /\ \A g \in DOMAIN revents \ {fd} :
           revents'[g] = revents[g] /\ enable_events'[g] = enable_events[g]
      /\ K!Silent
  BY DEF K!Remove, K!Drop, KqueueInv
<1>2. /\ filters' \in [Fd -> [Bits -> {"absent", "on", "off"}]]
      /\ failed' = FALSE
      /\ \A g \in Fd : g # fd => filters'[g] = filters[g]
      /\ \A b \in Bits :
           filters'[fd][b] = IF b \in revents[fd] THEN "absent" ELSE filters[fd][b]
  <2>1. \A b \in revents[fd] : filters[fd][b] # "absent"
    BY <1>1 DEF KqueueInv
  <2>2. DOMAIN to = revents[fd] /\ \A b \in revents[fd] : to[b] = "absent"
    OBVIOUS
  <2>3. \A b \in DOMAIN to : to[b] \in {"absent", "on", "off"}
    OBVIOUS
  <2>4. K!SetKevent(fd, to, revents[fd])
    BY <1>1
  <2> HIDE DEF to
  <2>5. Accepted(fd, to, revents[fd])
    BY <2>1, <2>3, <2>4 DEF Accepted
  <2>6. Filtered(fd, to)
    BY <2>5, SetKeventStep
  <2> QED
    BY <2>2, <2>6 DEF Filtered
<1>3. \A b \in Bits : filters'[fd][b] # "on"
  BY <1>1, <1>2 DEF KqueueInv
<1>4. KqueueInv'
  BY <1>1, <1>2, <1>3 DEF KqueueInv
<1>5. \A g \in DOMAIN revents' :
        {b \in Bits : filters'[g][b] = "on"} = {b \in Bits : filters[g][b] = "on"}
  BY <1>1, <1>2 DEF KqueueInv
<1>6. K!Abstract!Silent
  BY <1>1 DEF K!Silent, K!Abstract!Silent, K!Abstract!NotReady
<1> QED
  BY <1>1, <1>4, <1>5, <1>6 DEF K!Abstract!Remove, K!Enabled

(* A descriptor that is not watched is closed: Selector sees nothing of it. *)
LEMMA KqueueClose ==
  ASSUME KqueueInv, NEW fd \in Fd, K!CloseFd(fd)
  PROVE  KqueueInv' /\ K!Abstract!ReportSome
<1>1. /\ fd \notin DOMAIN revents /\ K!Silent
      /\ UNCHANGED <<revents, enable_events, failed>>
      /\ filters' = [filters EXCEPT ![fd] = K!Absent]
      /\ K!Absent \in [Bits -> {"absent", "on", "off"}]
      /\ \A b \in Bits : K!Absent[b] = "absent"
  BY DEF K!CloseFd, K!Absent
<1>2. /\ filters' \in [Fd -> [Bits -> {"absent", "on", "off"}]]
      /\ filters'[fd] = K!Absent
      /\ \A g \in Fd : g # fd => filters'[g] = filters[g]
  <2> DEFINE T == [Bits -> {"absent", "on", "off"}]
  <2>1. filters \in [Fd -> T] /\ K!Absent \in T
    BY <1>1 DEF KqueueInv
  <2> HIDE DEF T
  <2>2. /\ filters' \in [Fd -> T] /\ filters'[fd] = K!Absent
        /\ \A g \in Fd : g # fd => filters'[g] = filters[g]
    BY <1>1, <2>1
  <2> QED
    BY <2>2 DEF T
<1>3. KqueueInv'
  BY <1>1, <1>2 DEF KqueueInv
<1>4. UNCHANGED K!Enabled
  BY <1>1, <1>2 DEF K!Enabled, KqueueInv
<1> QED
  BY <1>1, <1>3, <1>4 DEF K!Abstract!ReportSome, K!Silent

(* What is reported is of registered descriptors and watched events. *)
LEMMA KqueueReport ==
  ASSUME KqueueInv, NEW now \in [Fd -> SUBSET Bits], K!Report(now)
  PROVE  KqueueInv' /\ K!Abstract!ReportSome
<1>1. PICK some \in SUBSET K!KernelEvents(now) :
        kreported' = {<<fd, {b \in Bits : <<fd, b>> \in some}>> :
                        fd \in {p[1] : p \in some}}
  BY Zenon DEF K!Report
<1>2. /\ kready' = now /\ UNCHANGED <<revents, enable_events, filters, failed>>
      /\ kerror' = FALSE
  BY DEF K!Report
<1>3. KqueueInv'
  BY <1>2 DEF KqueueInv
<1>4. \A p \in some : /\ p = <<p[1], p[2]>> /\ p[1] \in Fd /\ p[2] \in Bits
                      /\ filters[p[1]][p[2]] = "on" /\ p[2] \in now[p[1]]
  BY DEF K!KernelEvents
<1> DEFINE events(fd) == {b \in Bits : <<fd, b>> \in some}
<1>5. \A fd \in {p[1] : p \in some} :
        /\ fd \in DOMAIN revents /\ events(fd) # {}
        /\ events(fd) \subseteq K!Enabled[fd] \cap now[fd]
  <2> SUFFICES ASSUME NEW p \in some
               PROVE  /\ p[1] \in DOMAIN revents /\ events(p[1]) # {}
                      /\ events(p[1]) \subseteq K!Enabled[p[1]] \cap now[p[1]]
    OBVIOUS
  <2>1. p[1] \in DOMAIN revents /\ p[2] \in events(p[1])
    BY <1>4 DEF KqueueInv
  <2>2. \A b \in events(p[1]) : filters[p[1]][b] = "on" /\ b \in now[p[1]]
    BY <1>4
  <2>3. K!Enabled[p[1]] = {b \in Bits : filters[p[1]][b] = "on"}
    BY <2>1 DEF K!Enabled
  <2> QED
    BY <2>1, <2>2, <2>3
<1>6. UNCHANGED K!Enabled /\ DOMAIN K!Enabled = DOMAIN revents
  BY <1>2 DEF K!Enabled
<1> HIDE DEF events
<1>7. \A q \in kreported' : q = <<q[1], events(q[1])>> /\ q[1] \in {p[1] : p \in some}
  BY <1>1 DEF events
<1>8. \A fd \in DOMAIN K!Enabled : K!Abstract!Found[fd] = K!Enabled[fd] \cap now[fd]
  BY <1>2, <1>6 DEF K!Abstract!Found
<1>9. K!Abstract!ReportSome
  <2>1. \A q \in kreported' :
          /\ q[1] \in DOMAIN K!Enabled /\ q[2] = events(q[1])
          /\ q[2] # {} /\ q[2] \subseteq K!Abstract!Found[q[1]]
    BY <1>5, <1>6, <1>7, <1>8
  <2>2. \A q, r \in kreported' : q[1] = r[1] => q = r
    BY <1>7
  <2> QED
    BY <1>2, <1>6, <2>1, <2>2 DEF K!Abstract!ReportSome
<1> QED
  BY <1>3, <1>9

LEMMA KqueueInit == ASSUME Init PROVE KqueueInv /\ K!Abstract!Init
<1>1. /\ DOMAIN revents = {} /\ DOMAIN enable_events = {} /\ failed = FALSE
      /\ filters = [fd \in Fd |-> [b \in Bits |-> "absent"]]
  BY DEF Init, K!Init, K!Absent
<1>2. KqueueInv
  BY <1>1 DEF KqueueInv
<1>3. K!Enabled = [fd \in {} |-> {}]
  BY <1>1 DEF K!Enabled
<1> QED
  BY <1>2, <1>3 DEF Init, K!Init, K!Abstract!Init, K!Abstract!NotReady

LEMMA KqueueNext ==
  ASSUME KqueueInv, [Next]_vars
  PROVE  /\ KqueueInv'
         /\ [K!Abstract!Register \/ K!Abstract!ReportSome \/ K!Abstract!Fail({})]_(
               K!Abstract!selVars)
<1>1. ASSUME UNCHANGED kqueue PROVE KqueueInv' /\ UNCHANGED K!Abstract!selVars
  BY <1>1 DEF kqueue, KqueueInv, K!Abstract!selVars, K!Enabled
<1>2. ASSUME NEW errno, K!Fails(errno) PROVE KqueueInv' /\ K!Abstract!Fail({})
  BY <1>2 DEF K!Fails, KqueueInv, K!Abstract!Fail, K!Abstract!NotReady, K!Enabled
<1>3. [fd \in Fd |-> Bits] \in [Fd -> SUBSET Bits]
  OBVIOUS
<1> QED
  BY <1>1, <1>2, <1>3, KqueueAdd, KqueueUpdate, KqueueRemove, KqueueClose, KqueueReport,
     KqueueSteps DEF K!Abstract!Register

(* No kevent() call fails, whatever filters are left over from before: the
   assertion in set_kevent. *)
THEOREM KeventAlwaysSucceeds == Spec => []KeventSucceeds
<1>1. Init => KqueueInv
  BY KqueueInit
<1>2. KqueueInv /\ [Next]_vars => KqueueInv'
  BY KqueueNext
<1>3. KqueueInv => KeventSucceeds
  BY DEF KqueueInv, KeventSucceeds, K!KeventSucceeds
<1> QED
  BY <1>1, <1>2, <1>3, PTL DEF Spec

(* Kqueue implements Selector, of the kind that reports changes: the kernel's
   filters are what was asked for last, those of a removed descriptor report
   nothing, and neither does a call that failed. *)
THEOREM KqueueIsASelector == Spec => KqueueSelects
<1>1. Init => KqueueInv /\ K!Abstract!Init
  BY KqueueInit
<1>2. KqueueInv /\ [Next]_vars
        => /\ KqueueInv'
           /\ [K!Abstract!Register \/ K!Abstract!ReportSome \/ K!Abstract!Fail({})]_(
                 K!Abstract!selVars)
  BY KqueueNext
<1> QED
  BY <1>1, <1>2, PTL
     DEF Spec, KqueueSelects, K!KqueueSelects, K!Abstract!Edge

-----------------------------------------------------------------------------
(* The arrays that the kernel writes *)

\* The array of Kqueue: the inductive invariant.
PlacesInv ==
  /\ kn_events \in Int /\ kcapacity \in Nat /\ kn_events <= kcapacity
  /\ written \in Nat /\ K!EventsAlmostFit

(* Kqueue counts as FiniteSets does. *)
LEMMA SameFinite ==
  \A T : /\ K!IsFiniteSet(T) <=> IsFiniteSet(T)
         /\ K!Cardinality(T) = Cardinality(T)
  BY Zenon DEF K!Cardinality, Cardinality, K!IsFiniteSet, IsFiniteSet

LEMMA PlacesInit == ASSUME Init PROVE PlacesInv
  BY SelectorsAssumption DEF Init, K!Init, PlacesInv, K!EventsAlmostFit

LEMMA PlacesNext == ASSUME PlacesInv, [Next]_vars PROVE PlacesInv'
<1> USE DEF PlacesInv, K!EventsAlmostFit
<1>1. CASE \E fd \in Fd, e \in SUBSET Bits : K!Add(fd, e)
  BY <1>1 DEF K!Add, K!Grown, K!Silent
<1>2. CASE \E fd \in Fd, e \in SUBSET Bits : K!Update(fd, e)
  BY <1>2 DEF K!Update, K!Silent
<1>3. CASE \E fd \in Fd : K!Remove(fd)
  <2>1. kn_events' = kn_events - 1 /\ kcapacity' = kcapacity /\ written' = 0
    BY <1>3 DEF K!Remove, K!Silent
  <2> QED
    BY <2>1
<1>4. CASE \E fd \in Fd : K!CloseFd(fd)
  BY <1>4 DEF K!CloseFd, K!Silent
<1>5. CASE K!Report([fd \in Fd |-> Bits])
  <2>1. /\ UNCHANGED <<kn_events, kcapacity>>
        /\ \E some \in SUBSET K!KernelEvents([fd \in Fd |-> Bits]) :
             /\ IsFiniteSet(some) /\ Cardinality(some) <= kn_events + 1
             /\ written' = Cardinality(some)
    BY <1>5, SameFinite, Zenon DEF K!Report
  <2>2. \A T : IsFiniteSet(T) => Cardinality(T) \in Nat
    BY FS_CardinalityType
  <2> QED
    BY <2>1, <2>2
<1>6. CASE \E errno \in Errno : K!Fails(errno)
  BY <1>6 DEF K!Fails
<1>7. CASE UNCHANGED kqueue
  BY <1>7 DEF kqueue
<1> QED
  BY <1>1, <1>2, <1>3, <1>4, <1>5, <1>6, <1>7, KqueueSteps

(* The array of Epoll never is too short for what epoll_wait() writes, although
   it may be told of one place more than there are; that of Kqueue is by one
   place at most, and only while there are as many descriptors as places. *)
THEOREM EventsAlwaysFit == Spec => []EventsFit
<1>1. Init => EpollInv /\ PlacesInv
  BY EpollInit, PlacesInit
<1>2. EpollInv /\ PlacesInv /\ [Next]_vars => (EpollInv /\ PlacesInv)'
  BY EpollNext, PlacesNext
<1>3. EpollInv /\ PlacesInv => EventsFit
  BY DEF EpollInv, PlacesInv, EventsFit
<1> QED
  BY <1>1, <1>2, <1>3, PTL DEF Spec
=============================================================================

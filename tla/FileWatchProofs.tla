-------------------------- MODULE FileWatchProofs --------------------------
(***************************************************************************)
(* The safety invariants of FileWatch and of Reload hold in every          *)
(* reachable state, for any number of files, names, inodes and modules,    *)
(* any length of the kernel's queue and any size of a read.                *)
(*                                                                         *)
(* inotify watches inodes.  That a path stays watched through any number   *)
(* of replacements rests on two facts: an inode that has lost its name     *)
(* never gets one again, so its IGNORED is sure to come; and until that    *)
(* has been handled watchs still has the path under the old inode.         *)
(***************************************************************************)
EXTENDS FileWatch, SequenceTheorems, TLAPS

\* The maps of Reload have the modules as their keys.
ReloadShape ==
  /\ loads = [m \in Module |-> loads[m]]
  /\ own = [m \in Module |-> own[m]]
  /\ methods = [m \in Module |-> methods[m]]
  /\ old_mods = [m \in Module |-> old_mods[m]]
  /\ broken = [m \in Module |->
                 [objects |-> broken[m].objects, last |-> broken[m].last]]

\* The class objects that instances still use are the module's own, or known to
\* an earlier reload, or lost in one that raised.
NoneIsForgotten(m) ==
  Alive(m) \subseteq Own(m) \cup broken[m].objects \cup Referred(m)

AreUpdated(m) ==
  ~broken[m].last =>
    \A o \in Alive(m) \ broken[m].objects : o[1] \notin NewStyle => IsUpdated(m, o)

ModuleInv(m) == ModuleTypeOK(m) /\ NoneIsForgotten(m) /\ AreUpdated(m)

ReloadInv == ReloadShape /\ \A m \in Module : ModuleInv(m)

\* No inode has two names.
NamesDiffer ==
  \A n, o \in Name : file[n] # 0 /\ file[n] = file[o] => n = o

Bounds ==
  /\ inodes \in MaxPath .. MaxInode /\ gone \subseteq Path
  /\ \A p \in Path \ gone : file[p] # 0

\* An inode without a name.
Nameless(i) == \A n \in Name : file[n] # i

\* A descriptor that the kernel has removed was that of an inode without a name.
IgnoredAreNameless ==
  \A j \in DOMAIN Pending :
    Pending[j][2] = "IGNORED" =>
      Nameless(Pending[j][1]) /\ Pending[j][1] \notin watched

\* A registered path that has always had a file is in watchs: under the inode
\* it has, or under one without a name, of which an IGNORED will come.
PathsAreKept ==
  \A p \in Path \ (gone \cup todo) :
    \E i \in DOMAIN watchs : watchs[i] = p /\ (i = file[p] \/ Nameless(i))

\* The inductive invariant.
Inv ==
  /\ TypeOK /\ ReloadInv /\ Bounds
  /\ NamesDiffer /\ EventsAreKnown /\ KernelAgrees
  /\ IgnoredAreNameless /\ PathsAreKept

-----------------------------------------------------------------------------
(* Facts about what the steps do to the events that are pending. *)

(* The events waiting are a sequence of events. *)
LEMMA PendingType ==
  ASSUME TypeOK
  PROVE  /\ Pending \in Seq(Event) /\ Len(Pending) \in Nat
         /\ DOMAIN Pending = 1 .. Len(Pending)
         /\ \A j \in 1 .. Len(Pending) :
              /\ Pending[j] = <<Pending[j][1], Pending[j][2]>>
              /\ Pending[j][1] \in Inode
  <1>1. Pending \in Seq(Event)
    BY DEF TypeOK, Pending
  <1>2. \A j \in 1 .. Len(Pending) : Pending[j] \in Event
    BY <1>1
  <1> QED
    BY <1>1, <1>2 DEF Event

(* A notification joins the end, or is dropped. *)
LEMMA NotifyAppends ==
  ASSUME TypeOK, Bounds, NEW i, NEW mask \in {"ATTRIB", "IGNORED"},
         Notify(i, mask), batch' = batch
  PROVE  /\ queue' \in Seq(Event)
         /\ \/ i \in watched /\ Pending' = Append(Pending, <<i, mask>>)
            \/ /\ Pending' = Pending
               /\ i \in watched =>
                    \E j \in DOMAIN Pending : Pending[j] = <<i, mask>>
<1>1. /\ i \in watched => <<i, mask>> \in Event
      /\ queue \in Seq(Event) /\ batch \in Seq(Event)
  BY FileWatchAssumption DEF Event, TypeOK, Bounds, Inode
<1>2. CASE i \in watched /\ (queue = <<>> \/ Last(queue) # <<i, mask>>)
  <2>1. queue' = Append(queue, <<i, mask>>)
    BY <1>2 DEF Notify
  <2>2. batch \o Append(queue, <<i, mask>>) = Append(batch \o queue, <<i, mask>>)
    BY <1>1, <1>2
  <2> QED
    BY <1>1, <1>2, <2>1, <2>2 DEF Pending
<1>3. CASE ~(i \in watched /\ (queue = <<>> \/ Last(queue) # <<i, mask>>))
  <2>1. queue' = queue
    BY <1>3 DEF Notify
  <2>2. ASSUME i \in watched
        PROVE  \E j \in DOMAIN Pending : Pending[j] = <<i, mask>>
    <3>1. queue # <<>> /\ queue[Len(queue)] = <<i, mask>>
      BY <1>3, <2>2 DEF Last
    <3>2. /\ Len(Pending) = Len(batch) + Len(queue)
          /\ Len(queue) \in Nat /\ Len(queue) > 0 /\ Len(batch) \in Nat
          /\ DOMAIN Pending = 1 .. Len(Pending)
          /\ Pending[Len(batch) + Len(queue)] = queue[Len(queue)]
      BY <1>1, <3>1 DEF Pending
    <3> QED
      BY <3>1, <3>2
  <2> QED
    BY <1>1, <2>1, <2>2 DEF Pending
<1> QED
  BY <1>2, <1>3

(* The event that is handled is the first that was pending. *)
LEMMA ToldPops ==
  ASSUME TypeOK, NEW mask, Told(mask), UNCHANGED queue
  PROVE  /\ batch' \in Seq(Event) /\ Len(Pending) > 0
         /\ Pending[1] = batch[1] /\ Pending[1][2] = mask
         /\ Len(Pending') = Len(Pending) - 1
         /\ DOMAIN Pending' = 1 .. Len(Pending) - 1
         /\ \A j \in 1 .. Len(Pending) - 1 : Pending'[j] = Pending[j + 1]
  BY DEF TypeOK, Told, Rest, Pending

(* A read() moves events and changes nothing of what is pending. *)
LEMMA ReadsMove ==
  ASSUME TypeOK, Reads
  PROVE  /\ batch' \in Seq(Event) /\ queue' \in Seq(Event)
         /\ Pending' = Pending
<1> DEFINE n == IF Len(queue) < ReadSize THEN Len(queue) ELSE ReadSize
<1>1. queue \in Seq(Event) /\ Len(queue) \in Nat /\ n \in 0 .. Len(queue)
  BY FileWatchAssumption DEF TypeOK
<1>2. batch' = SubSeq(queue, 1, n) /\ queue' = SubSeq(queue, n + 1, Len(queue))
  BY DEF Reads
<1> HIDE DEF n
<1>3. batch' \o queue' = SubSeq(queue, 1, Len(queue))
  <2>1. 1 \in 1 .. Len(queue) + 1 /\ n \in 1 - 1 .. Len(queue)
        /\ Len(queue) \in n .. Len(queue)
    BY <1>1
  <2> QED
    BY <1>1, <1>2, <2>1, ConcatAdjacentSubSeq
<1>4. batch' \in Seq(Event) /\ queue' \in Seq(Event)
  BY <1>1, <1>2
<1>5. SubSeq(queue, 1, Len(queue)) = queue /\ <<>> \o queue = queue
  BY <1>1
<1> QED
  BY <1>3, <1>4, <1>5 DEF Pending, Reads

-----------------------------------------------------------------------------
(* Reload *)

\* Nothing changes in a module.
ModuleUnchanged(m) ==
  /\ loads'[m] = loads[m] /\ own'[m] = own[m] /\ methods'[m] = methods[m]
  /\ old_mods'[m] = old_mods[m] /\ broken'[m] = broken[m]

(* A module of which nothing changes keeps the invariant. *)
LEMMA ModuleStutter ==
  ASSUME NEW m, ModuleInv(m), ModuleUnchanged(m)
  PROVE  ModuleInv(m)'
<1> USE DEF ModuleUnchanged, Alive, Own, Referred, Replaced
<1>1. ModuleTypeOK(m)'
  BY DEF ModuleInv, ModuleTypeOK
<1>2. NoneIsForgotten(m)'
  BY DEF ModuleInv, NoneIsForgotten
<1>3. AreUpdated(m)'
  BY DEF ModuleInv, AreUpdated, IsUpdated
<1> QED
  BY <1>1, <1>2, <1>3 DEF ModuleInv

(* A step of one module. *)
LEMMA OneModule ==
  ASSUME ReloadInv, NEW m \in Module, ReloadShape', ModuleInv(m)',
         \A o \in Module \ {m} : ModuleUnchanged(o)
  PROVE  ReloadInv'
  BY ModuleStutter DEF ReloadInv

(* What a run of the source leaves: the class objects that were there, with the
   functions in given replaced, and the new ones. *)
LEMMA RunStep ==
  ASSUME ReloadInv, NEW m \in Module, NEW S \in SUBSET Class, NEW D \in Sources,
         NEW given, Runs(m), Makes(m, S), Defines(m, S, D, given)
  PROVE  LET n == loads[m] + 1
             new == {<<c, n>> : c \in S}
         IN /\ loads[m] \in Nat /\ n \in 1 .. MaxLoads
            /\ loads' = [o \in Module |-> loads'[o]] /\ loads'[m] = n
            /\ own' = [o \in Module |-> own'[o]] /\ own'[m] \in [Class -> 0 .. n]
            /\ \A c \in Class : own'[m][c] = IF c \in S THEN n ELSE own[m][c]
            /\ methods' = [o \in Module |-> methods'[o]]
            /\ Alive(m)' = Alive(m) \cup new
            /\ Alive(m)' \subseteq Class \X (1 .. n)
            /\ \A o \in Alive(m)' : \A x \in DOMAIN methods'[m][o] :
                 x \in Method /\ methods'[m][o][x] \in 1 .. n
            /\ \A o \in new : /\ o \notin Alive(m)
                              /\ DOMAIN methods'[m][o] = D[o[1]]
                              /\ \A x \in D[o[1]] : methods'[m][o][x] = n
            /\ \A o \in Alive(m) :
                 /\ DOMAIN methods'[m][o] = DOMAIN methods[m][o]
                 /\ \A x \in DOMAIN methods[m][o] :
                      methods'[m][o][x] = IF x \in given[o] THEN n
                                          ELSE methods[m][o][x]
            /\ \A o \in Module \ {m} : /\ loads'[o] = loads[o] /\ own'[o] = own[o]
                                       /\ methods'[o] = methods[o]
<1> DEFINE n   == loads[m] + 1
           new == {<<c, n>> : c \in S}
           M   == [o \in Alive(m) \cup new |->
                     IF o \in new THEN [x \in D[o[1]] |-> n]
                     ELSE [x \in DOMAIN methods[m][o] |->
                             IF x \in given[o] THEN n ELSE methods[m][o][x]]]
<1> USE ReloadAssumption
<1>1. ModuleTypeOK(m) /\ ReloadShape
  BY DEF ReloadInv, ModuleInv
<1>2. loads[m] \in Nat /\ n \in 1 .. MaxLoads /\ loads[m] < n
  BY <1>1 DEF ModuleTypeOK, Runs
<1>3. /\ loads' = [loads EXCEPT ![m] = n]
      /\ own' = [own EXCEPT ![m] = [c \in Class |-> IF c \in S THEN n ELSE own[m][c]]]
  BY <1>1 DEF Runs, Makes, ReloadShape
<1>4. methods' = [methods EXCEPT ![m] = M]
  <2>1. [o \in Alive(m) \cup new |->
          IF o \in new THEN [x \in D[o[1]] |-> n]
          ELSE [p \in Alive(m) |->
                  [x \in DOMAIN methods[m][p] |->
                     IF x \in given[p] THEN n ELSE methods[m][p][x]]][o]] = M
    OBVIOUS
  <2> QED
    BY <2>1, Zenon DEF Defines
<1> HIDE DEF n
<1>5. \A o \in new : o \notin Alive(m) /\ o[1] \in S /\ o = <<o[1], n>>
  BY <1>1, <1>2 DEF ModuleTypeOK
<1>6. loads'[m] = n /\ methods'[m] = M
  BY <1>1, <1>3, <1>4 DEF ReloadShape
<1>7. own'[m] = [c \in Class |-> IF c \in S THEN n ELSE own[m][c]]
  BY <1>1, <1>3 DEF ReloadShape
<1>8. own'[m] \in [Class -> 0 .. n]
  BY <1>1, <1>2, <1>7 DEF ModuleTypeOK
<1>9. /\ loads' = [o \in Module |-> loads'[o]]
      /\ own' = [o \in Module |-> own'[o]]
      /\ methods' = [o \in Module |-> methods'[o]]
      /\ \A o \in Module \ {m} : /\ loads'[o] = loads[o] /\ own'[o] = own[o]
                                 /\ methods'[o] = methods[o]
  <2> HIDE DEF M
  <2> QED
    BY <1>1, <1>3, <1>4 DEF ReloadShape
<1>10. Alive(m)' = Alive(m) \cup new
  BY <1>6 DEF Alive
<1>11. Alive(m)' \subseteq Class \X (1 .. n)
  BY <1>1, <1>2, <1>10 DEF ModuleTypeOK
<1>12. \A o \in new : /\ DOMAIN methods'[m][o] = D[o[1]]
                      /\ \A x \in D[o[1]] : methods'[m][o][x] = n
  BY <1>6
<1>13. \A o \in Alive(m) :
         /\ DOMAIN methods'[m][o] = DOMAIN methods[m][o]
         /\ \A x \in DOMAIN methods[m][o] :
              methods'[m][o][x] = IF x \in given[o] THEN n ELSE methods[m][o][x]
  BY <1>5, <1>6
<1>14. ASSUME NEW o \in Alive(m)', NEW x \in DOMAIN methods'[m][o]
       PROVE  x \in Method /\ methods'[m][o][x] \in 1 .. n
  <2>1. CASE o \in new
    <3>1. o[1] \in Class /\ D[o[1]] \subseteq Method
      BY <1>5, <2>1
    <3> QED
      BY <1>2, <1>12, <2>1, <3>1
  <2>2. CASE o \in Alive(m)
    BY <1>1, <1>2, <1>13, <2>2 DEF ModuleTypeOK
  <2> QED
    BY <1>10, <2>1, <2>2
<1> QED
  BY <1>2, <1>5, <1>6, <1>7, <1>8, <1>9, <1>10, <1>11, <1>12, <1>13, <1>14 DEF n

(* An import makes the first class objects. *)
LEMMA ImportStep ==
  ASSUME ReloadInv, NEW m \in Module, Import(m)
  PROVE  ReloadInv'
<1>1. PICK D \in Sources : Defines(m, Class, D, [o \in Alive(m) |-> {}])
  BY DEF Import
<1>2. ModuleTypeOK(m) /\ ReloadShape
  BY DEF ReloadInv, ModuleInv
<1> DEFINE new == {<<c, 1>> : c \in Class}
<1>3. /\ loads[m] = 0 /\ loads'[m] = 1 /\ own'[m] \in [Class -> 0 .. 1]
      /\ \A c \in Class : own'[m][c] = 1
      /\ loads' = [o \in Module |-> loads'[o]] /\ own' = [o \in Module |-> own'[o]]
      /\ methods' = [o \in Module |-> methods'[o]]
      /\ Alive(m)' = Alive(m) \cup new /\ 1 \in 1 .. MaxLoads
      /\ \A o \in new : \A x \in DOMAIN methods'[m][o] : methods'[m][o][x] = 1
      /\ Alive(m)' \subseteq Class \X (1 .. 1)
      /\ \A o \in Alive(m)' : \A x \in DOMAIN methods'[m][o] :
           x \in Method /\ methods'[m][o][x] \in 1 .. 1
      /\ \A o \in Module \ {m} : /\ loads'[o] = loads[o] /\ own'[o] = own[o]
                                 /\ methods'[o] = methods[o]
      /\ UNCHANGED <<old_mods, broken>>
  BY <1>1, RunStep DEF Import
<1>4. Alive(m) = {} /\ DOMAIN old_mods[m] = {} /\ broken[m].objects = {}
  BY <1>2, <1>3 DEF ModuleTypeOK
<1>5. Own(m)' = new /\ Alive(m)' = new
  BY <1>3, <1>4 DEF Own
<1>6. ReloadShape' /\ \A o \in Module \ {m} : ModuleUnchanged(o)
  BY <1>2, <1>3 DEF ReloadShape, ModuleUnchanged
<1>7. ModuleTypeOK(m)'
  BY <1>3, <1>4, <1>5, ReloadAssumption DEF ModuleTypeOK
<1>8. NoneIsForgotten(m)' /\ AreUpdated(m)'
  BY <1>3, <1>5 DEF NoneIsForgotten, AreUpdated, IsUpdated
<1> QED
  BY <1>6, <1>7, <1>8, OneModule DEF ModuleInv

(* A class object that nobody uses goes. *)
LEMMA DiesStep ==
  ASSUME ReloadInv, NEW m \in Module, Dies(m)
  PROVE  ReloadInv'
<1>1. PICK o \in Alive(m) \ Own(m) :
        methods' = [methods EXCEPT ![m] = [p \in Alive(m) \ {o} |-> methods[m][p]]]
  BY DEF Dies
<1>2. ModuleInv(m) /\ ReloadShape /\ UNCHANGED <<loads, own, old_mods, broken>>
  BY DEF ReloadInv, Dies
<1>3. methods'[m] = [p \in Alive(m) \ {o} |-> methods[m][p]]
  BY <1>1, <1>2 DEF ReloadShape
<1>4. ReloadShape' /\ \A p \in Module \ {m} : ModuleUnchanged(p)
  BY <1>1, <1>2 DEF ReloadShape, ModuleUnchanged
<1>5. /\ Alive(m)' = Alive(m) \ {o} /\ Own(m)' = Own(m)
      /\ Referred(m)' = Referred(m) /\ Replaced(m)' = Replaced(m)
      /\ \A p \in Alive(m) \ {o} : methods'[m][p] = methods[m][p]
  BY <1>2, <1>3 DEF Alive, Own, Referred, Replaced
<1>6. ModuleTypeOK(m)'
  BY <1>1, <1>2, <1>5 DEF ModuleInv, ModuleTypeOK
<1>7. NoneIsForgotten(m)'
  BY <1>2, <1>5 DEF ModuleInv, NoneIsForgotten
<1>8. AreUpdated(m)'
  <2> SUFFICES ASSUME ~broken[m].last, NEW p \in Alive(m) \ {o},
                      p \notin broken[m].objects, p[1] \notin NewStyle
               PROVE  IsUpdated(m, p)'
    BY <1>2, <1>5 DEF AreUpdated
  <2>1. IsUpdated(m, p) /\ p[1] \in Class /\ loads[m] > 0
    BY <1>2 DEF ModuleInv, AreUpdated, ModuleTypeOK
  <2>2. <<p[1], own[m][p[1]]>> \in Own(m)
    BY <2>1 DEF Own
  <2>3. <<p[1], own[m][p[1]]>> \in Alive(m) \ {o}
    BY <1>1, <1>2, <2>1, <2>2 DEF ModuleInv, ModuleTypeOK
  <2> QED
    BY <1>2, <1>5, <2>1, <2>3 DEF IsUpdated
<1> QED
  BY <1>4, <1>6, <1>7, <1>8, OneModule DEF ModuleInv

(* A reload that raises after some class objects were made: those they replace
   are noted as lost. *)
LEMMA ReloadBreaksStep ==
  ASSUME ReloadInv, NEW m \in Module, ReloadBreaks(m)
  PROVE  ReloadInv'
<1>1. PICK D \in Sources, S \in (SUBSET Class) \ {{}} :
        /\ Runs(m) /\ Makes(m, S)
        /\ Defines(m, S, D, [o \in Alive(m) |-> {}])
        /\ broken' = [broken EXCEPT ![m] =
              [objects |-> @.objects \cup {<<c, own[m][c]>> : c \in S},
               last    |-> TRUE]]
  BY DEF ReloadBreaks
<1> DEFINE n    == loads[m] + 1
           new  == {<<c, n>> : c \in S}
           lost == {<<c, own[m][c]>> : c \in S}
<1>2. ModuleInv(m) /\ ReloadShape /\ loads[m] > 0 /\ UNCHANGED old_mods
  BY DEF ReloadInv, ReloadBreaks, Imported
<1>3. /\ loads[m] \in Nat /\ n \in 1 .. MaxLoads
      /\ loads'[m] = n /\ own'[m] \in [Class -> 0 .. n]
      /\ \A c \in Class : own'[m][c] = IF c \in S THEN n ELSE own[m][c]
      /\ loads' = [o \in Module |-> loads'[o]] /\ own' = [o \in Module |-> own'[o]]
      /\ methods' = [o \in Module |-> methods'[o]]
      /\ Alive(m)' = Alive(m) \cup new
      /\ Alive(m)' \subseteq Class \X (1 .. n)
      /\ \A o \in Alive(m)' : \A x \in DOMAIN methods'[m][o] :
           x \in Method /\ methods'[m][o][x] \in 1 .. n
      /\ \A o \in Module \ {m} : /\ loads'[o] = loads[o] /\ own'[o] = own[o]
                                 /\ methods'[o] = methods[o]
  BY <1>1, RunStep
<1>4. broken'[m].objects = broken[m].objects \cup lost /\ broken'[m].last = TRUE
  BY <1>1, <1>2 DEF ReloadShape
<1>5. ReloadShape' /\ \A o \in Module \ {m} : ModuleUnchanged(o)
  <2>1. /\ ReloadShape' /\ \A o \in Module \ {m} : broken'[o] = broken[o]
    BY <1>1, <1>2, <1>3, <1>4 DEF ReloadShape
  <2> QED
    BY <1>2, <1>3, <2>1 DEF ModuleUnchanged
<1> HIDE DEF n
<1>6. Own(m) \subseteq Own(m)' \cup lost /\ Own(m)' \subseteq Own(m) \cup new
  BY <1>3 DEF Own
<1>7. Own(m) \subseteq Class \X (1 .. loads[m]) /\ loads[m] < n
  BY <1>2, <1>3 DEF ModuleInv, ModuleTypeOK, n
<1>8. ModuleTypeOK(m)'
  <2>1. lost \subseteq Own(m) /\ Class \X (1 .. loads[m]) \subseteq Class \X (1 .. n)
    BY <1>3, <1>7 DEF Own
  <2>2. /\ broken'[m].objects \subseteq Class \X (1 .. n)
        /\ Own(m)' \subseteq Alive(m)'
        /\ DOMAIN old_mods'[m] \subseteq 1 .. n
        /\ \A k \in DOMAIN old_mods'[m] : old_mods'[m][k] \subseteq Class \X (1 .. n)
    BY <1>2, <1>3, <1>4, <1>6, <1>7, <2>1 DEF ModuleInv, ModuleTypeOK
  <2> QED
    BY <1>3, <1>4, <2>2 DEF ModuleTypeOK
<1>9. NoneIsForgotten(m)'
  <2>1. new \subseteq Own(m)'
    BY <1>3 DEF Own
  <2>2. Referred(m)' = Referred(m)
    BY <1>2 DEF Referred
  <2> QED
    BY <1>2, <1>3, <1>4, <1>6, <2>1, <2>2 DEF ModuleInv, NoneIsForgotten
<1>10. AreUpdated(m)'
  BY <1>4 DEF AreUpdated
<1> QED
  BY <1>5, <1>8, <1>9, <1>10, OneModule DEF ModuleInv

(* The references that are left refer to what they did, but for the dead. *)
LEMMA WithoutDeadKeeps ==
  ASSUME NEW m \in Module, NEW refs
  PROVE  LET left == WithoutDead(m, refs)
         IN /\ DOMAIN left = DOMAIN old_mods[m]
            /\ \A k \in DOMAIN left : left[k] \subseteq old_mods[m][k]
            /\ \A o \in Referred(m) \cap Alive(m) : \E k \in DOMAIN left : o \in left[k]
<1>1. \A o \in Referred(m) : \E k \in DOMAIN old_mods[m] : o \in old_mods[m][k]
  BY DEF Referred
<1> QED
  BY <1>1 DEF WithoutDead

(* A reload that succeeds gives the new functions to every class object that
   some instance uses, and the next one will know of all of them. *)
LEMMA ReloadSucceedsStep ==
  ASSUME ReloadInv, NEW m \in Module, ReloadSucceeds(m)
  PROVE  ReloadInv'
<1>1. PICK D \in Sources : Defines(m, Class, D, Given(m, Referred(m), D))
  BY DEF ReloadSucceeds
<1> DEFINE n     == loads[m] + 1
           new   == {<<c, n>> : c \in Class}
           given == Given(m, Referred(m), D)
           dead  == WithoutDead(m, Referred(m))
           left  == PopEmpty(dead)
<1>2. ModuleInv(m) /\ ReloadShape /\ loads[m] > 0 /\ Runs(m) /\ Makes(m, Class)
  BY DEF ReloadInv, ReloadSucceeds, Imported
<1>3. /\ loads[m] \in Nat /\ n \in 1 .. MaxLoads
      /\ loads'[m] = n /\ own'[m] \in [Class -> 0 .. n]
      /\ \A c \in Class : own'[m][c] = n
      /\ loads' = [o \in Module |-> loads'[o]] /\ own' = [o \in Module |-> own'[o]]
      /\ methods' = [o \in Module |-> methods'[o]]
      /\ Alive(m)' = Alive(m) \cup new
      /\ Alive(m)' \subseteq Class \X (1 .. n)
      /\ \A o \in Alive(m)' : \A x \in DOMAIN methods'[m][o] :
           x \in Method /\ methods'[m][o][x] \in 1 .. n
      /\ \A o \in new : /\ o \notin Alive(m)
                        /\ DOMAIN methods'[m][o] = D[o[1]]
                        /\ \A x \in D[o[1]] : methods'[m][o][x] = n
      /\ \A o \in Alive(m) :
           /\ DOMAIN methods'[m][o] = DOMAIN methods[m][o]
           /\ \A x \in DOMAIN methods[m][o] : x \in given[o] => methods'[m][o][x] = n
      /\ \A o \in Module \ {m} : /\ loads'[o] = loads[o] /\ own'[o] = own[o]
                                 /\ methods'[o] = methods[o]
  BY <1>1, <1>2, RunStep
<1>4. /\ DOMAIN old_mods'[m] = DOMAIN left \cup {n}
      /\ \A k \in DOMAIN left \cup {n} :
           old_mods'[m][k] = IF k = n THEN Own(m) ELSE left[k]
      /\ old_mods' = [o \in Module |-> old_mods'[o]]
      /\ \A o \in Module \ {m} : old_mods'[o] = old_mods[o]
  <2> HIDE DEF n, left
  <2>1. old_mods' = [old_mods EXCEPT ![m] =
                       [k \in DOMAIN left \cup {n} |->
                          IF k = n THEN Own(m) ELSE left[k]]]
    BY DEF ReloadSucceeds, n, left
  <2> QED
    BY <1>2, <2>1 DEF ReloadShape
<1>5. /\ broken'[m].objects = broken[m].objects /\ broken'[m].last = FALSE
      /\ broken' = [o \in Module |->
                      [objects |-> broken'[o].objects, last |-> broken'[o].last]]
      /\ \A o \in Module \ {m} : broken'[o] = broken[o]
  <2>1. broken' = [broken EXCEPT ![m] =
                     [objects |-> broken[m].objects, last |-> FALSE]]
    BY DEF ReloadSucceeds
  <2> QED
    BY <1>2, <2>1 DEF ReloadShape
<1>6. ReloadShape' /\ \A o \in Module \ {m} : ModuleUnchanged(o)
  BY <1>3, <1>4, <1>5 DEF ReloadShape, ModuleUnchanged
<1>7. /\ DOMAIN left \subseteq DOMAIN old_mods[m] /\ n \notin DOMAIN left
      /\ \A k \in DOMAIN left : left[k] \subseteq old_mods[m][k] /\ left[k] # {}
      /\ \A o \in Referred(m) \cap Alive(m) : \E k \in DOMAIN left : o \in left[k]
  <2> HIDE DEF dead
  <2>1. /\ DOMAIN dead = DOMAIN old_mods[m]
        /\ \A k \in DOMAIN dead : dead[k] \subseteq old_mods[m][k]
        /\ \A o \in Referred(m) \cap Alive(m) : \E k \in DOMAIN dead : o \in dead[k]
    BY WithoutDeadKeeps DEF dead
  <2>2. /\ DOMAIN left = {k \in DOMAIN dead : dead[k] # {}}
        /\ \A k \in DOMAIN left : left[k] = dead[k]
    BY DEF PopEmpty
  <2>3. n \notin DOMAIN old_mods[m]
    BY <1>2, <1>3 DEF ModuleInv, ModuleTypeOK
  <2> HIDE DEF left
  <2> QED
    BY <2>1, <2>2, <2>3
<1> HIDE DEF n, left, dead, given
<1>8. Own(m)' = new
  BY <1>3 DEF Own
<1>9. /\ Own(m) \subseteq Class \X (1 .. loads[m]) /\ loads[m] < n
      /\ Own(m) # {}
  <2>1. Own(m) # {}
    BY ReloadAssumption DEF Own
  <2> QED
    BY <1>2, <1>3, <2>1 DEF ModuleInv, ModuleTypeOK, n
<1>10. ModuleTypeOK(m)'
  <2>1. Class \X (1 .. loads[m]) \subseteq Class \X (1 .. n)
    BY <1>3, <1>9
  <2>2. broken'[m].objects \subseteq Class \X (1 .. n)
    BY <1>2, <1>5, <2>1 DEF ModuleInv, ModuleTypeOK
  <2>3. DOMAIN old_mods'[m] \subseteq 1 .. n
    BY <1>2, <1>3, <1>4, <1>7, <1>9 DEF ModuleInv, ModuleTypeOK
  <2>4. \A k \in DOMAIN old_mods'[m] :
          old_mods'[m][k] \subseteq Class \X (1 .. n) /\ old_mods'[m][k] # {}
    BY <1>2, <1>4, <1>7, <1>9, <2>1 DEF ModuleInv, ModuleTypeOK
  <2> QED
    BY <1>3, <1>8, <2>2, <2>3, <2>4 DEF ModuleTypeOK
<1>11. Own(m) \cup (Referred(m) \cap Alive(m)) \subseteq Referred(m)'
  <2>1. \A k \in DOMAIN old_mods'[m] : old_mods'[m][k] \subseteq Referred(m)'
    BY DEF Referred
  <2> QED
    BY <1>4, <1>7, <2>1
<1>12. NoneIsForgotten(m)'
  BY <1>2, <1>3, <1>5, <1>8, <1>11 DEF ModuleInv, NoneIsForgotten
<1>13. AreUpdated(m)'
  <2> SUFFICES ASSUME NEW o \in Alive(m)', o \notin broken'[m].objects,
                      o[1] \notin NewStyle,
                      NEW x \in DOMAIN methods'[m][o],
                      x \in DOMAIN methods'[m][<<o[1], own'[m][o[1]]>>]
               PROVE  \/ methods'[m][o][x] = loads'[m]
                      \/ x \in Special /\ o \in Replaced(m)'
    BY DEF AreUpdated, IsUpdated
  <2>1. CASE o \in new
    BY <1>3, <2>1
  <2>2. CASE o \in Alive(m)
    <3>1. o[1] \in Class /\ <<o[1], own'[m][o[1]]>> \in new
      BY <1>3
    <3>2. x \in Common(m, o, D)
      BY <1>3, <2>2, <3>1 DEF Common
    <3>3. CASE o \in Own(m)
      <4>1. Replaced(m)' = Own(m)
        BY <1>3, <1>4 DEF Replaced
      <4>2. x \in Special \/ x \in given[o]
        BY <2>2, <3>2, <3>3 DEF given, Given, UpdateDict
      <4> QED
        BY <1>3, <2>2, <3>3, <4>1, <4>2
    <3>4. CASE o \notin Own(m)
      <4>1. o \in Referred(m)
        BY <1>2, <1>5, <2>2, <3>4 DEF ModuleInv, NoneIsForgotten
      <4>2. x \in given[o]
        BY <2>2, <3>2, <3>4, <4>1 DEF given, Given
      <4> QED
        BY <1>3, <2>2, <4>2
    <3> QED
      BY <3>3, <3>4
  <2> QED
    BY <1>3, <2>1, <2>2
<1> QED
  BY <1>6, <1>10, <1>12, <1>13, OneModule DEF ModuleInv

(* When copy_dict raises, the class objects just replaced are lost, and those
   known before stay known. *)
LEMMA ReloadStuckStep ==
  ASSUME ReloadInv, NEW m \in Module, ReloadStuck(m)
  PROVE  ReloadInv'
<1>1. PICK D, refs :
        /\ D \in Sources
        /\ Defines(m, Class, D, Given(m, refs, D))
        /\ old_mods' = [old_mods EXCEPT ![m] = WithoutDead(m, refs)]
  BY DEF ReloadStuck
<1> DEFINE n    == loads[m] + 1
           new  == {<<c, n>> : c \in Class}
           left == WithoutDead(m, refs)
<1>2. ModuleInv(m) /\ ReloadShape /\ loads[m] > 0 /\ Runs(m) /\ Makes(m, Class)
  BY DEF ReloadInv, ReloadStuck, Imported
<1>3. /\ loads[m] \in Nat /\ n \in 1 .. MaxLoads
      /\ loads'[m] = n /\ own'[m] \in [Class -> 0 .. n]
      /\ \A c \in Class : own'[m][c] = n
      /\ loads' = [o \in Module |-> loads'[o]] /\ own' = [o \in Module |-> own'[o]]
      /\ methods' = [o \in Module |-> methods'[o]]
      /\ Alive(m)' = Alive(m) \cup new
      /\ Alive(m)' \subseteq Class \X (1 .. n)
      /\ \A o \in Alive(m)' : \A x \in DOMAIN methods'[m][o] :
           x \in Method /\ methods'[m][o][x] \in 1 .. n
      /\ \A o \in Module \ {m} : /\ loads'[o] = loads[o] /\ own'[o] = own[o]
                                 /\ methods'[o] = methods[o]
  BY <1>1, <1>2, RunStep
<1>4. old_mods'[m] = left
  BY <1>1, <1>2 DEF ReloadShape
<1>5. /\ broken'[m].objects = broken[m].objects \cup Own(m) /\ broken'[m].last = TRUE
      /\ broken' = [o \in Module |->
                      [objects |-> broken'[o].objects, last |-> broken'[o].last]]
      /\ \A o \in Module \ {m} : broken'[o] = broken[o]
  <2>1. broken' = [broken EXCEPT ![m] =
                     [objects |-> broken[m].objects \cup Own(m), last |-> TRUE]]
    BY DEF ReloadStuck
  <2> QED
    BY <1>2, <2>1 DEF ReloadShape
<1>6. ReloadShape' /\ \A o \in Module \ {m} : ModuleUnchanged(o)
  <2> HIDE DEF left
  <2>1. /\ old_mods' = [o \in Module |-> old_mods'[o]]
        /\ \A o \in Module \ {m} : old_mods'[o] = old_mods[o]
    BY <1>1, <1>2 DEF ReloadShape
  <2> QED
    BY <1>3, <1>5, <2>1 DEF ReloadShape, ModuleUnchanged
<1>7. /\ DOMAIN left = DOMAIN old_mods[m]
      /\ \A k \in DOMAIN left : left[k] \subseteq old_mods[m][k]
      /\ \A o \in Referred(m) \cap Alive(m) : \E k \in DOMAIN left : o \in left[k]
  BY WithoutDeadKeeps
<1> HIDE DEF n, left
<1>8. Own(m)' = new
  BY <1>3 DEF Own
<1>9. /\ Own(m) \subseteq Class \X (1 .. loads[m]) /\ loads[m] < n
      /\ Class \X (1 .. loads[m]) \subseteq Class \X (1 .. n)
  BY <1>2, <1>3 DEF ModuleInv, ModuleTypeOK, n
<1>10. ModuleTypeOK(m)'
  <2>1. broken'[m].objects \subseteq Class \X (1 .. n)
    BY <1>2, <1>5, <1>9 DEF ModuleInv, ModuleTypeOK
  <2>2. /\ DOMAIN old_mods'[m] \subseteq 1 .. n
        /\ \A k \in DOMAIN old_mods'[m] : old_mods'[m][k] \subseteq Class \X (1 .. n)
    BY <1>2, <1>3, <1>4, <1>7, <1>9 DEF ModuleInv, ModuleTypeOK
  <2> QED
    BY <1>3, <1>5, <1>8, <2>1, <2>2 DEF ModuleTypeOK
<1>11. NoneIsForgotten(m)'
  <2>1. Referred(m) \cap Alive(m) \subseteq Referred(m)'
    BY <1>4, <1>7 DEF Referred
  <2> QED
    BY <1>2, <1>3, <1>5, <1>8, <2>1 DEF ModuleInv, NoneIsForgotten
<1>12. AreUpdated(m)'
  BY <1>5 DEF AreUpdated
<1> QED
  BY <1>6, <1>10, <1>11, <1>12, OneModule DEF ModuleInv

(* Nothing is imported or reloaded. *)
LEMMA ReloadStutter ==
  ASSUME ReloadInv, UNCHANGED reloadVars
  PROVE  ReloadInv'
<1> USE DEF reloadVars, ReloadInv
<1>1. \A m \in Module : ModuleUnchanged(m)
  BY DEF ModuleUnchanged
<1>2. ReloadShape'
  BY DEF ReloadShape
<1> QED
  BY <1>1, <1>2, ModuleStutter

LEMMA ReloadModStep ==
  ASSUME ReloadInv, NEW m, ReloadMod(m)
  PROVE  ReloadInv'
<1>1. CASE NotImported(m) \/ ReloadRaises(m)
  BY <1>1, ReloadStutter DEF NotImported, ReloadRaises
<1>2. CASE ReloadBreaks(m)
  BY <1>2, ReloadBreaksStep DEF ReloadBreaks, Imported
<1>3. CASE ReloadSucceeds(m)
  BY <1>3, ReloadSucceedsStep DEF ReloadSucceeds, Imported
<1>4. CASE ReloadStuck(m)
  BY <1>4, ReloadStuckStep DEF ReloadStuck, Imported
<1> QED
  BY <1>1, <1>2, <1>3, <1>4 DEF ReloadMod

LEMMA ReloadInitInv == ReloadInit => ReloadInv
<1> SUFFICES ASSUME ReloadInit PROVE ReloadInv
  OBVIOUS
<1> USE ReloadAssumption DEF ReloadInit
<1>1. ReloadShape
  BY DEF ReloadShape
<1>2. ASSUME NEW m \in Module PROVE ModuleInv(m)
  <2>1. /\ loads[m] = 0 /\ own[m] \in [Class -> 0 .. 0]
        /\ Alive(m) = {} /\ DOMAIN old_mods[m] = {} /\ broken[m].objects = {}
    BY DEF Alive
  <2>2. ModuleTypeOK(m)
    BY <2>1 DEF ModuleTypeOK
  <2> QED
    BY <2>1, <2>2 DEF ModuleInv, NoneIsForgotten, AreUpdated
<1> QED
  BY <1>1, <1>2 DEF ReloadInv

(* What the invariant says. *)
LEMMA ReloadInvImplies == ReloadInv => ReloadTypeOK /\ InstancesAreUpdated
  BY DEF ReloadInv, ModuleInv, AreUpdated, ReloadTypeOK, InstancesAreUpdated

-----------------------------------------------------------------------------
(* Names and events *)

(* What the types say of names, inodes and descriptors. *)
LEMMA Types ==
  ASSUME TypeOK, Bounds
  PROVE  /\ file \in [Name -> 0 .. inodes] /\ inodes \in Nat
         /\ Path \subseteq Name
         /\ watched \subseteq 1 .. inodes /\ DOMAIN watchs \subseteq 1 .. inodes
         /\ 1 .. inodes \subseteq Inode
         /\ watchs = [i \in DOMAIN watchs |-> watchs[i]]
         /\ \A i \in DOMAIN watchs : watchs[i] \in Path
  BY FileWatchAssumption DEF TypeOK, Bounds, Path, Name, Inode

(* The descriptors in watchs: those of the kernel, and those with an IGNORED. *)
LEMMA Kernel ==
  KernelAgrees <=>
    \A i : i \in DOMAIN watchs <=>
            \/ i \in watched
            \/ i \in Inode /\ \E j \in DOMAIN Pending : Pending[j] = <<i, "IGNORED">>
  BY DEF KernelAgrees, ToSet

(* A notification of ATTRIB is of a descriptor in watchs that has no IGNORED. *)
LEMMA AttribStep ==
  ASSUME Inv, NEW i, Notify(i, "ATTRIB"), UNCHANGED <<batch, watchs, watched>>
  PROVE  /\ EventsAreKnown' /\ KernelAgrees' /\ queue' \in Seq(Event)
         /\ \A j \in DOMAIN Pending' :
              Pending'[j][2] = "IGNORED" =>
                j \in DOMAIN Pending /\ Pending'[j] = Pending[j]
<1> USE DEF Inv
<1>1. CASE Pending' = Pending
  BY <1>1, NotifyAppends, Kernel DEF EventsAreKnown, KernelAgrees
<1>2. CASE i \in watched /\ Pending' = Append(Pending, <<i, "ATTRIB">>)
  <2>1. /\ Len(Pending) \in Nat /\ DOMAIN Pending = 1 .. Len(Pending)
        /\ Len(Pending') = Len(Pending) + 1
        /\ DOMAIN Pending' = 1 .. Len(Pending) + 1
        /\ \A j \in 1 .. Len(Pending) : Pending'[j] = Pending[j]
        /\ Pending'[Len(Pending) + 1] = <<i, "ATTRIB">>
    BY <1>2, PendingType
  <2>2. i \in DOMAIN watchs
    BY <1>2, Kernel
  <2>3. \A j \in DOMAIN Pending :
          Pending[j][2] = "IGNORED" => Pending[j][1] # i
    BY <1>2 DEF IgnoredAreNameless
  <2>4. EventsAreKnown'
    BY <2>1, <2>2, <2>3 DEF EventsAreKnown
  <2>5. \A k : (\E j \in DOMAIN Pending' : Pending'[j] = <<k, "IGNORED">>)
             <=> (\E j \in DOMAIN Pending : Pending[j] = <<k, "IGNORED">>)
    <3>1. \A j \in DOMAIN Pending' :
            j \in DOMAIN Pending \/ Pending'[j] = <<i, "ATTRIB">>
      BY <2>1
    <3>2. \A k : <<i, "ATTRIB">> # <<k, "IGNORED">>
      OBVIOUS
    <3> QED
      BY <2>1, <3>1, <3>2
  <2>6. KernelAgrees'
    BY <2>5, Kernel DEF KernelAgrees, ToSet
  <2> QED
    BY <2>1, <2>4, <2>6, NotifyAppends
<1> QED
  BY <1>1, <1>2, NotifyAppends

(* Names change.  An inode that had none gets none, and a path that keeps a
   file has the same or leaves the old inode without a name. *)
LEMMA NamesStep ==
  ASSUME Inv, NEW f \in [Name -> 0 .. inodes'], NameSet(f),
         inodes' \in inodes .. MaxInode, NamesDiffer',
         \A x \in Name : \/ f[x] = 0 \/ f[x] > inodes
                         \/ \E y \in Name : f[x] = file[y],
         \A p \in Path : f[p] # 0 => \/ f[p] = file[p] \/ file[p] = 0
                                    \/ \A x \in Name : f[x] # file[p],
         EventsAreKnown', KernelAgrees', queue' \in Seq(Event),
         \A j \in DOMAIN Pending' :
           Pending'[j][2] = "IGNORED" =>
             j \in DOMAIN Pending /\ Pending'[j] = Pending[j]
  PROVE  Inv'
<1> USE DEF Inv, NameSet, watchVars
<1>1. ReloadInv'
  BY ReloadStutter
<1>2. TypeOK'
  BY <1>1, FileWatchAssumption DEF TypeOK, Bounds, ReloadInv, ModuleInv, ReloadTypeOK
<1>3. Bounds'
  BY FileWatchAssumption DEF Bounds
<1>4. \A i \in DOMAIN watchs : Nameless(i) => Nameless(i)'
  BY Types DEF Nameless
<1>5. IgnoredAreNameless'
  <2> SUFFICES ASSUME NEW j \in DOMAIN Pending', Pending'[j][2] = "IGNORED"
               PROVE  /\ \A n \in Name : file'[n] # Pending'[j][1]
                      /\ Pending'[j][1] \notin watched'
    BY DEF IgnoredAreNameless, Nameless
  <2>1. j \in DOMAIN Pending /\ Pending'[j] = Pending[j]
    OBVIOUS
  <2>2. Pending[j][1] \in DOMAIN watchs
    BY <2>1 DEF EventsAreKnown
  <2> QED
    BY <1>4, <2>1, <2>2 DEF IgnoredAreNameless, Nameless
<1>6. PathsAreKept'
  <2> SUFFICES ASSUME NEW p \in Path, p \notin gone', p \notin todo
               PROVE  \E i \in DOMAIN watchs : watchs[i] = p /\ (i = f[p] \/ Nameless(i)')
    BY DEF PathsAreKept
  <2>1. p \notin gone /\ file[p] # 0 /\ f[p] # 0
    BY DEF Bounds
  <2>2. PICK i \in DOMAIN watchs : watchs[i] = p /\ (i = file[p] \/ Nameless(i))
    BY <2>1 DEF PathsAreKept
  <2>3. i = file[p] => i = f[p] \/ Nameless(i)'
    BY <2>1 DEF Nameless
  <2> QED
    BY <1>4, <2>2, <2>3
<1> QED
  BY <1>1, <1>2, <1>3, <1>5, <1>6

LEMMA CreateStep ==
  ASSUME Inv, NEW n \in Name, Create(n)
  PROVE  Inv'
<1> DEFINE f == [file EXCEPT ![n] = inodes + 1]
<1>1. /\ file[n] = 0 /\ inodes' = inodes + 1 /\ inodes' \in inodes .. MaxInode
      /\ NameSet(f) /\ file' = f
      /\ UNCHANGED <<queue, batch, watchs, watched>>
  BY FileWatchAssumption DEF Create, NameSet, watchVars, Inv, Bounds
<1>2. f \in [Name -> 0 .. inodes'] /\ f[n] = inodes + 1
  BY <1>1, Types DEF Inv
<1>3. \A x \in Name : x # n => f[x] = file[x] /\ f[x] # inodes + 1
  BY Types DEF Inv
<1>4. NamesDiffer'
  BY <1>1, <1>2, <1>3 DEF NamesDiffer, Inv
<1>5. EventsAreKnown' /\ KernelAgrees' /\ queue' \in Seq(Event) /\ Pending' = Pending
  BY <1>1 DEF EventsAreKnown, KernelAgrees, Pending, Inv, TypeOK
<1>6. \A x \in Name : \/ f[x] = 0 \/ f[x] > inodes
                      \/ \E y \in Name : f[x] = file[y]
  BY <1>2, <1>3, Types DEF Inv
<1>7. \A p \in Path : f[p] = file[p] \/ file[p] = 0
  BY <1>1, <1>3, Types DEF Inv
<1> HIDE DEF f
<1> QED
  BY <1>1, <1>2, <1>4, <1>5, <1>6, <1>7, NamesStep

LEMMA UnlinkStep ==
  ASSUME Inv, NEW n \in Name, Unlink(n)
  PROVE  Inv'
<1> DEFINE f == [file EXCEPT ![n] = 0]
<1>1. /\ file[n] # 0 /\ inodes' = inodes /\ inodes' \in inodes .. MaxInode
      /\ NameSet(f) /\ file' = f /\ Notify(file[n], "ATTRIB")
      /\ UNCHANGED <<batch, watchs, watched>>
  BY FileWatchAssumption DEF Unlink, NameSet, watchVars, Inv, Bounds
<1>2. f \in [Name -> 0 .. inodes'] /\ f[n] = 0
  BY <1>1, Types DEF Inv
<1>3. \A x \in Name : x # n => f[x] = file[x]
  BY Types DEF Inv
<1>4. NamesDiffer'
  BY <1>1, <1>2, <1>3 DEF NamesDiffer, Inv
<1>5. \A x \in Name : f[x] = 0 \/ \E y \in Name : f[x] = file[y]
  BY <1>2, <1>3
<1>6. \A p \in Path : f[p] # 0 => f[p] = file[p]
  BY <1>2, <1>3, Types DEF Inv
<1> HIDE DEF f
<1> QED
  BY <1>1, <1>2, <1>4, <1>5, <1>6, AttribStep, NamesStep

(* The inode that the new name had loses its name: it had no other. *)
LEMMA RenameStep ==
  ASSUME Inv, NEW n \in Name, NEW o \in Name, Rename(n, o)
  PROVE  Inv'
<1> DEFINE f == [file EXCEPT ![n] = 0, ![o] = file[n]]
<1>1. /\ file[n] # 0 /\ n # o
      /\ inodes' = inodes /\ inodes' \in inodes .. MaxInode
      /\ NameSet(f) /\ file' = f /\ Notify(file[o], "ATTRIB")
      /\ UNCHANGED <<batch, watchs, watched>>
  BY FileWatchAssumption DEF Rename, NameSet, watchVars, Inv, Bounds
<1>2. f \in [Name -> 0 .. inodes'] /\ f[n] = 0 /\ f[o] = file[n]
  BY <1>1, Types DEF Inv
<1>3. \A x \in Name : x # n /\ x # o => f[x] = file[x]
  BY Types DEF Inv
<1>4. NamesDiffer'
  BY <1>1, <1>2, <1>3 DEF NamesDiffer, Inv
<1>5. \A x \in Name : f[x] = 0 \/ \E y \in Name : f[x] = file[y]
  BY <1>2, <1>3
<1>6. file[o] = 0 \/ \A x \in Name : f[x] # file[o]
  BY <1>1, <1>2, <1>3 DEF NamesDiffer, Inv
<1>7. \A p \in Path : f[p] # 0 => \/ f[p] = file[p] \/ file[p] = 0
                                  \/ \A x \in Name : f[x] # file[p]
  BY <1>2, <1>3, <1>6, Types DEF Inv
<1> HIDE DEF f
<1> QED
  BY <1>1, <1>2, <1>4, <1>5, <1>7, AttribStep, NamesStep

LEMMA TouchStep ==
  ASSUME Inv, NEW n \in Name, Touch(n)
  PROVE  Inv'
<1> USE DEF Inv, Touch, fileVars, watchVars
<1>1. /\ EventsAreKnown' /\ KernelAgrees' /\ queue' \in Seq(Event)
      /\ \A j \in DOMAIN Pending' :
           Pending'[j][2] = "IGNORED" =>
             j \in DOMAIN Pending /\ Pending'[j] = Pending[j]
  BY AttribStep
<1>2. ReloadInv'
  BY ReloadStutter
<1>3. TypeOK' /\ Bounds' /\ NamesDiffer' /\ PathsAreKept'
  BY <1>1, <1>2 DEF TypeOK, Bounds, NamesDiffer, PathsAreKept, Nameless,
         ReloadInv, ModuleInv, ReloadTypeOK
<1>4. IgnoredAreNameless'
  <2> SUFFICES ASSUME NEW j \in DOMAIN Pending', Pending'[j][2] = "IGNORED"
               PROVE  /\ \A x \in Name : file'[x] # Pending'[j][1]
                      /\ Pending'[j][1] \notin watched'
    BY DEF IgnoredAreNameless, Nameless
  <2> QED
    BY <1>1 DEF IgnoredAreNameless, Nameless
<1> QED
  BY <1>1, <1>2, <1>3, <1>4

(* The watch of an inode that goes: its IGNORED is the last event of it. *)
LEMMA FreesStep ==
  ASSUME Inv, NEW i \in watched, Frees(i)
  PROVE  Inv'
<1> USE DEF Inv, Frees, fileVars, watchVars
<1>1. i \in watched /\ Nameless(i) /\ i \in Inode /\ i \in DOMAIN watchs
  BY Types, Kernel DEF Nameless, Range
<1>2. \A j \in DOMAIN Pending : Pending[j] # <<i, "IGNORED">>
  <2> SUFFICES ASSUME NEW j \in DOMAIN Pending, Pending[j] = <<i, "IGNORED">>
               PROVE  FALSE
    OBVIOUS
  <2>1. Pending[j][1] = i /\ Pending[j][2] = "IGNORED"
    OBVIOUS
  <2> QED
    BY <1>1, <2>1 DEF IgnoredAreNameless
<1>3. Pending' = Append(Pending, <<i, "IGNORED">>) /\ queue' \in Seq(Event)
  BY <1>1, <1>2, NotifyAppends
<1>4. /\ Len(Pending) \in Nat /\ DOMAIN Pending = 1 .. Len(Pending)
      /\ Len(Pending') = Len(Pending) + 1
      /\ DOMAIN Pending' = 1 .. Len(Pending) + 1
      /\ \A j \in 1 .. Len(Pending) : Pending'[j] = Pending[j]
      /\ Pending'[Len(Pending) + 1] = <<i, "IGNORED">>
  BY <1>3, PendingType
<1>5. ReloadInv'
  BY ReloadStutter
<1>6. TypeOK' /\ Bounds' /\ NamesDiffer' /\ PathsAreKept'
  BY <1>3, <1>5 DEF TypeOK, Bounds, NamesDiffer, PathsAreKept, Nameless,
         ReloadInv, ModuleInv, ReloadTypeOK
<1>7. \A j \in DOMAIN Pending : Pending[j][2] = "IGNORED" => Pending[j][1] # i
  BY <1>1 DEF IgnoredAreNameless
<1>8. EventsAreKnown'
  <2> DEFINE l == Len(Pending)
  <2>1. l \in Nat /\ UNCHANGED watchs
    BY <1>4
  <2> SUFFICES ASSUME NEW j \in DOMAIN Pending'
               PROVE  /\ Pending'[j][1] \in DOMAIN watchs
                      /\ Pending'[j][2] = "IGNORED" =>
                           \A k \in j + 1 .. Len(Pending') :
                             Pending'[k][1] # Pending'[j][1]
    BY <2>1 DEF EventsAreKnown
  <2> HIDE DEF l
  <2>2. CASE j = l + 1
    <3>1. Pending'[j][1] = i /\ j + 1 .. Len(Pending') = {}
      BY <1>4, <2>1, <2>2 DEF l
    <3> QED
      BY <1>1, <3>1
  <2>3. CASE j \in DOMAIN Pending
    <3>1. Pending'[j] = Pending[j] /\ j \in 1 .. l
      BY <1>4, <2>3 DEF l
    <3>2. ASSUME NEW k \in j + 1 .. Len(Pending'), Pending[j][2] = "IGNORED"
          PROVE  Pending'[k][1] # Pending[j][1]
      <4>1. CASE k = l + 1
        BY <1>4, <1>7, <2>3, <3>2, <4>1 DEF l
      <4>2. CASE k \in j + 1 .. l
        <5>1. Pending'[k] = Pending[k]
          BY <1>4, <2>1, <3>1, <4>2 DEF l
        <5> QED
          BY <2>3, <3>2, <4>2, <5>1 DEF EventsAreKnown, l
      <4> QED
        BY <1>4, <2>1, <3>1, <4>1, <4>2 DEF l
    <3> QED
      BY <2>3, <3>1, <3>2 DEF EventsAreKnown
  <2> QED
    BY <1>4, <2>1, <2>2, <2>3 DEF l
<1>9. KernelAgrees'
  <2>1. \A k : (\E j \in DOMAIN Pending' : Pending'[j] = <<k, "IGNORED">>)
             <=> \/ k = i
                 \/ \E j \in DOMAIN Pending : Pending[j] = <<k, "IGNORED">>
    <3>1. \A j \in DOMAIN Pending' : j \in DOMAIN Pending \/ j = Len(Pending) + 1
      BY <1>4
    <3>2. \A k : <<i, "IGNORED">> = <<k, "IGNORED">> <=> k = i
      OBVIOUS
    <3>3. /\ Len(Pending) + 1 \in DOMAIN Pending'
          /\ \A j \in DOMAIN Pending : j \in DOMAIN Pending'
      BY <1>4
    <3> QED
      BY <1>4, <3>1, <3>2, <3>3
  <2>2. watched' = watched \ {i} /\ watchs' = watchs
    OBVIOUS
  <2> QED
    BY <1>1, <2>1, <2>2, Kernel DEF KernelAgrees, ToSet
<1>10. IgnoredAreNameless'
  <2> SUFFICES ASSUME NEW j \in DOMAIN Pending', Pending'[j][2] = "IGNORED"
               PROVE  /\ \A x \in Name : file'[x] # Pending'[j][1]
                      /\ Pending'[j][1] \notin watched'
    BY DEF IgnoredAreNameless, Nameless
  <2>1. j \in DOMAIN Pending \/ j = Len(Pending) + 1
    BY <1>4
  <2> QED
    BY <1>1, <1>4, <2>1 DEF IgnoredAreNameless, Nameless
<1> QED
  BY <1>5, <1>6, <1>8, <1>9, <1>10

-----------------------------------------------------------------------------
(* The loop's thread *)

(* What add_watch leaves in watchs. *)
LEMMA AddWatchLeaves ==
  ASSUME TypeOK, Bounds, NEW p \in Path, NEW base,
         base = [j \in DOMAIN base |-> base[j]],
         DOMAIN base \subseteq DOMAIN watchs,
         \A j \in DOMAIN base : base[j] = watchs[j],
         AddWatch(p, base)
  PROVE  /\ watched' = watched \cup ({file[p]} \ {0})
         /\ DOMAIN watchs' = DOMAIN base \cup ({file[p]} \ {0})
         /\ watchs' \in [DOMAIN watchs' -> Path]
         /\ \A j \in DOMAIN base : j # file[p] => watchs'[j] = watchs[j]
         /\ file[p] # 0 => watchs'[file[p]] = p
         /\ watched' \subseteq 1 .. inodes /\ DOMAIN watchs' \subseteq 1 .. inodes
<1>1. 0 \notin watched /\ file[p] \in 0 .. inodes /\ inodes \in Nat
  BY Types
<1>2. {file[p]} \ {0} \subseteq 1 .. inodes
  BY <1>1
<1> QED
  BY <1>1, <1>2, Types DEF AddWatch

(* Nothing of the files or of their watches changes. *)
LEMMA FilesStutter ==
  ASSUME Inv, ReloadInv', UNCHANGED <<file, inodes, gone, todo, watchs, watched>>,
         Pending' = Pending, batch' \in Seq(Event), queue' \in Seq(Event)
  PROVE  Inv'
<1>1. TypeOK' /\ Bounds' /\ NamesDiffer'
  BY DEF Inv, TypeOK, ReloadInv, ModuleInv, ReloadTypeOK, Bounds, NamesDiffer
<1>2. EventsAreKnown' /\ KernelAgrees'
  BY DEF Inv, EventsAreKnown, KernelAgrees
<1>3. IgnoredAreNameless' /\ PathsAreKept'
  BY DEF Inv, IgnoredAreNameless, PathsAreKept, Nameless
<1> QED
  BY <1>1, <1>2, <1>3 DEF Inv

LEMMA RegistStep ==
  ASSUME Inv, NEW p \in Path, Regist(p)
  PROVE  Inv'
<1> USE DEF Inv, Regist, fileVars
<1>1. /\ watched' = watched \cup ({file[p]} \ {0})
      /\ DOMAIN watchs' = DOMAIN watchs \cup ({file[p]} \ {0})
      /\ watchs' \in [DOMAIN watchs' -> Path]
      /\ \A j \in DOMAIN watchs : j # file[p] => watchs'[j] = watchs[j]
      /\ file[p] # 0 => watchs'[file[p]] = p
      /\ watched' \subseteq 1 .. inodes /\ DOMAIN watchs' \subseteq 1 .. inodes
  BY AddWatchLeaves, Types
<1>2. Pending' = Pending /\ UNCHANGED <<file, inodes, gone, queue, batch>>
  BY DEF Pending
<1>3. ReloadInv'
  BY ReloadStutter
<1>4. TypeOK' /\ Bounds' /\ NamesDiffer'
  BY <1>1, <1>2, <1>3 DEF TypeOK, Bounds, NamesDiffer, ReloadInv, ModuleInv, ReloadTypeOK
<1>5. EventsAreKnown'
  BY <1>1, <1>2 DEF EventsAreKnown
<1>6. KernelAgrees'
  BY <1>1, <1>2, Kernel DEF KernelAgrees, ToSet
<1>7. IgnoredAreNameless'
  BY <1>1, <1>2, Types DEF IgnoredAreNameless, Nameless
<1>8. PathsAreKept'
  <2> SUFFICES ASSUME NEW q \in Path, q \notin gone, q \notin todo'
               PROVE  \E i \in DOMAIN watchs' :
                        watchs'[i] = q /\ (i = file[q] \/ Nameless(i))
    BY <1>2 DEF PathsAreKept, Nameless
  <2>1. file[q] # 0
    BY DEF Bounds
  <2>2. CASE q = p
    BY <1>1, <2>1, <2>2
  <2>3. CASE q # p
    <3>1. PICK i \in DOMAIN watchs : watchs[i] = q /\ (i = file[q] \/ Nameless(i))
      BY <2>3 DEF PathsAreKept
    <3>2. i # file[p]
      BY <2>1, <2>3, <3>1, Types DEF NamesDiffer, Nameless
    <3> QED
      BY <1>1, <3>1, <3>2
  <2> QED
    BY <2>2, <2>3
<1> QED
  BY <1>3, <1>4, <1>5, <1>6, <1>7, <1>8

LEMMA ReadsStep ==
  ASSUME Inv, Reads
  PROVE  Inv'
<1>1. ReloadInv'
  BY ReloadStutter DEF Inv, Reads
<1> QED
  BY <1>1, ReadsMove, FilesStutter DEF Inv, Reads, fileVars

LEMMA ModifiedStep ==
  ASSUME Inv, Modified
  PROVE  Inv'
<1> USE DEF Inv, Modified, fileVars
<1>1. /\ batch' \in Seq(Event) /\ Len(Pending) \in Nat /\ Len(Pending) > 0
      /\ DOMAIN Pending = 1 .. Len(Pending)
      /\ Pending[1][2] = "ATTRIB"
      /\ Len(Pending') = Len(Pending) - 1
      /\ DOMAIN Pending' = 1 .. Len(Pending) - 1
      /\ \A j \in 1 .. Len(Pending) - 1 : Pending'[j] = Pending[j + 1]
  BY ToldPops, PendingType
<1>2. ReloadInv'
  BY ReloadModStep
<1>3. UNCHANGED <<file, inodes, gone, todo, watchs, watched, queue>>
  OBVIOUS
<1>4. TypeOK' /\ Bounds' /\ NamesDiffer' /\ PathsAreKept'
  BY <1>1, <1>2, <1>3
     DEF TypeOK, Bounds, NamesDiffer, PathsAreKept, Nameless,
         ReloadInv, ModuleInv, ReloadTypeOK
<1>5. EventsAreKnown'
  <2> SUFFICES ASSUME NEW j \in DOMAIN Pending'
               PROVE  /\ Pending'[j][1] \in DOMAIN watchs
                      /\ Pending'[j][2] = "IGNORED" =>
                           \A k \in j + 1 .. Len(Pending') :
                             Pending'[k][1] # Pending'[j][1]
    BY <1>3 DEF EventsAreKnown
  <2>1. /\ j \in Nat /\ j + 1 \in DOMAIN Pending /\ Pending'[j] = Pending[j + 1]
        /\ \A k \in j + 1 .. Len(Pending') :
             k + 1 \in j + 2 .. Len(Pending) /\ Pending'[k] = Pending[k + 1]
    BY <1>1
  <2>2. /\ Pending[j + 1][1] \in DOMAIN watchs
        /\ Pending[j + 1][2] = "IGNORED" =>
             \A k \in j + 2 .. Len(Pending) :
               Pending[k][1] # Pending[j + 1][1]
    <3> DEFINE i == j + 1
    <3>1. i + 1 = j + 2 /\ i \in DOMAIN Pending
      BY <2>1
    <3> HIDE DEF i
    <3>2. /\ Pending[i][1] \in DOMAIN watchs
          /\ Pending[i][2] = "IGNORED" =>
               \A k \in i + 1 .. Len(Pending) : Pending[k][1] # Pending[i][1]
      BY <3>1 DEF EventsAreKnown
    <3> QED
      BY <3>1, <3>2 DEF i
  <2> QED
    BY <2>1, <2>2
<1>6. KernelAgrees'
  <2>1. \A k : (\E j \in DOMAIN Pending' : Pending'[j] = <<k, "IGNORED">>)
             <=> (\E j \in DOMAIN Pending : Pending[j] = <<k, "IGNORED">>)
    <3>1. \A k : Pending[1] # <<k, "IGNORED">>
      BY <1>1
    <3>2. \A j \in DOMAIN Pending' : j + 1 \in DOMAIN Pending
      BY <1>1
    <3>3. \A j \in DOMAIN Pending :
            j = 1 \/ (j - 1 \in DOMAIN Pending' /\ Pending'[j - 1] = Pending[j])
      BY <1>1
    <3>4. \A j \in DOMAIN Pending' : Pending'[j] = Pending[j + 1]
      BY <1>1
    <3> QED
      BY <3>1, <3>2, <3>3, <3>4
  <2> QED
    BY <1>3, <2>1, Kernel DEF KernelAgrees, ToSet
<1>7. IgnoredAreNameless'
  <2>1. \A j \in DOMAIN Pending' :
          j + 1 \in DOMAIN Pending /\ Pending'[j] = Pending[j + 1]
    BY <1>1
  <2> QED
    BY <1>3, <2>1 DEF IgnoredAreNameless, Nameless
<1> QED
  BY <1>2, <1>4, <1>5, <1>6, <1>7

(* A path whose inode is gone is watched again, under the inode it has now;
   no other path loses its descriptor. *)
LEMMA IgnoredStep ==
  ASSUME Inv, Ignored
  PROVE  Inv'
<1> DEFINE i == batch[1][1]
           p == watchs[i]
<1> USE DEF Inv, Ignored, fileVars
<1>1. /\ batch' \in Seq(Event) /\ Len(Pending) \in Nat /\ Len(Pending) > 0
      /\ DOMAIN Pending = 1 .. Len(Pending) /\ 1 \in DOMAIN Pending
      /\ Pending[1] = <<i, "IGNORED">>
      /\ Pending[1][1] = i /\ Pending[1][2] = "IGNORED"
      /\ Len(Pending') = Len(Pending) - 1
      /\ DOMAIN Pending' = 1 .. Len(Pending) - 1
      /\ \A j \in 1 .. Len(Pending) - 1 : Pending'[j] = Pending[j + 1]
  <2>1. Told("IGNORED") /\ UNCHANGED queue
    OBVIOUS
  <2> HIDE DEF i
  <2>2. Pending[1] = batch[1] /\ Pending[1][2] = "IGNORED"
    BY <2>1, ToldPops
  <2>3. Pending[1][1] = i
    BY <2>2 DEF i
  <2>4. Len(Pending) > 0 /\ 1 \in 1 .. Len(Pending)
    <3>1. Len(Pending) > 0
      BY <2>1, ToldPops
    <3>2. Len(Pending) \in Nat
      BY PendingType
    <3> QED
      BY <3>1, <3>2
  <2>5. Pending[1] = <<i, "IGNORED">>
    BY <2>2, <2>3, <2>4, PendingType
  <2> QED
    BY <2>1, <2>2, <2>3, <2>4, <2>5, ToldPops, PendingType
<1>2. UNCHANGED <<file, inodes, gone, todo, queue>> /\ WatchAgain(i)
  OBVIOUS
<1> HIDE DEF i
<1>3. /\ i \in DOMAIN watchs /\ i \notin watched /\ Nameless(i) /\ p \in Path
      /\ \A j \in DOMAIN Pending : j # 1 => Pending[j][1] # i
  <2>1. \A j \in DOMAIN Pending : j # 1 => j \in 1 + 1 .. Len(Pending)
    BY <1>1
  <2>2. i \in DOMAIN watchs /\ \A k \in 1 + 1 .. Len(Pending) : Pending[k][1] # i
    BY <1>1 DEF EventsAreKnown
  <2>3. i \notin watched /\ Nameless(i)
    BY <1>1 DEF IgnoredAreNameless
  <2>4. p \in Path
    BY <2>2, Types
  <2> QED
    BY <2>1, <2>2, <2>3, <2>4
<1>4. /\ watched' = watched \cup ({file[p]} \ {0})
      /\ DOMAIN watchs' = (DOMAIN watchs \ {i}) \cup ({file[p]} \ {0})
      /\ watchs' \in [DOMAIN watchs' -> Path]
      /\ \A j \in DOMAIN watchs \ {i} : j # file[p] => watchs'[j] = watchs[j]
      /\ file[p] # 0 => watchs'[file[p]] = p
      /\ watched' \subseteq 1 .. inodes /\ DOMAIN watchs' \subseteq 1 .. inodes
  <2>1. AddWatch(p, Without(i))
    BY <1>2 DEF WatchAgain
  <2>2. /\ DOMAIN Without(i) = DOMAIN watchs \ {i}
        /\ \A j \in DOMAIN Without(i) : Without(i)[j] = watchs[j]
        /\ Without(i) = [j \in DOMAIN Without(i) |-> Without(i)[j]]
    BY DEF Without
  <2> HIDE DEF p
  <2> QED
    BY <1>3, <2>1, <2>2, AddWatchLeaves
<1>5. file[p] # i
  BY <1>3, Types DEF Nameless
<1> HIDE DEF p
<1>6. ReloadInv'
  BY ReloadStutter
<1>7. TypeOK' /\ Bounds' /\ NamesDiffer'
  BY <1>1, <1>2, <1>4, <1>6 DEF TypeOK, Bounds, NamesDiffer, ReloadInv, ModuleInv, ReloadTypeOK
<1>8. \A j \in DOMAIN Pending' :
        /\ j + 1 \in DOMAIN Pending /\ Pending'[j] = Pending[j + 1]
        /\ Pending[j + 1][1] # i
  BY <1>1, <1>3
<1>9. EventsAreKnown'
  BY <1>1, <1>4, <1>8 DEF EventsAreKnown
<1>10. KernelAgrees'
  <2>1. \A k : (\E j \in DOMAIN Pending' : Pending'[j] = <<k, "IGNORED">>)
             <=> /\ k # i
                 /\ \E j \in DOMAIN Pending : Pending[j] = <<k, "IGNORED">>
    <3>1. \A j \in DOMAIN Pending :
            j = 1 \/ (j - 1 \in DOMAIN Pending' /\ Pending'[j - 1] = Pending[j])
      BY <1>1
    <3>2. \A k : Pending[1] = <<k, "IGNORED">> <=> k = i
      BY <1>1
    <3>3. \A j \in DOMAIN Pending' :
            Pending'[j] = Pending[j + 1] /\ Pending'[j] # <<i, "IGNORED">>
      BY <1>8
    <3> QED
      BY <1>8, <3>1, <3>2, <3>3, <1>3
  <2>2. inodes' = inodes /\ file[p] # i
    BY <1>2, <1>5
  <2> QED
    BY <1>3, <1>4, <2>1, <2>2, Kernel DEF KernelAgrees, ToSet
<1>11. IgnoredAreNameless'
  <2> SUFFICES ASSUME NEW j \in DOMAIN Pending', Pending'[j][2] = "IGNORED"
               PROVE  /\ \A x \in Name : file'[x] # Pending'[j][1]
                      /\ Pending'[j][1] \notin watched'
    BY DEF IgnoredAreNameless, Nameless
  <2>1. Nameless(Pending[j + 1][1]) /\ Pending[j + 1][1] \notin watched
    BY <1>8 DEF IgnoredAreNameless
  <2> QED
    BY <1>2, <1>3, <1>4, <1>8, <2>1, Types DEF Nameless
<1>12. PathsAreKept'
  <2> SUFFICES ASSUME NEW q \in Path, q \notin gone, q \notin todo
               PROVE  \E w \in DOMAIN watchs' :
                        watchs'[w] = q /\ (w = file[q] \/ Nameless(w))
    BY <1>2 DEF PathsAreKept, Nameless
  <2>1. PICK w \in DOMAIN watchs : watchs[w] = q /\ (w = file[q] \/ Nameless(w))
    BY DEF PathsAreKept
  <2>2. file[q] # 0
    BY DEF Bounds
  <2>3. CASE w = i
    <3>1. q = p
      BY <2>1, <2>3 DEF p
    <3> QED
      BY <1>4, <2>2, <3>1
  <2>4. CASE w # i /\ w = file[p]
    <3>1. q = p
      BY <1>3, <2>1, <2>2, <2>4, Types DEF NamesDiffer, Nameless
    <3> QED
      BY <1>4, <2>2, <3>1
  <2>5. CASE w # i /\ w # file[p]
    BY <1>4, <2>1, <2>5
  <2> QED
    BY <2>3, <2>4, <2>5
<1> QED
  BY <1>6, <1>7, <1>9, <1>10, <1>11, <1>12

LEMMA PythonStep ==
  ASSUME Inv, Python
  PROVE  Inv'
<1> USE DEF Inv, Python, fileVars, watchVars
<1>1. ReloadInv'
  BY ImportStep, DiesStep
<1>2. Pending' = Pending /\ batch' \in Seq(Event) /\ queue' \in Seq(Event)
  BY DEF Pending, TypeOK
<1> QED
  BY <1>1, <1>2, FilesStutter

-----------------------------------------------------------------------------
LEMMA InitInv == Init => Inv
<1> SUFFICES ASSUME Init PROVE Inv
  OBVIOUS
<1> USE FileWatchAssumption DEF Init
<1>1. ReloadInv
  BY ReloadInitInv
<1>2. Pending = <<>> /\ DOMAIN Pending = {}
  BY DEF Pending
<1>3. TypeOK
  BY <1>1 DEF TypeOK, ReloadInv, ModuleInv, ReloadTypeOK, Path, Name
<1>4. Bounds /\ NamesDiffer
  BY DEF Bounds, NamesDiffer, Path, Name
<1>5. EventsAreKnown /\ IgnoredAreNameless /\ PathsAreKept
  BY <1>2 DEF EventsAreKnown, IgnoredAreNameless, PathsAreKept
<1>6. KernelAgrees
  BY <1>2, Kernel
<1> QED
  BY <1>1, <1>3, <1>4, <1>5, <1>6 DEF Inv

LEMMA NextInv == Inv /\ [Next]_vars => Inv'
<1> SUFFICES ASSUME Inv, [Next]_vars PROVE Inv'
  OBVIOUS
<1>1. CASE \E n \in Name : Create(n) \/ Unlink(n) \/ Touch(n)
  BY <1>1, CreateStep, UnlinkStep, TouchStep
<1>2. CASE \E n, o \in Name : Rename(n, o)
  BY <1>2, RenameStep
<1>3. CASE \E i \in watched : Frees(i)
  BY <1>3, FreesStep
<1>4. CASE \E p \in Path : Regist(p)
  BY <1>4, RegistStep
<1>5. CASE Reads
  BY <1>5, ReadsStep
<1>6. CASE Modified
  BY <1>6, ModifiedStep
<1>7. CASE Ignored
  BY <1>7, IgnoredStep
<1>8. CASE Python
  BY <1>8, PythonStep
<1>9. CASE UNCHANGED vars
  <2>1. UNCHANGED <<reloadVars, file, inodes, gone, todo, watchs, watched, batch, queue>>
    BY <1>9 DEF vars, fileVars, watchVars
  <2>2. ReloadInv'
    BY <2>1, ReloadStutter DEF Inv
  <2> QED
    BY <2>1, <2>2, FilesStutter DEF Pending, Inv, TypeOK
<1> QED
  BY <1>1, <1>2, <1>3, <1>4, <1>5, <1>6, <1>7, <1>8, <1>9 DEF Next, Editors, Thread

(* The inductive invariant holds in every reachable state. *)
THEOREM Invariance == Spec => []Inv
  BY InitInv, NextInv, PTL DEF Spec

(* The variables have their types, whatever the editors do. *)
THEOREM TypeCorrect == Spec => []TypeOK
<1>1. Inv => TypeOK
  BY DEF Inv
<1> QED
  BY <1>1, Invariance, PTL

(* The assertions at the head of handle_event hold: watchs and handles have the
   descriptor of every event that the kernel ever sends. *)
THEOREM EventsAreAlwaysKnown == Spec => []EventsAreKnown
<1>1. Inv => EventsAreKnown
  BY DEF Inv
<1> QED
  BY <1>1, Invariance, PTL

(* watchs has no descriptor that the kernel has not, once its IGNORED is
   handled, and lacks none: handle_modify and rm_watch leave nothing behind. *)
THEOREM KernelAndWatchsAgree == Spec => []KernelAgrees
<1>1. Inv => KernelAgrees
  BY DEF Inv
<1> QED
  BY <1>1, Invariance, PTL

(* Whatever replaces a registered file by renaming, and however often, the inode
   that the path has at rest is watched for that path. *)
THEOREM PathsStayWatched == Spec => []WatchFollowsPath
<1>1. Inv => WatchFollowsPath
  <2> SUFFICES ASSUME Inv, AtRest, NEW p \in Path \ gone
               PROVE  file[p] \in watched /\ watchs[file[p]] = p
    BY DEF WatchFollowsPath
  <2>1. DOMAIN watchs = watched
    <3>1. Pending = <<>> /\ DOMAIN Pending = {}
      BY DEF AtRest
    <3>2. \A i : i \in DOMAIN watchs <=> i \in watched
      BY <3>1, Kernel DEF Inv
    <3> QED
      BY <3>2
  <2>2. \A i \in watched : ~Nameless(i)
    BY Types DEF Inv, AtRest, Nameless, Range
  <2>3. PICK i \in DOMAIN watchs : watchs[i] = p /\ (i = file[p] \/ Nameless(i))
    BY DEF Inv, AtRest, PathsAreKept
  <2> QED
    BY <2>1, <2>2, <2>3
<1> QED
  BY <1>1, Invariance, PTL

(* reload_mod, called for any module at any time and however often: after a call
   that ended well the instances of old-style classes have the newest functions,
   whichever run of the source made their class, but for the exceptions that
   InstancesAreUpdated names. *)
THEOREM ReloadUpdates == ReloadSpec => []InstancesAreUpdated
<1>1. ReloadInv /\ [ReloadNext]_reloadVars => ReloadInv'
  BY ImportStep, DiesStep, ReloadModStep, ReloadStutter DEF ReloadNext
<1> QED
  BY <1>1, ReloadInitInv, ReloadInvImplies, PTL DEF ReloadSpec

(* The same with the calls that the watched files lead to. *)
THEOREM InstancesGetNewMethods == Spec => []InstancesAreUpdated
<1>1. Inv => InstancesAreUpdated
  BY ReloadInvImplies DEF Inv
<1> QED
  BY <1>1, Invariance, PTL
=============================================================================

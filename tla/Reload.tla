------------------------------- MODULE Reload -------------------------------
(***************************************************************************)
(* reload_mod of script/reload_mgr.py: Python's reload() runs the source   *)
(* of a module again, which makes new class objects; instances go on with  *)
(* the class object they were made from, so reload_mod puts the new        *)
(* functions into the old ones.  old_mods holds, for each reload that came *)
(* to its end, a dictionary of weak references to the class objects it     *)
(* replaced.                                                               *)
(*                                                                         *)
(* A class object is <<c, k>>: class c, as run k of the source made it.    *)
(* Of its dictionary the functions count, by name.  That of a new-style    *)
(* class cannot be assigned to (it is a dictproxy): update_dict leaves it  *)
(* alone, and copy_dict raises.  Every run defines all the classes.        *)
(***************************************************************************)
EXTENDS Integers

CONSTANTS Module,    \* the modules of script files that some handler imports
          Class,     \* the classes a module defines
          NewStyle,  \* those that derive from object
          Method,    \* names of functions
          Special,   \* those that begin with "__"
          Sources,   \* the functions that a run may define in each class
          MaxLoads   \* bound: runs of the source of a module

ASSUME ReloadAssumption ==
  /\ MaxLoads \in Nat /\ Class # {}
  /\ Sources \subseteq [Class -> SUBSET Method]

VARIABLES loads,     \* runs of the source of each module, 0 if not imported
          own,       \* the run that made the class object the module has now
          methods,   \* the class objects that exist, and of each the functions:
                     \* the run that made the function, by name
          old_mods,  \* old_mods: the dictionary of each run that has one
          broken     \* history: the class objects that were replaced by a run
                     \* that did not end well, and whether the last did not

reloadVars == <<loads, own, methods, old_mods, broken>>

Alive(m) == DOMAIN methods[m]

Own(m) == {<<c, own[m][c]>> : c \in Class}

ReloadInit ==
  /\ loads = [m \in Module |-> 0]
  /\ own = [m \in Module |-> [c \in Class |-> 0]]
  /\ methods = [m \in Module |-> [o \in {} |-> 0]]
  /\ old_mods = [m \in Module |-> [k \in {} |-> {}]]
  /\ broken = [m \in Module |-> [objects |-> {}, last |-> FALSE]]

\* For TLC: only the old-style classes have special functions.
MCSources ==
  {D \in [Class -> SUBSET Method] : \A c \in NewStyle : D[c] \cap Special = {}}

\* For TLC: every run defines the same functions.
MCSameSource == {[c \in Class |-> Method]}

-----------------------------------------------------------------------------
(* Run n of the source defines the functions D[c] of each class c, and has   *)
(* made the class objects of the classes S.                                  *)

Runs(m) == loads[m] < MaxLoads /\ loads' = [loads EXCEPT ![m] = @ + 1]

Makes(m, S) ==
  own' = [own EXCEPT ![m] = [c \in Class |-> IF c \in S THEN loads[m] + 1 ELSE @[c]]]

\* Besides, the functions given[o] of an older class object o are replaced.
Defines(m, S, D, given) ==
  LET n   == loads[m] + 1
      new == {<<c, n>> : c \in S}
      old == [o \in Alive(m) |->
                [x \in DOMAIN methods[m][o] |->
                   IF x \in given[o] THEN n ELSE methods[m][o][x]]]
  IN methods' = [methods EXCEPT ![m] =
                   [o \in Alive(m) \cup new |->
                      IF o \in new THEN [x \in D[o[1]] |-> n] ELSE old[o]]]

Import(m) ==
  /\ loads[m] = 0
  /\ Runs(m) /\ Makes(m, Class)
  /\ \E D \in Sources : Defines(m, Class, D, [o \in Alive(m) |-> {}])
  /\ UNCHANGED <<old_mods, broken>>

\* The last instance of a class object is gone, and with it the class object.
Dies(m) ==
  /\ \E o \in Alive(m) \ Own(m) :
       methods' = [methods EXCEPT ![m] = [p \in Alive(m) \ {o} |-> methods[m][p]]]
  /\ UNCHANGED <<loads, own, old_mods, broken>>

-----------------------------------------------------------------------------
(* reload_mod *)

Imported(m) == m \in Module /\ loads[m] > 0

NotImported(m) == ~Imported(m) /\ UNCHANGED reloadVars

\* reload() raises before it reaches a class: a syntax error.
ReloadRaises(m) == Imported(m) /\ UNCHANGED reloadVars

\* It raises after some classes: the module has their new class objects, and
\* nothing knows the old ones.
ReloadBreaks(m) ==
  /\ Imported(m)
  /\ \E D \in Sources, S \in (SUBSET Class) \ {{}} :
       /\ Runs(m) /\ Makes(m, S)
       /\ Defines(m, S, D, [o \in Alive(m) |-> {}])
       /\ broken' = [broken EXCEPT ![m] =
                       [objects |-> @.objects \cup {<<c, own[m][c]>> : c \in S},
                        last    |-> TRUE]]
  /\ UNCHANGED old_mods

\* The functions that a class object and the newest run both have.
Common(m, o, D) == DOMAIN methods[m][o] \cap D[o[1]]

\* update_dict, for a class object that was just replaced.
UpdateDict(m, o, D) == IF o[1] \in NewStyle THEN {} ELSE Common(m, o, D) \ Special

\* copy_dict raises.
Raises(m, o, D) == o \in Alive(m) /\ o[1] \in NewStyle /\ Common(m, o, D) # {}

\* What the class objects get, those in refs by copy_dict.
Given(m, refs, D) ==
  [o \in Alive(m) |-> IF o \in Own(m) THEN UpdateDict(m, o, D)
                      ELSE IF o \in refs THEN Common(m, o, D) ELSE {}]

\* Faulty: only what this reload replaces is updated.
ReferredNone(m) == {}

\* What update_weak_ref finds in the dictionaries.
Referred(m) == UNION {old_mods[m][k] : k \in DOMAIN old_mods[m]}

\* Faulty: dictionaries stay when their class objects are gone.
KeepAll(refs) == refs

\* Empty dictionaries are popped.
PopEmpty(refs) == [k \in {j \in DOMAIN refs : refs[j] # {}} |-> refs[k]]

\* The dictionaries without the references in refs to class objects that have
\* died.
WithoutDead(m, refs) ==
  [k \in DOMAIN old_mods[m] |-> old_mods[m][k] \ (refs \ Alive(m))]

ReloadSucceeds(m) ==
  /\ Imported(m)
  /\ Runs(m) /\ Makes(m, Class)
  /\ \E D \in Sources :
       /\ \A o \in Referred(m) : ~Raises(m, o, D)
       /\ Defines(m, Class, D, Given(m, Referred(m), D))
  /\ LET left == PopEmpty(WithoutDead(m, Referred(m)))
         n    == loads[m] + 1
     IN old_mods' = [old_mods EXCEPT ![m] =
                       [k \in DOMAIN left \cup {n} |->
                          IF k = n THEN Own(m) ELSE left[k]]]
  /\ broken' = [broken EXCEPT ![m] = [objects |-> @.objects, last |-> FALSE]]

\* copy_dict raises for a class object in dictionary k: the dictionaries before
\* it are done, k itself in part, and the references to the class objects just
\* replaced are lost.
ReloadStuck(m) ==
  /\ Imported(m)
  /\ Runs(m) /\ Makes(m, Class)
  /\ \E D \in Sources, k \in DOMAIN old_mods[m] :
       LET before == {j \in DOMAIN old_mods[m] : j < k}
           passed == {o \in old_mods[m][k] : ~Raises(m, o, D)}
       IN /\ passed # old_mods[m][k]
          /\ \A j \in before : \A o \in old_mods[m][j] : ~Raises(m, o, D)
          /\ \E some \in SUBSET passed :
               LET refs == UNION {old_mods[m][j] : j \in before} \cup some
               IN /\ Defines(m, Class, D, Given(m, refs, D))
                  /\ old_mods' = [old_mods EXCEPT ![m] = WithoutDead(m, refs)]
  /\ broken' = [broken EXCEPT ![m] = [objects |-> @.objects \cup Own(m), last |-> TRUE]]

-----------------------------------------------------------------------------
(* The modules by themselves; FileWatch has the calls of reload_mod.         *)

ReloadMod(m) ==
  \/ NotImported(m) \/ ReloadRaises(m) \/ ReloadBreaks(m)
  \/ ReloadSucceeds(m) \/ ReloadStuck(m)

ReloadNext == \E m \in Module : Import(m) \/ Dies(m) \/ ReloadMod(m)

ReloadSpec == ReloadInit /\ [][ReloadNext]_reloadVars

-----------------------------------------------------------------------------
ModuleTypeOK(m) ==
  LET Objects == Class \X (1 .. loads[m])
  IN /\ loads[m] \in 0 .. MaxLoads
     /\ own[m] \in [Class -> 0 .. loads[m]]
     /\ Alive(m) \subseteq Objects
     /\ loads[m] > 0 => Own(m) \subseteq Alive(m)
     /\ \A o \in Alive(m) : \A x \in DOMAIN methods[m][o] :
          x \in Method /\ methods[m][o][x] \in 1 .. loads[m]
     /\ DOMAIN old_mods[m] \subseteq 1 .. loads[m]
     /\ \A k \in DOMAIN old_mods[m] :
          /\ old_mods[m][k] \subseteq Objects
          /\ ~broken[m].last => old_mods[m][k] # {}
     /\ broken[m].objects \subseteq Objects

ReloadTypeOK == \A m \in Module : ModuleTypeOK(m)

\* The class objects that the last reload replaced, if it ended well.
Replaced(m) == IF loads[m] \in DOMAIN old_mods[m] THEN old_mods[m][loads[m]] ELSE {}

\* The functions that an instance can ask of both its class object o and the one
\* that the module has now are the newest ones.
IsUpdated(m, o) ==
  \A x \in DOMAIN methods[m][o] \cap DOMAIN methods[m][<<o[1], own[m][o[1]]>>] :
    \/ methods[m][o][x] = loads[m]
    \/ x \in Special /\ o \in Replaced(m)

\* After a reload that ended well, every instance of an old-style class runs the
\* newest functions, of those that its class had from the first and has still,
\* whichever run made its class.  The exceptions: a special function stays as it
\* was until the next reload but one, and class objects replaced by a reload that
\* raised, in the source or in copy_dict, are forgotten.
InstancesAreUpdated ==
  \A m \in Module : ~broken[m].last =>
    \A o \in Alive(m) \ broken[m].objects : o[1] \notin NewStyle => IsUpdated(m, o)
=============================================================================

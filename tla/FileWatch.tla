----------------------------- MODULE FileWatch ------------------------------
(***************************************************************************)
(* Watching the script files: reload_mgr.init() registers each of them     *)
(* (script/reload_mgr.py), PyFileHandle is its handle                      *)
(* (pyengine/_engine.cpp), and iNotifyHandle (include/epoll.hpp) has the   *)
(* kernel's inotify tell of changes.  The server runs this on its loop,    *)
(* between the events of HttpServer, while editors change the files.       *)
(*                                                                         *)
(* inotify watches inodes, not paths: a watch descriptor stands for an     *)
(* inode, and here it has its number.  A path is a number up to MaxPath    *)
(* and the path of module m is m; other names are the editors' own.        *)
(***************************************************************************)
EXTENDS Reload, SequencesExt

CONSTANTS MaxPath,    \* the registered files
          MaxName,    \* all names, the editors' included
          MaxInode,   \* bound: inodes ever made
          MaxQueue,   \* bound: events that may wait
          ReadSize    \* events that one read() gives

ASSUME FileWatchAssumption ==
  /\ MaxPath \in Nat /\ MaxName \in Nat /\ MaxPath <= MaxName
  /\ Module \subseteq 1 .. MaxPath
  /\ MaxInode \in Nat /\ MaxPath <= MaxInode
  /\ MaxQueue \in Nat /\ ReadSize \in Nat \ {0}

VARIABLES file,     \* the inode of each name, or 0
          inodes,   \* inodes made so far
          watched,  \* the inodes with a watch, in the kernel
          queue,    \* the events in the inotify descriptor
          todo,     \* paths that init() has still to register
          batch,    \* the events read and not handled
          watchs,   \* watchs, and handles with the same keys: paths by wd
          gone,     \* history: paths that have been without a file
          touched   \* history: paths with a change to tell

fileVars  == <<file, inodes, gone>>
watchVars == <<todo, batch, watchs>>
vars == <<reloadVars, fileVars, watchVars, watched, queue, touched>>

Path == 1 .. MaxPath
Name == 1 .. MaxName
Inode == 1 .. MaxInode
Event == Inode \X {"ATTRIB", "IGNORED"}

Init ==
  /\ ReloadInit
  /\ file = [n \in Name |-> IF n \in Path THEN n ELSE 0]
  /\ inodes = MaxPath
  /\ watched = {} /\ queue = <<>>
  /\ todo = Path /\ batch = <<>> /\ watchs = [i \in {} |-> 0]
  /\ gone = {} /\ touched = {}

-----------------------------------------------------------------------------
(* The editors and the kernel *)

\* The kernel drops an event that is equal to the last one.
Notify(i, mask) ==
  queue' = IF i \in watched /\ (queue = <<>> \/ Last(queue) # <<i, mask>>)
           THEN Append(queue, <<i, mask>>) ELSE queue

NameSet(f) ==
  /\ file' = f
  /\ gone' = gone \cup {p \in Path : f[p] = 0}
  /\ touched' = touched \ gone'
  /\ UNCHANGED <<reloadVars, watchVars, watched>>

Quiet == Len(queue) < MaxQueue

Create(n) ==
  /\ file[n] = 0 /\ inodes < MaxInode
  /\ inodes' = inodes + 1
  /\ NameSet([file EXCEPT ![n] = inodes'])
  /\ UNCHANGED queue

Unlink(n) ==
  /\ file[n] # 0 /\ Quiet
  /\ NameSet([file EXCEPT ![n] = 0])
  /\ Notify(file[n], "ATTRIB")
  /\ UNCHANGED inodes

\* The file that the new name had is unlinked.
Rename(n, o) ==
  /\ file[n] # 0 /\ n # o /\ Quiet
  /\ NameSet([file EXCEPT ![n] = 0, ![o] = file[n]])
  /\ Notify(file[o], "ATTRIB")
  /\ UNCHANGED inodes

\* utime() or chmod().
Touch(n) ==
  /\ file[n] # 0 /\ Quiet
  /\ Notify(file[n], "ATTRIB")
  /\ touched' = touched \cup {p \in {n} \cap (Path \ gone) :
                                file[p] \in watched /\ watchs[file[p]] = p}
  /\ UNCHANGED <<reloadVars, fileVars, watchVars, watched>>

\* An inode without a name goes when nobody has it open any more.
Frees(i) ==
  /\ i \in watched /\ i \notin Range(file)
  /\ Notify(i, "IGNORED")
  /\ watched' = watched \ {i}
  /\ UNCHANGED <<reloadVars, fileVars, watchVars, touched>>

Editors ==
  \/ \E n \in Name : Create(n) \/ Unlink(n) \/ Touch(n)
  \/ \E n, o \in Name : Rename(n, o)
  \/ \E i \in watched : Frees(i)

-----------------------------------------------------------------------------
(* iNotifyHandle *)

\* Faulty: watchs.erase() is forgotten.
WithoutNone(i) == watchs

Without(i) == [j \in DOMAIN watchs \ {i} |-> watchs[j]]

\* Faulty: the descriptor of a second watch is not noted.
AddUnnoted(p, base) ==
  /\ watched' = (watched \cup {file[p]}) \ {0}
  /\ watchs' = IF DOMAIN base # {} THEN base
               ELSE [j \in {file[p]} \ {0} |-> p]

\* add_watch.  Without a file there is an error in the log and nothing else.
\* An inode that has a watch already keeps it, for the new path.
AddWatch(p, base) ==
  /\ watched' = (watched \cup {file[p]}) \ {0}
  /\ watchs' = [j \in DOMAIN base \cup ({file[p]} \ {0}) |->
                  IF j = file[p] THEN p ELSE base[j]]

\* Before the loop starts.
Regist(p) ==
  /\ p \in todo
  /\ todo' = todo \ {p}
  /\ AddWatch(p, watchs)
  /\ UNCHANGED <<reloadVars, fileVars, batch, queue, touched>>

\* handle_read: one read().
Reads ==
  /\ todo = {} /\ batch = <<>> /\ queue # <<>>
  /\ LET n == IF Len(queue) < ReadSize THEN Len(queue) ELSE ReadSize
     IN /\ batch' = SubSeq(queue, 1, n)
        /\ queue' = SubSeq(queue, n + 1, Len(queue))
  /\ UNCHANGED <<reloadVars, fileVars, todo, watchs, watched, touched>>

\* Faulty: the rest of the events is dropped.
RestDropped == batch' = <<>>

Rest == batch' = Tail(batch)

Told(mask) == batch # <<>> /\ batch[1][2] = mask /\ Rest

\* handle_event, PyFileHandle::handle_modify and handle_file_modify.
Modified ==
  /\ Told("ATTRIB")
  /\ LET m == watchs[batch[1][1]]
     IN /\ ReloadMod(m)
        /\ touched' = touched \ {m}
  /\ UNCHANGED <<fileVars, todo, watchs, watched, queue>>

\* Faulty: the path is not watched again.
WatchDropped(i) == watchs' = Without(i) /\ UNCHANGED watched

\* rm_watch, of a descriptor the kernel has removed itself, and add_watch.
WatchAgain(i) == AddWatch(watchs[i], Without(i))

Ignored ==
  /\ Told("IGNORED")
  /\ WatchAgain(batch[1][1])
  /\ UNCHANGED <<reloadVars, fileVars, todo, queue, touched>>

\* Another handler of the loop imports a module, or an instance goes.
Python ==
  /\ batch = <<>>
  /\ \E m \in Module : (file[m] # 0 /\ Import(m)) \/ Dies(m)
  /\ UNCHANGED <<fileVars, watchVars, watched, queue, touched>>

Thread == (\E p \in Path : Regist(p)) \/ Reads \/ Modified \/ Ignored

Next == Editors \/ Thread \/ Python

Spec == Init /\ [][Next]_vars /\ WF_vars(Thread)

-----------------------------------------------------------------------------
TypeOK ==
  /\ ReloadTypeOK
  /\ file \in [Name -> 0 .. inodes]
  /\ watched \subseteq 1 .. inodes
  /\ queue \in Seq(Event) /\ batch \in Seq(Event)
  /\ todo \subseteq Path
  /\ watchs \in [DOMAIN watchs -> Path] /\ DOMAIN watchs \subseteq 1 .. inodes

Pending == batch \o queue

\* Every event is for a descriptor that watchs and handles still have when it
\* is handled: the assertions at the head of handle_event.
EventsAreKnown ==
  \A j \in DOMAIN Pending :
    /\ Pending[j][1] \in DOMAIN watchs
    /\ Pending[j][2] = "IGNORED" =>
         \A k \in j + 1 .. Len(Pending) : Pending[k][1] # Pending[j][1]

\* watchs has the descriptors the kernel has, and those it is about to hear the
\* kernel has removed: no entry is left behind.
KernelAgrees ==
  DOMAIN watchs = watched \cup {i \in Inode : <<i, "IGNORED">> \in ToSet(Pending)}

AtRest ==
  /\ todo = {} /\ Pending = <<>>
  /\ watched \subseteq Range(file)

\* A file that is replaced by renaming another one over it stays watched,
\* however often and whenever it is replaced: when everything is told, the
\* inode its path has now is watched, for that path.
WatchFollowsPath ==
  AtRest => \A p \in Path \ gone : file[p] \in watched /\ watchs[file[p]] = p

\* A change of a watched file is told to its module's reload, unless the file
\* goes first.
TouchIsTold == \A p \in Path : p \in touched ~> p \notin touched
=============================================================================

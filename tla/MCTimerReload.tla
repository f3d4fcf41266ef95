--------------------------- MODULE MCTimerReload ---------------------------
(***************************************************************************)
(* The two components whose runs need nothing of the rest of the program:  *)
(* the timers of an EventLoop, and a script module that is reloaded.  A    *)
(* behaviour has one of them.  (FileWatch has the reloads that changes of  *)
(* files cause, of sources that stay the same.)                            *)
(***************************************************************************)
EXTENDS Timer, Reload

VARIABLE part  \* "timers" or "scripts"

MCInit == part \in {"timers", "scripts"} /\ Init /\ ReloadInit

MCNext ==
  \/ part = "timers" /\ Next /\ UNCHANGED <<part, reloadVars>>
  \/ part = "scripts" /\ ReloadNext /\ UNCHANGED <<part, vars>>

MCSpec == MCInit /\ [][MCNext]_<<part, vars, reloadVars>>
=============================================================================

------------------------------ MODULE Channel ------------------------------
(***************************************************************************)
(* What the reader of a stream promises its handler, with no bytes,        *)
(* lengths, buffers or system calls: the messages that have come are       *)
(* handed over one by one, whole and in order, and when the reader waits   *)
(* for more none that has come is left.                                    *)
(*                                                                         *)
(* A stream may be followed by another, which begins anew.  The promise    *)
(* may be broken by what a read brings, or by how a stream ends; from then *)
(* on anything may be handed over, until perhaps a new stream begins.      *)
(***************************************************************************)
EXTENDS Sequences, Naturals

VARIABLES come,     \* the messages of which every byte has been received
          handed,   \* the messages handed to the handler
          waiting,  \* the reader has returned and waits for the next event
          kept      \* the promise has not been broken

channelVars == <<come, handed, waiting, kept>>

Init == come = <<>> /\ handed = <<>> /\ waiting = TRUE /\ kept = TRUE

Wakes ==
  /\ waiting /\ waiting' = FALSE
  /\ UNCHANGED <<come, handed, kept>>

\* Some bytes: the end of no message, of one or of several.
Brings ==
  /\ ~waiting
  /\ Len(come) <= Len(come') /\ come = SubSeq(come', 1, Len(come))
  /\ kept' => kept
  /\ UNCHANGED <<handed, waiting>>

\* The next message is handed over; after the last the reader may return.
Hands ==
  /\ ~waiting /\ kept /\ Len(handed) < Len(come)
  /\ handed' = Append(handed, come[Len(handed) + 1])
  /\ waiting' => handed' = come
  /\ UNCHANGED <<come, kept>>

Waits ==
  /\ ~waiting /\ waiting' = TRUE
  /\ kept /\ handed = come
  /\ UNCHANGED <<come, handed, kept>>

\* Anything, while the promise is broken.
Fails == ~kept /\ UNCHANGED <<come, kept>>

Renews == come' = <<>> /\ handed' = <<>> /\ waiting' = TRUE /\ kept' \in BOOLEAN

Next == Wakes \/ Brings \/ Hands \/ Waits \/ Fails \/ Renews

Spec == Init /\ [][Next]_channelVars
=============================================================================

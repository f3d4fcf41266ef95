---------------------------- MODULE ClientProofs ----------------------------
(***************************************************************************)
(* The safety invariants of Client hold in every reachable state, for any  *)
(* limit on retries.                                                       *)
(*                                                                         *)
(* That a client which is not connected has a timer that tries again rests *)
(* on what holds while it is connected: either the timer is armed, or it   *)
(* has lapsed, and the count of retries is zero, so that a close does not  *)
(* end the program.                                                        *)
(***************************************************************************)
EXTENDS Client, TLAPS

\* Before main has called start_connect() there is nothing.
NotStarted ==
  pc = "start" => /\ status = "CLOSED" /\ retry_count = 0 /\ armed = 0
                  /\ ~due /\ net = "none"

\* Only a timer that was started expires.
DueIsArmed == due => armed = 1

\* Only a Connector that the loop has is watched.
WatchedIsRegistered == watched => registered

\* Bits of an event are left to test only while it is handled.
BitsOfEvent == revents # {} => pc \in {"event", "aborted"}

\* Nothing is sent before the connection is there.
NoEarlyOutput == status = "CONNECTING" => wbuf = 0

\* The connection that is there was not the last attempt, and its end is
\* followed by another one unless no timer is left.
Connected ==
  status = "CONNECTED" => retry_count = 0 /\ (armed = 1 \/ lapsed)

\* The failure of the last attempt has ended the program.
LastFailureEnds == TooMany /\ status = "CLOSED" => shutdown

\* The inductive invariant.
Inv ==
  /\ TypeOK
  /\ StatusesAgree /\ NeverForgotten
  /\ NotStarted /\ WatchedIsRegistered /\ DueIsArmed /\ BitsOfEvent
  /\ NoEarlyOutput
  /\ Connected /\ LastFailureEnds

-----------------------------------------------------------------------------
(* The first state. *)
LEMMA InitInv == Init => Inv
<1> SUFFICES ASSUME Init PROVE Inv
  OBVIOUS
<1>1. TypeOK
  BY ClientAssumption DEF Init, TypeOK, Status
<1>2. StatusesAgree /\ NeverForgotten /\ NotStarted /\
      WatchedIsRegistered /\ DueIsArmed
  BY DEF Init, StatusesAgree, NeverForgotten, Ended, NotStarted, WatchedIsRegistered,
      DueIsArmed
<1>3. BitsOfEvent /\ NoEarlyOutput /\ Connected /\ LastFailureEnds
  BY ClientAssumption
  DEF Init, BitsOfEvent, NoEarlyOutput, Connected, LastFailureEnds, TooMany
<1> QED
  BY <1>1, <1>2, <1>3 DEF Inv

(* main starts the first attempt and the timer. *)
LEMMA StartStep ==
  ASSUME Inv, Start
  PROVE  Inv'
<1> USE ClientAssumption DEF Inv, TypeOK, Status, NotStarted, BitsOfEvent
<1>1. CASE Connects
  BY <1>1
  DEF Start, Connects, Registers, Ended, NewSocket, StatusesAgree, NeverForgotten,
      WatchedIsRegistered, DueIsArmed, NoEarlyOutput, Connected,
      LastFailureEnds, TooMany
<1>2. CASE ConnectsAtOnce
  BY <1>2
  DEF Start, ConnectsAtOnce, Registers, NewSocket, StatusesAgree, NeverForgotten,
      WatchedIsRegistered, DueIsArmed, NoEarlyOutput, Connected,
      LastFailureEnds, TooMany, Ended
<1>3. CASE FailsAtOnce
  BY <1>3
  DEF Start, FailsAtOnce, NewSocket, StatusesAgree, NeverForgotten,
      WatchedIsRegistered, DueIsArmed, NoEarlyOutput, Connected,
      LastFailureEnds, TooMany, Ended
<1> QED
  BY <1>1, <1>2, <1>3 DEF Start

(* The loop asks for events and is done with them. *)
LEMMA LoopStep ==
  ASSUME Inv, Select \/ EventDone \/ Aborts
  PROVE  Inv'
<1> USE DEF Inv, Select, EventDone, Aborts, Ended, client, timer, socket
<1>1. /\ revents' \subseteq {"READ", "WRITE"}
      /\ revents' # {} => registered /\ pc' \in {"event", "aborted"}
  BY DEF Ready, WatchedIsRegistered, BitsOfEvent, StatusesAgree, TypeOK
<1>2. TypeOK' /\ StatusesAgree' /\ BitsOfEvent'
  BY <1>1 DEF TypeOK, StatusesAgree, BitsOfEvent
<1> QED
  BY <1>2 DEF NeverForgotten, Ended, NotStarted, WatchedIsRegistered, DueIsArmed,
      NoEarlyOutput, Connected, LastFailureEnds, TooMany

(* The connection is closed: what is left of the event is dropped, and either
   a timer tries again, or none is left to, or it was the last attempt and the
   program ends. *)
LEMMA CloseStep ==
  ASSUME Inv, Handling, Close,
         UNCHANGED <<pc, timer, failures, socket>>
  PROVE  Inv'
<1> USE ClientAssumption DEF Inv, Handling, Close, timer, socket, TypeOK, Status
<1>1. TypeOK' /\ StatusesAgree' /\ NotStarted' /\
      WatchedIsRegistered' /\ DueIsArmed' /\
      BitsOfEvent' /\ NoEarlyOutput' /\ Connected'
  BY DEF TooMany, StatusesAgree, NotStarted, WatchedIsRegistered, DueIsArmed,
      BitsOfEvent, NoEarlyOutput, Connected
<1>2. LastFailureEnds'
  BY DEF TooMany, LastFailureEnds
<1>3. NeverForgotten'
  BY DEF TooMany, NeverForgotten, Ended, Connected
<1> QED
  BY <1>1, <1>2, <1>3

(* The handlers of READ that do not close. *)
LEMMA ReadStep ==
  ASSUME Inv, ReadNothing \/ ReadData
  PROVE  Inv'
<1>1. revents' \subseteq revents
  BY DEF ReadNothing, ReadData, Handled
<1> QED
  BY <1>1
  DEF Inv, ReadNothing, ReadData, Reading, Handling, Handled, AfterHandler, client,
      timer, socket, TypeOK, Status, StatusesAgree, NeverForgotten, NotStarted,
      WatchedIsRegistered, DueIsArmed, BitsOfEvent, NoEarlyOutput, Connected,
      LastFailureEnds, TooMany

(* The connection is there: the retries are forgotten, and if the timer has
   gone, that is noted. *)
LEMMA WriteConnectedStep ==
  ASSUME Inv, WriteConnected
  PROVE  Inv'
<1> USE ClientAssumption DEF Inv, WriteConnected, Writing, Handling, Handled, socket
<1>1. TypeOK' /\ StatusesAgree' /\ NotStarted' /\
      WatchedIsRegistered' /\ DueIsArmed' /\
      BitsOfEvent' /\ NoEarlyOutput' /\ LastFailureEnds'
  BY DEF WatchedOnConnect, TypeOK, Status, StatusesAgree, NotStarted,
      WatchedIsRegistered, DueIsArmed, BitsOfEvent, NoEarlyOutput,
      LastFailureEnds, TooMany
<1>2. Connected' /\ NeverForgotten'
  <2>1. armed = 1 \/ armed = 0
    BY DEF TypeOK
  <2>2. armed' = 1 \/ lapsed'
    BY <2>1
  <2> QED
    BY <2>2 DEF Connected, NeverForgotten, Ended
<1> QED
  BY <1>1, <1>2

(* The kernel takes messages. *)
LEMMA WriteSendsStep ==
  ASSUME Inv, WriteSends
  PROVE  Inv'
<1> USE DEF Inv, WriteSends, Writing, Handling, Handled, AfterHandler, timer
<1>1. PICK n \in 1 .. wbuf : wbuf' = wbuf - n /\ watched' = (wbuf' > 0)
  BY DEF TypeOK
<1>2. wbuf' \in 0 .. 2 /\ watched' \in BOOLEAN
  BY <1>1 DEF TypeOK
<1> QED
  BY <1>2
  DEF TypeOK, Status, StatusesAgree, NeverForgotten, Ended, NotStarted,
      WatchedIsRegistered, DueIsArmed, BitsOfEvent, NoEarlyOutput, Connected,
      LastFailureEnds, TooMany

(* A timer expires. *)
LEMMA ExpireStep ==
  ASSUME Inv, Expire
  PROVE  Inv'
  BY DEF Inv, Expire, client, socket, TypeOK, Status, StatusesAgree,
      NeverForgotten, Ended, NotStarted, WatchedIsRegistered, DueIsArmed, BitsOfEvent,
      NoEarlyOutput, Connected, LastFailureEnds, TooMany

(* Timer::update with nothing to do, or to do too late: after the last attempt
   is started no timer is wanted, and a connection that finds itself without
   one is noted. *)
LEMMA IdleTimerStep ==
  ASSUME Inv, NotDue \/ FiresTooLate \/ FiresConnected
  PROVE  Inv'
<1> USE ClientAssumption DEF Inv, Fires, EndTurn, client, timer, socket
<1>1. CASE NotDue
  BY <1>1
  DEF NotDue, TypeOK, Status, StatusesAgree, NeverForgotten, Ended, NotStarted,
      WatchedIsRegistered, DueIsArmed, BitsOfEvent, NoEarlyOutput, Connected,
      LastFailureEnds, TooMany
<1>2. CASE FiresTooLate
  BY <1>2
  DEF FiresTooLate, TypeOK, Status, StatusesAgree, NeverForgotten, Ended, NotStarted,
      WatchedIsRegistered, DueIsArmed, BitsOfEvent, NoEarlyOutput, Connected,
      LastFailureEnds, TooMany
<1>3. CASE FiresConnected
  <2>1. /\ lapsed' /\ status' = "CONNECTED" /\ pc' \in {"exit", "select"}
        /\ armed = 1 /\ armed' = 0 /\ ~due'
        /\ UNCHANGED <<client, shutdown, revents, socket>>
    BY <1>3 DEF FiresConnected, DueIsArmed
  <2>2. revents = {}
    BY <1>3 DEF FiresConnected, BitsOfEvent
  <2> QED
    BY <2>1, <2>2 DEF TypeOK, StatusesAgree, NeverForgotten, Ended, NotStarted,
        WatchedIsRegistered, DueIsArmed, BitsOfEvent, NoEarlyOutput,
        Connected, LastFailureEnds, TooMany
<1> QED
  BY <1>1, <1>2, <1>3

(* The timer starts an attempt and is started again, also when the attempt
   fails at once. *)
LEMMA FiresRetryStep ==
  ASSUME Inv, FiresRetry
  PROVE  Inv'
<1> USE ClientAssumption
    DEF Inv, FiresRetry, Fires, EndTurn, Rearmed, NewSocket, TypeOK,
        Status
<1>1. armed = 1 /\ armed' = 1 /\ revents = {} /\ revents' = {}
  BY DEF DueIsArmed, BitsOfEvent
<1>2. CASE Connects \/ ConnectsAtOnce
  BY <1>1, <1>2
  DEF Connects, ConnectsAtOnce, Registers, Ended, TooMany, StatusesAgree, NeverForgotten, NotStarted,
      WatchedIsRegistered, DueIsArmed, BitsOfEvent, NoEarlyOutput, Connected,
      LastFailureEnds
<1>3. CASE FailsAtOnce
  BY <1>1, <1>3
  DEF FailsAtOnce, Ended, TooMany, StatusesAgree, NeverForgotten, NotStarted,
      WatchedIsRegistered, DueIsArmed, BitsOfEvent, NoEarlyOutput, Connected,
      LastFailureEnds
<1> QED
  BY <1>2, <1>3

(* The server and the network change nothing that the invariant is about. *)
LEMMA PeerInv ==
  ASSUME Inv, Peer
  PROVE  Inv'
<1>1. /\ net' \in {"none", "syn", "up", "failed"}
      /\ pc = "start" => net' = "none"
  BY DEF Peer, PeerStep, Answered, Sends, Ends, Resets, Reads, Inv, TypeOK,
      NotStarted
<1> QED
  BY <1>1
  DEF Inv, Peer, PeerStep, client, timer, TypeOK, Status, StatusesAgree,
      NeverForgotten, Ended, NotStarted, WatchedIsRegistered, DueIsArmed, BitsOfEvent,
      NoEarlyOutput, Connected, LastFailureEnds, TooMany

(* A step in which nothing changes. *)
LEMMA StutterInv ==
  ASSUME Inv, UNCHANGED vars
  PROVE  Inv'
  BY DEF Inv, vars, client, timer, socket, TypeOK, Status, StatusesAgree,
      NeverForgotten, Ended, NotStarted, WatchedIsRegistered, DueIsArmed, BitsOfEvent,
      NoEarlyOutput, Connected, LastFailureEnds, TooMany

(* Any step. *)
LEMMA NextInv == Inv /\ [Next]_vars => Inv'
<1> SUFFICES ASSUME Inv, [Next]_vars PROVE Inv'
  OBVIOUS
<1>1. CASE ReadCloses \/ WriteCloses
  BY <1>1, CloseStep
  DEF ReadCloses, WriteCloses, Reading, Writing, Handling, AfterHandler
<1>2. CASE Thread /\ ~(ReadCloses \/ WriteCloses)
  BY <1>2, StartStep, LoopStep, ReadStep, WriteConnectedStep, WriteSendsStep,
     IdleTimerStep, FiresRetryStep
  DEF Thread
<1> QED
  BY <1>1, <1>2, ExpireStep, PeerInv, StutterInv DEF Next, Finished

-----------------------------------------------------------------------------
(* The theorems. *)

(* Every reachable state satisfies the inductive invariant. *)
THEOREM Invariance == Spec => []Inv
  BY InitInv, NextInv, PTL DEF Spec

(* Every variable keeps its type: no more than one retry timer is armed, and
   no more than one attempt is made beyond the limit. *)
THEOREM TypeCorrect == Spec => []TypeOK
<1>1. Inv => TypeOK
  BY DEF Inv
<1> QED
  BY <1>1, Invariance, PTL

(* Client, Connector and loop agree on the connection, and no handler runs for
   a Connector that is closed, but for an attempt that connect() has answered at
   once, which alone makes the program abort. *)
THEOREM ClientAndLoopAgree == Spec => []StatusesAgree
<1>1. Inv => StatusesAgree
  BY DEF Inv
<1> QED
  BY <1>1, Invariance, PTL

(* A client that is not connected tries again, but for the exceptions that the
   property names. *)
THEOREM ClientIsNotForgotten == Spec => []NeverForgotten
<1>1. Inv => NeverForgotten
  BY DEF Inv
<1> QED
  BY <1>1, Invariance, PTL
=============================================================================

----------------------------- MODULE TimerProofs -----------------------------
(***************************************************************************)
(* Until the u32 wraps, timers fire once, in the order they are due and    *)
(* never early, and none due a turn before the wrap is ever late, for any  *)
(* number of timers, any delays, any modulus and any bound of a turn.      *)
(*                                                                         *)
(* What makes it true is that a timer that a callback starts cannot come   *)
(* before the one whose callback runs: update() has read the clock before, *)
(* and the new timer counts from a later time.  So the callback that       *)
(* returns is still that of the top, and pop() takes the right one.        *)
(*                                                                         *)
(* Past the wrap this is lost: a timer started then may come before the    *)
(* one that runs, and pop() drops it.  But the heap is in order all the    *)
(* time, and what is dropped was due after the wrap, so that a timer due   *)
(* before it, by a turn, is not lost and not late.                         *)
(***************************************************************************)
EXTENDS Timer, TLAPS

\* Before the wrap the count of centiseconds is the time itself.
CountsAreTimes == \A i \in 1 .. max_id : expired[i] = due[i]

\* The top is the timer that is due first, and the one that update() runs.
TopIsFirst ==
  /\ \A j \in heap : due[top] <= due[j]
  /\ running # 0 => running = top

\* A timer that has fired was due when update() last read the clock.
FiredWereDue ==
  /\ now <= clock
  /\ \A i \in 1 .. max_id : calls[i] > 0 => due[i] <= now
  /\ running # 0 => calls[running] > 0
  /\ ~open => heap = {} /\ running = 0

\* No timer has fired before it was started.
Unstarted == \A i \in Id : i > max_id => calls[i] = 0

\* There is a top if there are timers.
HasTop == heap # {} => top \in heap

\* What holds until the wrap.
Core ==
  CountsAreTimes /\ TopIsFirst /\ FiredWereDue /\ FiresInOrder /\ FiresOnce

\* The heap is in order, also when some of the times in it have wrapped.
HeapOrder == \A j \in heap : expired[top] <= expired[j]

\* While update() runs a callback, the top has expired; it is the timer whose
\* callback runs, or one started since for a time after the wrap.
TopHasExpired ==
  running # 0 => /\ now = (clock - turn) % Modulus
                 /\ open /\ expired[top] <= now /\ calls[running] > 0
                 /\ top = running \/ due[top] >= Modulus

\* A timer that is due a turn before the wrap waits in the heap, under its time.
\* The last update() that ended came no later than that, and so one that goes on
\* was called no later than a turn after it.
WaitsInTime ==
  open => \A i \in 1 .. max_id : due[i] + MaxTurn < Modulus /\ calls[i] = 0 =>
            /\ i \in heap /\ expired[i] = due[i]
            /\ clock - turn <= due[i] + (IF running = 0 THEN 0 ELSE MaxTurn)

\* What holds until the wrap, and what holds over it.
EarlyInv == TypeOK /\ Unstarted /\ HasTop /\ (BeforeWrap => Core)

LateInv == turn <= clock /\ HeapOrder /\ TopHasExpired /\ WaitsInTime

\* The inductive invariant.
Inv == EarlyInv /\ LateInv

-----------------------------------------------------------------------------
(* Facts every step rests on. *)

(* What the types of the variables say of each timer. *)
LEMMA Types ==
  ASSUME TypeOK
  PROVE  /\ clock \in Nat /\ turn \in Nat /\ MaxTurn \in Nat /\ now \in Nat /\ max_id \in Nat /\ Modulus \in Nat
         /\ heap \subseteq 1 .. max_id /\ 0 \notin heap
         /\ \A i \in 1 .. max_id : i \in Id /\ i \in Nat /\ i > 0
         /\ \A i \in Id : /\ expired[i] \in Nat /\ due[i] \in Nat
                         /\ calls[i] \in Nat
  BY TimerAssumption DEF TypeOK, Id

(* Once the count has wrapped, or a timer is due after it, it stays so. *)
LEMMA WrapIsForGood ==
  ASSUME TypeOK, [Next]_vars, BeforeWrap'
  PROVE  BeforeWrap
<1> USE TimerAssumption DEF TypeOK, BeforeWrap, Id
<1>1. CASE Tick
  BY <1>1 DEF Tick, timers
<1>2. ASSUME NEW t \in Delays, Start(t) PROVE BeforeWrap
  BY <1>2 DEF Start
<1>3. CASE Update \/ Idle \/ Pop \/ Close \/ UNCHANGED vars
  BY <1>3 DEF Update, Idle, Pop, Close, vars, timers
<1> QED
  BY <1>1, <1>2, <1>3 DEF Next

(* The remainder that get_now() and _start_timer() keep. *)
LEMMA Wraps ==
  ASSUME NEW n \in Nat
  PROVE  /\ n % Modulus \in 0 .. Modulus - 1
         /\ n < Modulus => n % Modulus = n
  BY TimerAssumption

(* The first state. *)
LEMMA InitEarly == Init => EarlyInv
<1> SUFFICES ASSUME Init PROVE EarlyInv
  OBVIOUS
<1>1. TypeOK
  BY TimerAssumption DEF Init, TypeOK, Id
<1>2. Core
  BY DEF Init, Core, CountsAreTimes, TopIsFirst, FiredWereDue, FiresInOrder,
      FiresOnce, BeforeWrap
<1> QED
  BY <1>1, <1>2 DEF Init, EarlyInv, Unstarted, HasTop

-----------------------------------------------------------------------------
(* Until the wrap: one lemma for each action. *)

(* The clock goes on. *)
LEMMA TickStep ==
  ASSUME EarlyInv, Tick
  PROVE  EarlyInv'
<1> USE DEF EarlyInv, Tick, timers
<1>1. TypeOK' /\ Unstarted' /\ HasTop'
  <2>1. clock' \in 0 .. MaxClock /\ turn' \in 0 .. MaxTurn
    BY TimerAssumption DEF TypeOK
  <2>2. UNCHANGED <<max_id, expired, due, heap, top, now, running, open, calls>>
    OBVIOUS
  <2>3. TypeOK'
    BY <2>1, <2>2 DEF TypeOK
  <2> QED
    BY <2>2, <2>3 DEF Unstarted, HasTop
<1>2. ASSUME BeforeWrap' PROVE Core'
  <2>1. BeforeWrap
    BY <1>2, WrapIsForGood DEF Next
  <2> QED
    BY <2>1 DEF TypeOK, Core, CountsAreTimes, TopIsFirst, FiredWereDue,
        FiresInOrder, FiresOnce, BeforeWrap
<1> QED
  BY <1>1, <1>2

(* A timer is started, which is due now or later and so not before any that
   has fired, nor before the one whose callback may be running. *)
LEMMA StartStep ==
  ASSUME EarlyInv, NEW t \in Delays, Start(t)
  PROVE  EarlyInv'
<1> DEFINE id == max_id + 1
<1> USE DEF EarlyInv
<1>1. /\ id \in Id /\ id \in Nat /\ t \in Nat /\ clock \in Nat
      /\ clock + t \in Nat /\ max_id' = id /\ clock' = clock
      /\ id \notin heap /\ heap \subseteq Id /\ open
  BY TimerAssumption DEF TypeOK, Start, Id
<1>2. Expiry(t) \in 0 .. Modulus - 1 /\ Now \in Nat
  <2>1. Now \in Nat /\ Now + t \in Nat
    BY <1>1, Wraps, TimerAssumption DEF Now
  <2> DEFINE k == Now + t
  <2>2. Expiry(t) = k % Modulus
    BY DEF Expiry
  <2> HIDE DEF k
  <2>3. k % Modulus \in 0 .. Modulus - 1
    BY <2>1, Wraps DEF k
  <2> QED
    BY <2>1, <2>2, <2>3
<1>3. TypeOK'
  <2>1. max_id' \in 0 .. MaxTimers /\ heap' \subseteq 1 .. max_id'
    <3>1. max_id \in Nat /\ max_id < MaxTimers /\ heap \subseteq 1 .. max_id
          /\ heap' = heap \cup {id}
      BY TimerAssumption DEF TypeOK, Start
    <3>2. id \in 0 .. MaxTimers /\ 1 .. max_id \subseteq 1 .. id /\ id \in 1 .. id
      BY <3>1, TimerAssumption
    <3> QED
      BY <1>1, <3>1, <3>2
  <2>2. expired' \in [Id -> 0 .. Modulus - 1] /\ due' \in [Id -> Nat]
    BY <1>1, <1>2 DEF TypeOK, Start
  <2>3. top' \in heap' \cup {0} /\ running' \in heap' \cup {0}
    BY DEF TypeOK, Start
  <2> QED
    BY <2>1, <2>2, <2>3 DEF TypeOK, Start
<1>4. Unstarted' /\ HasTop'
  BY <1>1 DEF Unstarted, HasTop, PushedOnTop, Start, TypeOK, Id
<1>5. ASSUME BeforeWrap' PROVE Core'
  <2>1. BeforeWrap /\ Core
    BY <1>5, WrapIsForGood DEF Next
  <2>2. /\ due'[id] = clock + t /\ expired'[id] = Expiry(t)
        /\ \A i \in 1 .. max_id : due'[i] = due[i] /\ expired'[i] = expired[i]
    BY <1>1 DEF Start, TypeOK, Id
  <2>3. Expiry(t) = clock + t
    <3>1. clock < Modulus /\ clock + t < Modulus
      BY <1>1, <1>5, <2>2, Types DEF BeforeWrap
    <3>2. Now = clock
      BY <1>1, <3>1, Wraps DEF Now
    <3> QED
      BY <1>1, <3>1, <3>2, Wraps DEF Expiry
  <2>4. CountsAreTimes'
    BY <1>1, <2>1, <2>2, <2>3 DEF Core, CountsAreTimes, TypeOK
  <2>5. FiredWereDue'
    BY <1>1, <2>1, <2>2
    DEF Core, FiredWereDue, Start, TypeOK, Unstarted, Id
  <2>6. running # 0 => due[running] <= clock /\ running \in heap
    BY <1>1, <2>1 DEF Core, FiredWereDue, TypeOK
  <2>7. TopIsFirst'
    <3>1. heap # {} => top \in heap /\ top \in 1 .. max_id
      BY DEF HasTop, TypeOK
    <3>2. heap # {} =>
            (PushedOnTop(id) <=> clock + t < due[top])
      BY <2>1, <2>2, <2>3, <3>1 DEF Core, CountsAreTimes, PushedOnTop
    <3>3. CASE heap = {}
      BY <1>1, <2>2, <2>6, <3>3
      DEF TopIsFirst, Start, PushedOnTop, TypeOK
    <3>4. CASE heap # {} /\ clock + t < due[top]
      <4>1. running = 0
        BY <1>1, <2>1, <2>6, <3>1, <3>4 DEF Core, TopIsFirst, TypeOK, Id
      <4>2. top' = id /\ heap' = heap \cup {id} /\ running' = 0
        BY <3>2, <3>4, <4>1 DEF Start
      <4>3. \A j \in heap : j \in 1 .. max_id /\ due[top] <= due[j]
        BY <2>1, <3>4 DEF Core, TopIsFirst, TypeOK
      <4> QED
        BY <1>1, <2>2, <3>1, <3>4, <4>2, <4>3, Types DEF TopIsFirst
    <3>5. CASE heap # {} /\ ~(clock + t < due[top])
      <4>1. top' = top /\ heap' = heap \cup {id} /\ running' = running
        BY <3>2, <3>5 DEF Start
      <4>2. \A j \in heap : j \in 1 .. max_id /\ due[top] <= due[j]
        BY <2>1, <3>5 DEF Core, TopIsFirst, TypeOK
      <4>3. due[top] <= clock + t
        BY <1>1, <3>1, <3>5, Types
      <4> QED
        BY <1>1, <2>1, <2>2, <3>1, <3>5, <4>1, <4>2, <4>3
        DEF Core, TopIsFirst, TypeOK, Id
    <3> QED
      BY <3>3, <3>4, <3>5
  <2>8. FiresInOrder'
    <3> SUFFICES ASSUME NEW i \in 1 .. id, calls[i] > 0,
                        NEW j \in (heap \cup {id}) \ {running}
                 PROVE  due'[i] <= due'[j]
      BY <1>1 DEF FiresInOrder, Start
    <3>1. i \in 1 .. max_id /\ due[i] <= clock
      BY <1>1, <2>1, Types DEF Core, FiredWereDue, Unstarted, Id
    <3>2. CASE j = id
      BY <1>1, <2>2, <3>1, <3>2, Types
    <3>3. CASE j # id
      BY <1>1, <2>1, <2>2, <3>1, <3>3, Types DEF Core, FiresInOrder
    <3> QED
      BY <3>2, <3>3
  <2>9. FiresOnce'
    <3>1. id # running
      BY <1>1 DEF TypeOK
    <3> QED
      BY <1>1, <2>1, <3>1 DEF Core, FiresOnce, Start, Unstarted, TypeOK
  <2> QED
    BY <2>4, <2>5, <2>7, <2>8, <2>9 DEF Core
<1> QED
  BY <1>3, <1>4, <1>5

(* The callback of a timer that is due is called: it is the top, and none of
   those that wait is due before it. *)
LEMMA UpdateStep ==
  ASSUME EarlyInv, Update
  PROVE  EarlyInv'
<1> USE DEF EarlyInv
<1>1. /\ top \in heap \cup {0} /\ clock \in Nat /\ heap \subseteq 1 .. max_id
      /\ Now \in 0 .. Modulus - 1 /\ max_id \in Nat /\ max_id \in 0 .. MaxTimers
  <2>1. /\ top \in heap \cup {0} /\ clock \in Nat /\ heap \subseteq 1 .. max_id
        /\ max_id \in Nat /\ max_id \in 0 .. MaxTimers
    BY TimerAssumption DEF TypeOK
  <2>2. clock % Modulus \in 0 .. Modulus - 1
    BY <2>1, Wraps
  <2> QED
    BY <2>1, <2>2 DEF Now
<1>2. TypeOK'
  <2>1. top \in heap /\ top \in Id /\ running' = top
    BY <1>1, Types DEF Update, Call, HasTop
  <2> QED
    BY <1>1, <2>1, Types DEF TypeOK, Update, Call, timers
<1>3. Unstarted' /\ HasTop'
  BY <1>1, Types DEF Unstarted, HasTop, Update, Call, TypeOK, timers
<1>4. ASSUME BeforeWrap' PROVE Core'
  <2>1. BeforeWrap /\ Core
    BY <1>4, WrapIsForGood DEF Next
  <2>2. Now = clock
    BY <1>1, <2>1, Wraps DEF Now, BeforeWrap
  <2>3. /\ top \in heap /\ top \in 1 .. max_id /\ top \in Id
        /\ due[top] <= clock /\ calls[top] = 0 /\ running = 0 /\ open
    BY <1>1, <2>1, <2>2, Types
    DEF Update, Expired, Core, HasTop, CountsAreTimes, FiresOnce
  <2>4. /\ running' = top /\ now' = clock /\ calls'[top] = 1
        /\ \A i \in Id : i # top => calls'[i] = calls[i]
        /\ UNCHANGED <<clock, max_id, expired, due, heap, top, open>>
    BY <2>2, <2>3 DEF Update, Call, timers, TypeOK
  <2>5. CountsAreTimes' /\ TopIsFirst'
    BY <2>1, <2>4 DEF Core, CountsAreTimes, TopIsFirst
  <2>6. FiredWereDue'
    BY <1>1, <2>1, <2>3, <2>4, Types DEF Core, FiredWereDue
  <2>7. FiresInOrder'
    BY <1>1, <2>1, <2>3, <2>4, Types DEF Core, FiresInOrder, TopIsFirst
  <2>8. FiresOnce'
    BY <1>1, <2>1, <2>3, <2>4, Types DEF Core, FiresOnce
  <2> QED
    BY <2>5, <2>6, <2>7, <2>8 DEF Core
<1> QED
  BY <1>2, <1>3, <1>4

(* A callback returns: the timer it was of is popped, and the next one due is
   called, which no timer that waits is due before. *)
LEMMA PopStep ==
  ASSUME EarlyInv, Pop
  PROVE  EarlyInv'
<1> USE DEF EarlyInv
<1>1. /\ heap' = heap \ {top} /\ clock \in Nat /\ heap \subseteq 1 .. max_id
      /\ max_id \in Nat /\ max_id \in 0 .. MaxTimers
      /\ UNCHANGED <<clock, turn, max_id, expired, due, now, open>>
  BY TimerAssumption DEF TypeOK, Pop, Rest, timers
<1>2. IF Rest = {} THEN top' = 0
      ELSE top' \in Rest /\ \A j \in Rest : expired[top'] <= expired[j]
  BY DEF Pop, Tops
<1>3. \/ Rest # {} /\ Expired(top', now) /\ Call(top')
      \/ running' = 0 /\ calls' = calls
  BY DEF Pop
<1>4. TypeOK'
  <2>1. /\ Rest \subseteq heap
        /\ top' \in heap' \cup {0} /\ running' \in heap' \cup {0}
    BY <1>1, <1>2, <1>3 DEF Call, Rest
  <2>2. calls' \in [Id -> Nat]
    BY <1>2, <1>3, <2>1, Types DEF Call, TypeOK
  <2> QED
    BY <1>1, <2>1, <2>2 DEF TypeOK
<1>5. Unstarted' /\ HasTop'
  <2>1. \A i \in Id : i > max_id => i # top' \/ Rest = {}
    BY <1>1, <1>2, Types, TimerAssumption DEF Rest, Id
  <2> QED
    BY <1>1, <1>2, <1>3, <2>1 DEF Unstarted, HasTop, Call, Rest, TypeOK
<1>6. ASSUME BeforeWrap' PROVE Core'
  <2>1. BeforeWrap /\ Core
    BY <1>6, WrapIsForGood DEF Next
  <2>2. running = top /\ running \in heap /\ open /\ heap' = heap \ {running}
    BY <1>1, <2>1 DEF Pop, Core, TopIsFirst, FiredWereDue, TypeOK
  <2>3. CountsAreTimes'
    BY <1>1, <2>1 DEF Core, CountsAreTimes
  <2>4. heap' # {} => /\ top' \in heap' /\ top' \in 1 .. max_id /\ top' \in Id
                      /\ \A j \in heap' : due[top'] <= due[j]
    BY <1>1, <1>2, <2>1, Types DEF Rest, Core, CountsAreTimes
  <2>5. CASE running' = 0 /\ calls' = calls
    <3>1. TopIsFirst' /\ FiredWereDue' /\ FiresInOrder'
      BY <1>1, <2>1, <2>2, <2>4, <2>5
      DEF Core, TopIsFirst, FiredWereDue, FiresInOrder, TypeOK
    <3>2. FiresOnce'
      BY <1>1, <2>1, <2>2, <2>5 DEF Core, FiresOnce, TypeOK
    <3> QED
      BY <2>3, <3>1, <3>2 DEF Core
  <2>6. CASE Rest # {} /\ Expired(top', now) /\ Call(top')
    <3>1. /\ heap' # {} /\ due[top'] <= now /\ calls[top'] = 0
          /\ top' \in heap' /\ top' \in 1 .. max_id /\ top' \in Id
      BY <1>1, <2>1, <2>2, <2>4, <2>6
      DEF Rest, Expired, Core, CountsAreTimes, FiresOnce
    <3>2. /\ running' = top' /\ calls'[top'] = 1
          /\ \A i \in Id : i # top' => calls'[i] = calls[i]
      BY <2>6, <3>1 DEF Call, TypeOK
    <3>3. TopIsFirst' /\ FiredWereDue'
      BY <1>1, <2>1, <2>2, <2>4, <3>1, <3>2, Types
      DEF Core, TopIsFirst, FiredWereDue
    <3>4. FiresInOrder'
      BY <1>1, <2>1, <2>2, <2>4, <3>1, <3>2, Types
      DEF Core, FiresInOrder
    <3>5. FiresOnce'
      BY <1>1, <2>1, <2>2, <3>1, <3>2, Types DEF Core, FiresOnce
    <3> QED
      BY <2>3, <3>3, <3>4, <3>5 DEF Core
  <2> QED
    BY <1>3, <2>5, <2>6
<1> QED
  BY <1>4, <1>5, <1>6

(* update() is called and nothing has expired. *)
LEMMA IdleStep ==
  ASSUME EarlyInv, Idle
  PROVE  EarlyInv'
<1> USE DEF EarlyInv, Idle, timers
<1>1. UNCHANGED <<clock, max_id, expired, due, heap, top, now, running, open, calls>>
  OBVIOUS
<1>2. TypeOK' /\ Unstarted' /\ HasTop'
  <2>1. turn' \in 0 .. MaxTurn
    BY TimerAssumption
  <2> QED
    BY <1>1, <2>1 DEF TypeOK, Unstarted, HasTop
<1>3. ASSUME BeforeWrap' PROVE Core'
  <2>1. BeforeWrap
    BY <1>1, <1>3 DEF BeforeWrap
  <2> QED
    BY <1>1, <2>1 DEF Core, CountsAreTimes, TopIsFirst, FiredWereDue, FiresInOrder,
        FiresOnce, BeforeWrap
<1> QED
  BY <1>2, <1>3

(* The loop ends. *)
LEMMA CloseStep ==
  ASSUME EarlyInv, Close
  PROVE  EarlyInv'
<1> USE DEF EarlyInv, Close, timers
<1>1. TypeOK' /\ Unstarted' /\ HasTop'
  BY DEF TypeOK, Unstarted, HasTop
<1>2. ASSUME BeforeWrap' PROVE Core'
  <2>1. BeforeWrap
    BY <1>2, WrapIsForGood DEF Next
  <2> QED
    BY <2>1 DEF Core, CountsAreTimes, TopIsFirst, FiredWereDue, FiresInOrder,
        FiresOnce
<1> QED
  BY <1>1, <1>2

(* Any step. *)
LEMMA NextEarly == EarlyInv /\ [Next]_vars => EarlyInv'
<1> SUFFICES ASSUME EarlyInv, [Next]_vars PROVE EarlyInv'
  OBVIOUS
<1>1. CASE Next
  BY <1>1, TickStep, StartStep, UpdateStep, IdleStep, PopStep, CloseStep DEF Next
<1>2. CASE UNCHANGED vars
  <2> USE <1>2 DEF vars, timers
  <2>1. TypeOK' /\ Unstarted' /\ HasTop' /\ (BeforeWrap' <=> BeforeWrap)
    BY DEF EarlyInv, TypeOK, Unstarted, HasTop, BeforeWrap
  <2>2. Core' <=> Core
    BY DEF Core, CountsAreTimes, TopIsFirst, FiredWereDue, FiresInOrder,
        FiresOnce, BeforeWrap
  <2> QED
    BY <2>1, <2>2 DEF EarlyInv
<1> QED
  BY <1>1, <1>2

-----------------------------------------------------------------------------
(* Over the wrap: one lemma for each action. *)

LEMMA InitLate == Init => LateInv
  BY DEF Init, LateInv, HeapOrder, TopHasExpired, WaitsInTime

(* The clock goes on within a turn. *)
LEMMA TickLate ==
  ASSUME TypeOK, LateInv, Tick
  PROVE  LateInv'
<1> USE DEF LateInv, Tick, timers
<1>1. clock' - turn' = clock - turn /\ turn' <= clock'
  BY Types
<1>2. UNCHANGED <<max_id, expired, due, heap, top, now, running, open, calls>>
  OBVIOUS
<1> QED
  BY <1>1, <1>2 DEF HeapOrder, TopHasExpired, WaitsInTime

(* A timer that is started comes to the top in its place, and one for a time
   before the wrap does not come above the timer whose callback runs. *)
LEMMA StartLate ==
  ASSUME EarlyInv, LateInv, NEW t \in Delays, Start(t)
  PROVE  LateInv'
<1> DEFINE id == max_id + 1
<1> USE DEF EarlyInv, LateInv
<1>1. /\ id \in Id /\ id \in Nat /\ t \in Nat /\ clock + t \in Nat
      /\ id \notin heap /\ id \notin 1 .. max_id /\ open /\ max_id' = id
      /\ heap' = heap \cup {id}
      /\ top' = IF PushedOnTop(id) THEN id ELSE top
      /\ UNCHANGED <<clock, turn, now, running, open, calls>>
  BY TimerAssumption DEF TypeOK, Start, Id
<1>2. /\ due'[id] = clock + t /\ expired'[id] = Expiry(t)
      /\ \A i \in 1 .. max_id : due'[i] = due[i] /\ expired'[i] = expired[i]
  BY <1>1 DEF Start, TypeOK, Id
<1>3. Expiry(t) \in Nat /\ (clock + t < Modulus => Expiry(t) = clock + t)
  <2>1. Now \in Nat /\ (clock < Modulus => Now = clock)
    BY Types, Wraps DEF Now
  <2> DEFINE k == Now + t
  <2>2. k \in Nat /\ Expiry(t) = k % Modulus
    BY <1>1, <2>1 DEF Expiry
  <2>3. clock + t < Modulus => k = clock + t
    BY <1>1, <2>1, Types
  <2> HIDE DEF k
  <2>4. k % Modulus \in 0 .. Modulus - 1 /\ (k < Modulus => k % Modulus = k)
    BY <2>2, Wraps
  <2> QED
    BY <2>2, <2>3, <2>4, Types
<1>4. heap # {} =>
        /\ top \in heap /\ top \in 1 .. max_id
        /\ \A j \in heap : j \in 1 .. max_id /\ expired[top] <= expired[j]
        /\ PushedOnTop(id) <=> expired'[id] < expired[top]
  BY Types DEF HasTop, HeapOrder, PushedOnTop
<1>5. HeapOrder'
  <2>1. CASE heap = {}
    BY <1>1, <1>2, <1>3, <2>1 DEF HeapOrder, PushedOnTop
  <2>2. CASE heap # {} /\ expired'[id] < expired[top]
    <3>1. top' = id
      BY <1>1, <1>4, <2>2
    <3> QED
      BY <1>1, <1>2, <1>3, <1>4, <2>2, <3>1, Types DEF HeapOrder
  <2>3. CASE heap # {} /\ ~(expired'[id] < expired[top])
    <3>1. top' = top
      BY <1>1, <1>4, <2>3
    <3> QED
      BY <1>1, <1>2, <1>3, <1>4, <2>3, <3>1, Types DEF HeapOrder
  <2> QED
    BY <2>1, <2>2, <2>3
<1>6. TopHasExpired'
  <2> SUFFICES ASSUME running # 0
               PROVE  /\ now = (clock - turn) % Modulus /\ open
                      /\ expired'[top'] <= now /\ calls[running] > 0
                      /\ top' = running \/ due'[top'] >= Modulus
    BY <1>1 DEF TopHasExpired
  <2>1. /\ now = (clock - turn) % Modulus /\ expired[top] <= now
        /\ calls[running] > 0
        /\ top = running \/ due[top] >= Modulus
    BY DEF TopHasExpired
  <2>2. heap # {}
    BY DEF TypeOK
  <2>3. CASE PushedOnTop(id)
    <3>1. top' = id /\ expired'[id] < expired[top] /\ expired'[id] < now
      BY <1>1, <1>2, <1>3, <1>4, <2>1, <2>2, <2>3, Types
    <3>2. due'[id] >= Modulus
      <4> SUFFICES ASSUME clock + t < Modulus PROVE FALSE
        BY <1>1, <1>2, Types
      <4>1. expired'[id] = clock + t
        BY <1>2, <1>3
      <4>2. clock - turn \in Nat /\ clock - turn < Modulus
        BY <1>1, Types
      <4>3. now = clock - turn
        BY <2>1, <4>2, Wraps
      <4> QED
        BY <1>1, <3>1, <4>1, <4>3, Types
    <3>3. expired'[top'] <= now
      BY <1>2, <1>3, <3>1, Types
    <3> QED
      BY <1>1, <2>1, <3>1, <3>2, <3>3
  <2>4. CASE ~PushedOnTop(id)
    <3>1. top' = top /\ top \in 1 .. max_id
      BY <1>1, <1>4, <2>2, <2>4
    <3>2. expired'[top] = expired[top] /\ due'[top] = due[top]
      BY <1>2, <3>1
    <3> QED
      BY <1>1, <2>1, <3>1, <3>2
  <2> QED
    BY <2>3, <2>4
<1>7. WaitsInTime'
  <2> SUFFICES ASSUME open, NEW i \in 1 .. id,
                      due'[i] + MaxTurn < Modulus, calls[i] = 0
               PROVE  /\ i \in heap' /\ expired'[i] = due'[i]
                      /\ clock - turn <=
                           due'[i] + (IF running = 0 THEN 0 ELSE MaxTurn)
    BY <1>1 DEF WaitsInTime
  <2>1. CASE i = id
    BY <1>1, <1>2, <1>3, <2>1, Types
  <2>2. CASE i # id
    <3>1. i \in 1 .. max_id
      BY <2>2, Types
    <3> QED
      BY <1>1, <1>2, <3>1 DEF WaitsInTime
  <2> QED
    BY <2>1, <2>2
<1> QED
  BY <1>1, <1>5, <1>6, <1>7

(* update() reads the clock; what waits is due a turn ago at the most. *)
LEMMA UpdateLate ==
  ASSUME EarlyInv, LateInv, Update
  PROVE  LateInv'
<1> USE DEF EarlyInv, LateInv, Update, timers
<1>1. /\ UNCHANGED <<clock, max_id, expired, due, heap, top, open>>
      /\ running = 0 /\ open /\ top \in heap /\ top \in Id /\ top # 0
      /\ running' = top /\ now' = Now /\ turn' = 0 /\ expired[top] <= Now
      /\ calls'[top] = calls[top] + 1
      /\ \A i \in Id : i # top => calls'[i] = calls[i]
  BY Types DEF HasTop, Call, TypeOK, Expired
<1>2. HeapOrder' /\ turn' <= clock'
  BY <1>1, Types DEF HeapOrder
<1>3. TopHasExpired'
  BY <1>1, Types DEF TopHasExpired, Now
<1>4. WaitsInTime'
  <2> SUFFICES ASSUME NEW i \in 1 .. max_id,
                      due[i] + MaxTurn < Modulus, calls'[i] = 0
               PROVE  /\ i \in heap /\ expired[i] = due[i]
                      /\ clock - 0 <= due[i] + MaxTurn
    BY <1>1 DEF WaitsInTime
  <2>1. calls[i] = 0
    BY <1>1, Types
  <2>2. i \in heap /\ expired[i] = due[i] /\ clock - turn <= due[i] + 0
    BY <1>1, <2>1 DEF WaitsInTime
  <2>3. turn <= MaxTurn
    BY DEF TypeOK
  <2> QED
    BY <2>2, <2>3, Types
<1> QED
  BY <1>2, <1>3, <1>4

(* What has not expired is due later: the clock that was read has not wrapped,
   for a timer that is due a turn before the wrap. *)
LEMMA IdleLate ==
  ASSUME EarlyInv, LateInv, Idle
  PROVE  LateInv'
<1> USE DEF EarlyInv, LateInv, Idle, timers
<1>1. /\ UNCHANGED <<clock, max_id, expired, due, heap, top, now, running, open, calls>>
      /\ running = 0 /\ turn' = 0 /\ (heap # {} => ~(expired[top] <= Now))
  BY DEF Expired
<1>2. HeapOrder' /\ turn' <= clock' /\ TopHasExpired'
  BY <1>1, Types DEF HeapOrder, TopHasExpired
<1>3. WaitsInTime'
  <2> SUFFICES ASSUME open, NEW i \in 1 .. max_id,
                      due[i] + MaxTurn < Modulus, calls[i] = 0
               PROVE  i \in heap /\ expired[i] = due[i] /\ clock - 0 <= due[i] + 0
    BY <1>1 DEF WaitsInTime
  <2>1. i \in heap /\ expired[i] = due[i] /\ clock - turn <= due[i] + 0
    BY <1>1 DEF WaitsInTime
  <2>2. clock < Modulus
    <3>1. turn <= MaxTurn
      BY DEF TypeOK
    <3> QED
      BY <2>1, <3>1, Types
  <2>3. Now = clock
    BY <2>2, Types, Wraps DEF Now
  <2>4. top \in Id /\ i \in Id /\ expired[top] <= expired[i]
    BY <2>1, Types DEF HeapOrder, HasTop
  <2> QED
    BY <1>1, <2>1, <2>3, <2>4, Types
<1> QED
  BY <1>2, <1>3

(* The timer that is popped has been called, or is due after the wrap; and
   update() goes on while anything that was due is left. *)
LEMMA PopLate ==
  ASSUME EarlyInv, LateInv, Pop
  PROVE  LateInv'
<1> USE DEF EarlyInv, LateInv
<1>1. /\ heap' = heap \ {top} /\ running # 0
      /\ UNCHANGED <<clock, turn, max_id, expired, due, now, open>>
  BY DEF Pop, Rest, timers
<1>2. /\ now = (clock - turn) % Modulus /\ open /\ calls[running] > 0
      /\ top = running \/ due[top] >= Modulus
      /\ clock - turn \in Nat
  BY <1>1, Types DEF TopHasExpired
<1>3. heap' # {} => /\ top' \in heap' /\ top' \in Id /\ top' # 0
                    /\ \A j \in heap' : expired[top'] <= expired[j]
  BY <1>1, Types DEF Pop, Tops, Rest
<1>4. \/ /\ heap' # {} /\ expired[top'] <= now /\ running' = top'
         /\ calls' = [calls EXCEPT ![top'] = @ + 1]
      \/ /\ heap' # {} => ~(expired[top'] <= now)
         /\ running' = 0 /\ calls' = calls
  BY <1>1 DEF Pop, Call, Expired, Rest
<1>5. /\ \A i \in Id : calls'[i] = 0 => calls[i] = 0
      /\ running' # 0 => calls'[running'] > 0
  BY <1>3, <1>4, Types DEF TypeOK
<1>6. HeapOrder'
  BY <1>1, <1>3 DEF HeapOrder
<1>7. TopHasExpired'
  BY <1>1, <1>2, <1>4, <1>5 DEF TopHasExpired
<1>8. WaitsInTime'
  <2> SUFFICES ASSUME NEW i \in 1 .. max_id,
                      due[i] + MaxTurn < Modulus, calls'[i] = 0
               PROVE  /\ i \in heap' /\ expired[i] = due[i]
                      /\ clock - turn <=
                           due[i] + (IF running' = 0 THEN 0 ELSE MaxTurn)
    BY <1>1 DEF WaitsInTime
  <2>1. calls[i] = 0 /\ i \in Id
    BY <1>5, Types
  <2>2. /\ i \in heap /\ expired[i] = due[i]
        /\ clock - turn <= due[i] + MaxTurn
    BY <1>1, <1>2, <2>1 DEF WaitsInTime
  <2>3. i # top
    BY <1>2, <2>1, <2>2, Types
  <2>4. now = clock - turn
    BY <1>2, <2>2, Types, Wraps
  <2>5. running' = 0 => clock - turn <= due[i]
    BY <1>1, <1>3, <1>4, <2>2, <2>3, <2>4, Types
  <2> QED
    BY <1>1, <2>2, <2>3, <2>5, Types
<1> QED
  BY <1>1, <1>6, <1>7, <1>8

(* After the end of the loop there is nothing to be late. *)
LEMMA CloseLate ==
  ASSUME LateInv, Close
  PROVE  LateInv'
  BY DEF LateInv, Close, timers, HeapOrder, TopHasExpired, WaitsInTime

-----------------------------------------------------------------------------
LEMMA InitInv == Init => Inv
  BY InitEarly, InitLate DEF Inv

(* Any step. *)
LEMMA NextInv == Inv /\ [Next]_vars => Inv'
<1> SUFFICES ASSUME Inv, [Next]_vars PROVE Inv'
  OBVIOUS
<1> USE DEF Inv
<1>1. EarlyInv'
  BY NextEarly
<1>2. CASE Next
  BY <1>1, <1>2, TickLate, StartLate, UpdateLate, IdleLate, PopLate, CloseLate
     DEF Next, EarlyInv
<1>3. CASE UNCHANGED vars
  BY <1>1, <1>3
     DEF vars, timers, LateInv, HeapOrder, TopHasExpired, WaitsInTime
<1> QED
  BY <1>2, <1>3

-----------------------------------------------------------------------------
(* The theorems. *)

(* Every reachable state satisfies the inductive invariant. *)
THEOREM Invariance == Spec => []Inv
  BY InitInv, NextInv, PTL DEF Spec

(* Every variable keeps its type; the callback that update() is in is that of
   a timer in the heap. *)
THEOREM TypeCorrect == Spec => []TypeOK
<1>1. Inv => TypeOK
  BY DEF Inv, EarlyInv
<1> QED
  BY <1>1, Invariance, PTL

(* No callback runs before its timer's delay is over, whatever timers were
   started since update() read the clock. *)
THEOREM TimersAreNotEarly == Spec => []NeverEarly
<1>1. Inv => NeverEarly
  BY Types DEF Inv, EarlyInv, NeverEarly, Core, FiredWereDue, TypeOK
<1> QED
  BY <1>1, Invariance, PTL

(* A timer that has fired was due no later than any that still waits. *)
THEOREM TimersFireInOrder == Spec => []FiresInOrder
<1>1. Inv => FiresInOrder
  BY DEF Inv, EarlyInv, Core, FiresInOrder
<1> QED
  BY <1>1, Invariance, PTL

(* No timer fires twice, and none is popped that has not fired. *)
THEOREM TimersFireOnce == Spec => []FiresOnce
<1>1. Inv => FiresOnce
  BY DEF Inv, EarlyInv, Core, FiresOnce
<1> QED
  BY <1>1, Invariance, PTL

(* A timer due more than a turn before the u32 wraps fires at most two turns
   after it is due, for any bound of a turn that holds, whatever timers have
   wrapped around and whether or not the clock has. *)
THEOREM TimersAreNotLate == Spec => []NeverLate
<1>1. Inv => NeverLate
  <2> SUFFICES ASSUME Inv, open, NEW i \in 1 .. max_id,
                      due[i] + MaxTurn < Modulus, calls[i] = 0
               PROVE  clock <= due[i] + 2 * MaxTurn
    BY DEF NeverLate
  <2>1. TypeOK /\ WaitsInTime
    BY DEF Inv, EarlyInv, LateInv
  <2>2. clock - turn <= due[i] + (IF running = 0 THEN 0 ELSE MaxTurn)
    BY <2>1 DEF WaitsInTime
  <2>3. turn <= MaxTurn
    BY <2>1 DEF TypeOK
  <2> QED
    BY <2>1, <2>2, <2>3, Types
<1> QED
  BY <1>1, Invariance, PTL
=============================================================================

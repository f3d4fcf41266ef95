------------------------------- MODULE Timer -------------------------------
(***************************************************************************)
(* Timer (timer.cpp, include/timer.hpp): timers in a heap by their time of *)
(* expiry, a u32 count of centiseconds that wraps around.  EventLoop calls *)
(* update() once per turn; handlers between two updates, and the callbacks *)
(* that update() runs, start timers.  update() runs the callback of the    *)
(* top of the heap first and pops the heap after it, with the time it read *)
(* before the first callback.  A turn of the loop, with the callbacks that *)
(* its update() runs, takes at most MaxTurn.                               *)
(*                                                                         *)
(* The heap is a set and its top.  As std::push_heap does, a push puts the *)
(* new timer on top only if it expires before the top; after a pop any     *)
(* timer that expires first may be on top.  end_timer() has no caller and  *)
(* is left out.                                                            *)
(***************************************************************************)
EXTENDS Integers

CONSTANTS Modulus,    \* 2^32 for a u32
          Delays,     \* what timers are started with
          MaxTimers,  \* bound: timers ever started
          MaxTurn,    \* what the clock may go on between two calls of update()
          MaxClock    \* bound: the last time the clock shows

ASSUME TimerAssumption ==
  /\ Modulus \in Nat \ {0}
  /\ Delays \subseteq Nat
  /\ MaxTimers \in Nat /\ MaxTurn \in Nat
  /\ MaxClock \in Nat

VARIABLES clock,    \* steady_clock, in centiseconds
          turn,     \* how far it has gone on since update() was last called
          max_id,   \* the last id given to a timer
          expired,  \* TimerHandle::expired of each timer
          heap,     \* the timers in min_heap
          top,      \* min_heap[0], or 0
          now,      \* the local variable of the last update() with a callback
          running,  \* the timer whose callback update() is in, or 0
          open,     \* close() has not been called
          due,      \* history: when each timer was to fire
          calls     \* history: callbacks of each timer

timers == <<max_id, expired, due>>
vars == <<clock, turn, timers, heap, top, now, running, open, calls>>

Id == 1 .. MaxTimers

TypeOK ==
  /\ clock \in 0 .. MaxClock /\ turn \in 0 .. MaxTurn
  /\ max_id \in 0 .. MaxTimers
  /\ expired \in [Id -> 0 .. Modulus - 1]
  /\ heap \subseteq 1 .. max_id
  /\ top \in heap \cup {0}
  /\ now \in 0 .. Modulus - 1
  /\ running \in heap \cup {0}
  /\ open \in BOOLEAN
  /\ due \in [Id -> Nat]
  /\ calls \in [Id -> Nat]

Init ==
  /\ clock = 0 /\ turn = 0 /\ now = 0
  /\ max_id = 0 /\ heap = {} /\ top = 0
  /\ running = 0
  /\ open = TRUE
  /\ expired = [i \in Id |-> 0]
  /\ due = [i \in Id |-> 0]
  /\ calls = [i \in Id |-> 0]

Tick ==
  /\ clock < MaxClock /\ turn < MaxTurn
  /\ clock' = clock + 1 /\ turn' = turn + 1
  /\ UNCHANGED <<timers, heap, top, now, running, open, calls>>

\* get_now(): the clock as a u32.
Now == clock % Modulus

\* Faulty: the sum is kept in a wider type.
ExpiryWide(t) == clock + t

Expiry(t) == (Now + t) % Modulus

\* Faulty: a timer goes above the timers that expire with it.
PushAbove(i) == heap = {} \/ expired'[i] <= expired[top]

PushedOnTop(i) == heap = {} \/ expired'[i] < expired[top]

\* _start_timer(), from a handler or from a callback of update().
Start(t) ==
  LET id == max_id + 1
  IN /\ open /\ max_id < MaxTimers
     /\ max_id' = id
     /\ expired' = [expired EXCEPT ![id] = Expiry(t)]
     /\ due' = [due EXCEPT ![id] = clock + t]
     /\ heap' = heap \cup {id}
     /\ top' = IF PushedOnTop(id) THEN id ELSE top
     /\ UNCHANGED <<clock, turn, now, running, open, calls>>

\* Faulty: off by one.
ExpiredSoon(i, n) == expired[i] <= n + 1

Expired(i, n) == expired[i] <= n

Call(i) == running' = i /\ calls' = [calls EXCEPT ![i] = @ + 1]

\* update() is called and the top has expired.
Update ==
  /\ open /\ running = 0 /\ heap # {}
  /\ Expired(top, Now)
  /\ now' = Now /\ turn' = 0
  /\ Call(top)
  /\ UNCHANGED <<clock, timers, heap, top, open>>

\* update() is called and there is no timer, or the top has not expired.
Idle ==
  /\ open /\ running = 0
  /\ heap # {} => ~Expired(top, Now)
  /\ turn' = 0
  /\ UNCHANGED <<clock, timers, heap, top, now, running, open, calls>>

\* What pop() leaves.
Rest == heap \ {top}

\* Faulty: pop_back() on an array that is no heap.
AnyTop(h) == IF h = {} THEN {0} ELSE h

Tops(h) ==
  IF h = {} THEN {0} ELSE {i \in h : \A j \in h : expired[i] <= expired[j]}

\* Faulty: one timer for each update().
PopOne ==
  /\ running # 0
  /\ heap' = Rest
  /\ top' \in Tops(Rest)
  /\ running' = 0
  /\ UNCHANGED <<clock, turn, timers, now, open, calls>>

\* The callback returns: update() pops the heap and looks at the next top.
Pop ==
  /\ running # 0
  /\ heap' = Rest
  /\ top' \in Tops(Rest)
  /\ IF Rest # {} /\ Expired(top', now) THEN Call(top')
     ELSE running' = 0 /\ UNCHANGED calls
  /\ UNCHANGED <<clock, turn, timers, now, open>>

\* EventLoop::clear, after the last update().
Close ==
  /\ open /\ running = 0
  /\ open' = FALSE
  /\ heap' = {} /\ top' = 0
  /\ UNCHANGED <<clock, turn, timers, now, running, calls>>

Next ==
  Tick \/ (\E t \in Delays : Start(t)) \/ Update \/ Idle \/ Pop \/ Close

Spec == Init /\ [][Next]_vars

-----------------------------------------------------------------------------
(* Up to the wrap of the u32 (497 days after the clock's epoch) and while  *)
(* no timer is started for a time after it.                                *)

BeforeWrap == clock < Modulus /\ \A i \in 1 .. max_id : due[i] < Modulus

\* No callback runs before the delay its timer was started with is over.
NeverEarly ==
  BeforeWrap /\ running # 0 => due[running] <= clock

\* Timers fire in the order they are due, across updates and for timers that
\* callbacks start: none that has fired was due after one that still waits.
FiresInOrder ==
  BeforeWrap => \A i \in 1 .. max_id, j \in heap \ {running} :
                  calls[i] > 0 => due[i] <= due[j]

\* No timer fires twice, and none leaves the heap without having fired: the one
\* that update() pops after a callback is the one it ran, whatever timers the
\* callback started in between.
FiresOnce ==
  BeforeWrap /\ open => \A i \in 1 .. max_id :
                          calls[i] = IF i \in heap \ {running} THEN 0 ELSE 1

\* A timer that is due more than a turn before the wrap fires at most two turns
\* after it is due, unless the loop ends: none is skipped, whatever timers that
\* wrap around come before it, and wherever the clock has gone on to.  One due
\* in the last turn before the wrap may be: the next update() reads a clock that
\* has wrapped, and its turn comes a period later.
NeverLate ==
  open => \A i \in 1 .. max_id :
            due[i] + MaxTurn < Modulus /\ calls[i] = 0 => clock <= due[i] + 2 * MaxTurn
=============================================================================

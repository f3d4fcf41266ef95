------------------------------- MODULE Client -------------------------------
(***************************************************************************)
(* The client program (client/client.cpp): Client and its Connector        *)
(* (client/connector.cpp, include/connector.hpp) on an event loop of their *)
(* own.  An attempt to connect ends when the kernel answers or when the    *)
(* retry timer fires first; after max_retry_cout failures one more attempt *)
(* is made and its failure ends the program.  An attempt that succeeds     *)
(* within connect() is registered by the Client and not known to the       *)
(* Connector, whose handlers then find it closed and abort.                *)
(*                                                                         *)
(* Each attempt has a new Connector with a new socket, so the variables of *)
(* the socket belong to the attempt.  Messages the server sends are        *)
(* handled without a reply (client/services/test.cpp).  A signal ends this *)
(* loop as it does the server's, see HttpServer.                           *)
(***************************************************************************)
EXTENDS Integers

CONSTANTS MaxRetry,    \* max_retry_cout
          MaxFailures  \* bound: calls of connect() that fail at once

ASSUME ClientAssumption == MaxRetry \in Nat /\ MaxFailures \in Nat

VARIABLES status,       \* Client::status
          connStatus,   \* Connector::status of pconn
          registered,   \* the loop has pconn
          watched,      \* pconn is watched for WRITE
          wbuf,         \* messages in pconn's pwrite_buf
          retry_count,
          armed,        \* retry timers that have been started and not fired
          due,          \* one of them has expired
          shutdown,     \* EventLoop::_shutdown
          revents,      \* the bits of pconn's event still to test
          pc,
          net,          \* the socket: "none", "syn", "up" or "failed"
          data,         \* the kernel has data of the server
          fin, rst,     \* the server has ended or reset the connection
          full,         \* the kernel's send buffer is full
          failures,     \* calls of connect() that failed at once (a bound)
          lapsed,       \* history: the client has been connected with no timer armed
          answer        \* history: of connect() to the attempt, "late" or "early"

client == <<status, connStatus, registered, watched, wbuf, retry_count>>
timer  == <<armed, due, lapsed>>
socket == <<net, data, fin, rst, full, answer>>
vars == <<client, timer, shutdown, revents, pc, socket, failures>>

Status == {"CLOSED", "CONNECTING", "CONNECTED"}

Init ==
  /\ status = "CLOSED" /\ connStatus = "CLOSED" /\ registered = FALSE
  /\ watched = FALSE /\ wbuf = 0 /\ retry_count = 0
  /\ armed = 0 /\ due = FALSE /\ lapsed = FALSE
  /\ shutdown = FALSE /\ revents = {} /\ pc = "start"
  /\ net = "none" /\ data = FALSE /\ fin = FALSE /\ rst = FALSE /\ full = FALSE
  /\ failures = 0 /\ answer = "late"

-----------------------------------------------------------------------------
(* The server and the network *)

PeerStep(step) ==
  /\ step
  /\ UNCHANGED <<client, timer, shutdown, revents, pc, failures, answer>>

Answered ==
  /\ net = "syn" /\ net' \in {"up", "failed"}
  /\ UNCHANGED <<data, fin, rst, full>>
Sends    == net = "up" /\ ~fin /\ ~rst /\ data' = TRUE
            /\ UNCHANGED <<net, fin, rst, full>>
Ends     == net = "up" /\ ~fin /\ ~rst /\ fin' = TRUE
            /\ UNCHANGED <<net, data, rst, full>>
Resets   == net = "up" /\ ~rst /\ rst' = TRUE
            /\ UNCHANGED <<net, data, fin, full>>
Reads    == full /\ full' = FALSE /\ UNCHANGED <<net, data, fin, rst>>

Broken   == net = "failed" \/ rst
Readable == Broken \/ (net = "up" /\ (data \/ fin))
Writable == Broken \/ (net = "up" /\ ~full)

-----------------------------------------------------------------------------
(* Client::_start_connect: a new Connector calls connect(). *)

NewSocket(state) ==
  /\ net' = state
  /\ data' = FALSE /\ fin' = FALSE /\ rst' = FALSE /\ full' = FALSE
  /\ answer' = IF state = "up" THEN "early" ELSE "late"

\* The Connector is registered for READ and WRITE, unless _connect() returned a
\* negative number.
Registers ==
  /\ status' = "CONNECTING"
  /\ registered' = TRUE /\ watched' = TRUE /\ wbuf' = 0
  /\ retry_count' = retry_count + 1
  /\ UNCHANGED failures

\* EINPROGRESS.
Connects == Registers /\ connStatus' = "CONNECTING" /\ NewSocket("syn")

\* connect() returns 0.  That is logged as an error and returned, and the
\* Connector stays closed.
ConnectsAtOnce == Registers /\ connStatus' = "CLOSED" /\ NewSocket("up")

\* Any other error.  The attempt is not counted.
FailsAtOnce ==
  /\ failures < MaxFailures
  /\ failures' = failures + 1
  /\ status' = "CLOSED" /\ connStatus' = "CLOSED"
  /\ registered' = FALSE /\ watched' = FALSE /\ wbuf' = 0
  /\ NewSocket("none")
  /\ UNCHANGED retry_count

\* main: start_connect() starts the first attempt and the timer.
Start ==
  /\ pc = "start"
  /\ \/ (Connects \/ ConnectsAtOnce) /\ pc' = "select"
     \/ FailsAtOnce /\ pc' = "exit"
  /\ armed' = 1
  /\ UNCHANGED <<due, lapsed, shutdown, revents>>

\* Faulty: there is no limit.
NeverTooMany == FALSE

TooMany == retry_count > MaxRetry

\* Faulty: the event that is being handled goes on.
CloseKeepsBits ==
  /\ connStatus' = "CLOSED" /\ status' = "CLOSED"
  /\ registered' = FALSE /\ watched' = FALSE
  /\ shutdown' = (shutdown \/ TooMany)
  /\ UNCHANGED <<revents, wbuf, retry_count>>

\* Connector::close and Client::on_close.  What is in pwrite_buf is dropped.
Close ==
  /\ connStatus' = "CLOSED" /\ status' = "CLOSED"
  /\ registered' = FALSE /\ watched' = FALSE
  /\ revents' = {}
  /\ shutdown' = (shutdown \/ TooMany)
  /\ UNCHANGED <<wbuf, retry_count>>

-----------------------------------------------------------------------------
(* The loop: EventLoop::update *)

Ready == (IF registered /\ Readable THEN {"READ"} ELSE {})
         \cup (IF watched /\ Writable THEN {"WRITE"} ELSE {})

Select ==
  /\ pc = "select"
  /\ revents' = Ready
  /\ pc' = "event"
  /\ UNCHANGED <<client, timer, shutdown, socket, failures>>

EventDone ==
  /\ pc = "event" /\ revents = {}
  /\ pc' = "timers"
  /\ UNCHANGED <<client, timer, shutdown, revents, socket, failures>>

\* The assertion at the head of handle_read and handle_write fails.
Aborts ==
  /\ pc = "event" /\ revents # {} /\ connStatus = "CLOSED"
  /\ pc' = "aborted"
  /\ UNCHANGED <<client, timer, shutdown, revents, socket, failures>>

Handling == pc = "event" /\ connStatus # "CLOSED"

Reading == Handling /\ "READ" \in revents
Writing == Handling /\ "READ" \notin revents /\ "WRITE" \in revents
Handled(bit) == revents' = revents \ {bit}
AfterHandler == UNCHANGED <<pc, timer, failures>>

-----------------------------------------------------------------------------
(* Connector::handle_read *)

\* recv(0) of a socket that is still to be found connected, or an end of the
\* stream of one that is.
ReadCloses ==
  /\ Reading
  /\ Broken \/ (connStatus = "CONNECTED" /\ fin)
  /\ Close
  /\ AfterHandler /\ UNCHANGED socket

ReadNothing ==
  /\ Reading /\ connStatus = "CONNECTING" /\ ~Broken
  /\ Handled("READ")
  /\ AfterHandler /\ UNCHANGED <<client, shutdown, socket>>

ReadData ==
  /\ Reading /\ connStatus = "CONNECTED" /\ ~Broken /\ ~fin
  /\ data' = FALSE
  /\ Handled("READ")
  /\ AfterHandler /\ UNCHANGED <<client, shutdown, net, fin, rst, full, answer>>

-----------------------------------------------------------------------------
(* Connector::handle_write *)

\* Faulty: disable_write() after on_connected().
WatchedAfterConnect == FALSE

\* disable_write(), and then the sends of on_connected() enable it again.
WatchedOnConnect == TRUE

\* SO_ERROR is 0: Client::on_connected sends two messages.
WriteConnected ==
  /\ Writing /\ connStatus = "CONNECTING" /\ ~Broken
  /\ connStatus' = "CONNECTED" /\ status' = "CONNECTED"
  /\ retry_count' = 0
  /\ wbuf' = wbuf + 2
  /\ watched' = WatchedOnConnect
  /\ lapsed' = (lapsed \/ armed = 0)
  /\ Handled("WRITE")
  /\ UNCHANGED <<pc, armed, due, failures>>
  /\ UNCHANGED <<registered, shutdown, socket>>

\* SO_ERROR tells an error, or send() fails for good.
WriteCloses ==
  /\ Writing /\ Broken
  /\ Close
  /\ AfterHandler /\ UNCHANGED socket

\* The kernel takes some of the messages, at least one.
WriteSends ==
  /\ Writing /\ connStatus = "CONNECTED" /\ ~Broken
  /\ \E n \in 1 .. wbuf :
       /\ wbuf' = wbuf - n
       /\ watched' = (wbuf' > 0)
       /\ full' \in IF wbuf' > 0 THEN {TRUE} ELSE BOOLEAN
  /\ Handled("WRITE")
  /\ AfterHandler
  /\ UNCHANGED <<status, connStatus, registered, retry_count, shutdown>>
  /\ UNCHANGED <<net, data, fin, rst, answer>>

-----------------------------------------------------------------------------
(* Timer::update and Client::_re_connect *)

\* Where the program has ended.
Ended == {"exit", "aborted"}

Expire ==
  /\ armed > 0 /\ ~due /\ pc \notin Ended
  /\ due' = TRUE
  /\ UNCHANGED <<client, armed, lapsed, shutdown, revents, pc, socket, failures>>

EndTurn == pc' = IF shutdown THEN "exit" ELSE "select"
Fires   == pc = "timers" /\ due /\ due' = FALSE /\ EndTurn
NotDue  == pc = "timers" /\ ~due /\ EndTurn
           /\ UNCHANGED <<client, timer, shutdown, revents, socket, failures>>

FiresTooLate ==
  /\ Fires /\ TooMany
  /\ armed' = armed - 1
  /\ UNCHANGED <<client, lapsed, shutdown, revents, socket, failures>>

FiresConnected ==
  /\ Fires /\ ~TooMany /\ status = "CONNECTED"
  /\ armed' = armed - 1
  /\ lapsed' = TRUE
  /\ UNCHANGED <<client, shutdown, revents, socket, failures>>

\* Faulty: the timer is not started again after an attempt that failed at once.
RearmedIfStarted == armed' = IF status' = "CLOSED" THEN armed - 1 ELSE armed

Rearmed == armed' = armed

\* An attempt that is not answered is closed; the next one starts.
FiresRetry ==
  /\ Fires /\ ~TooMany /\ status # "CONNECTED"
  /\ Connects \/ ConnectsAtOnce \/ FailsAtOnce
  /\ Rearmed
  /\ UNCHANGED <<lapsed, shutdown, revents>>

Finished == pc \in Ended /\ UNCHANGED vars

Thread ==
  \/ Start \/ Select \/ EventDone \/ Aborts
  \/ ReadCloses \/ ReadNothing \/ ReadData
  \/ WriteConnected \/ WriteCloses \/ WriteSends
  \/ NotDue \/ FiresTooLate \/ FiresConnected \/ FiresRetry

Peer == PeerStep(Answered \/ Sends \/ Ends \/ Resets \/ Reads)

Next == Thread \/ Expire \/ Peer \/ Finished

\* The loop goes on, timers expire, the kernel answers or gives an attempt up,
\* and the server reads.
Fairness ==
  /\ WF_vars(Thread) /\ WF_vars(Expire)
  /\ WF_vars(PeerStep(Answered)) /\ WF_vars(PeerStep(Reads))

Spec == Init /\ [][Next]_vars /\ Fairness

-----------------------------------------------------------------------------
TypeOK ==
  /\ status \in Status /\ connStatus \in Status
  /\ wbuf \in 0 .. 2
  /\ retry_count \in 0 .. MaxRetry + 1
  /\ armed \in 0 .. 1
  /\ revents \subseteq {"READ", "WRITE"}
  /\ net \in {"none", "syn", "up", "failed"} /\ answer \in {"late", "early"}

\* Client, Connector and loop agree on the connection, and no handler runs for
\* a Connector that is closed, with an attempt that is refused, reset or timed
\* out between the READ and the WRITE of one event.  The one exception is an
\* attempt that connect() has answered at once: the Client and the loop have
\* it, the Connector is closed, and only such an attempt makes the program
\* abort.
StatusesAgree ==
  /\ IF answer = "early" THEN status = "CONNECTING" /\ connStatus = "CLOSED"
     ELSE status = connStatus
  /\ registered <=> status # "CLOSED"
  /\ revents # {} => registered
  /\ pc = "aborted" => answer = "early"

\* A client that is not connected has a timer that will try again, unless it
\* has been connected and no timer was left then, or the last attempt is under
\* way, whose failure ends the program.
NeverForgotten ==
  pc \notin {"start"} \cup Ended /\ status # "CONNECTED" /\ ~shutdown
    => armed = 1 \/ lapsed \/ (status = "CONNECTING" /\ TooMany)

\* An attempt leads to a connection or to the end of the program, which is that
\* of the retries or the abort of StatusesAgree.
AttemptsEnd ==
  status = "CONNECTING"
    ~> \/ status = "CONNECTED" \/ pc = "exit"
       \/ pc = "aborted" /\ answer = "early"

\* What is to be sent leaves pwrite_buf, unless the connection is closed: the
\* two messages sent on connecting are never left without an event.
OutputLeaves ==
  status = "CONNECTED" /\ wbuf > 0 ~> wbuf = 0 \/ status # "CONNECTED"
=============================================================================

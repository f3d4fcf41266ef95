----------------------------- MODULE HttpServer ----------------------------
(***************************************************************************)
(* The program main.cpp starts: HttpServer (server/httpserver.cpp) on      *)
(* TcpServer, its httpHandle objects, the pySender that Python holds       *)
(* (pyengine/pyhttphandle.cpp) and the handlers Python keeps for each      *)
(* connection (script/httphandle.py): HttpHandle until a request upgrades  *)
(* the connection, WSHandle after that.                                    *)
(*                                                                         *)
(* What a line or a message makes the Python code do depends on bytes the  *)
(* model abstracts, so each outcome is an action of its own.               *)
(*                                                                         *)
(* Assertions that the program can violate, and the one undefined          *)
(* behaviour it runs into, end in pc = "abort" with the place in fault.    *)
(* Assertions that hold are invariants of the model.                       *)
(***************************************************************************)
EXTENDS TcpServer

VARIABLES py,           \* the httpHandle of a connection and, with it, the
                        \* Python handler: "none", "http" or "ws"
          readingLine,  \* pySender::reading_line
          frame,        \* WSHandle.cur_frame is set: WSHandle and WSFrame
                        \* then refer to each other
          trace,        \* the connection held by sys.last_traceback, or 0
          fault         \* the assertion or undefined behaviour that was hit

httpVars == <<py, readingLine, frame, trace, fault>>
vars == <<sockVars, loopVars, tcpVars, httpVars>>

Faults == {"none", "close_connect", "accept", "getpeername", "clear"}
Stopped == pc \in {"exit", "abort"}

HttpTypeOK ==
  /\ pc \in {"select", "batch", "event", "lines", "message",
             "clear", "exit", "abort"}
  /\ py \in [Conn -> {"none", "http", "ws"}]
  /\ readingLine \in [Conn -> BOOLEAN]
  /\ frame \in [Conn -> BOOLEAN]
  /\ trace \in Conn \cup {0}
  /\ fault \in Faults

TypeOK == SocketsTypeOK /\ LoopTypeOK(Handle) /\ TcpTypeOK /\ HttpTypeOK

Init ==
  /\ SocketsInit
  /\ LoopInit(Acceptor)
  /\ TcpInit
  /\ py = [c \in Conn |-> "none"]
  /\ readingLine = [c \in Conn |-> TRUE]
  /\ frame = [c \in Conn |-> FALSE]
  /\ trace = 0
  /\ fault = "none"

\* The TcpStream objects that something still refers to; each holds its
\* descriptor open.
Live == {c \in 1 .. max_connect_id :
           c \in streams \/ c = cur \/ frame[c] \/ trace = c}

-----------------------------------------------------------------------------
(* Acceptor::handle_read *)

Accept == NewConnect(Live) /\ UNCHANGED httpVars

Abort(what) ==
  /\ pc' = "abort"
  /\ fault' = what
  /\ UNCHANGED <<handles, interest, active, cur, revents>>
  /\ UNCHANGED <<tcpVars, sockVars, py, readingLine, frame, trace>>

\* accept() fails for want of a descriptor: assert(fd != -1).
AcceptFails ==
  Accepting /\ arrived >= Newest /\ Free(Live) = {} /\ Abort("accept")

\* The peer has reset the connection: getpeername() fails, assert(n == 0).
AcceptReset ==
  /\ Accepting /\ arrived >= Newest /\ Free(Live) # {} /\ rst[Newest]
  /\ Abort("getpeername")

-----------------------------------------------------------------------------
(* HttpServer::close_connect: the stream is forgotten, then its httpHandle *)
(* is looked up, and asserted to be there, to tell Python.  HttpHandle and *)
(* WSHandle would close the stream again if it were not marked closing.    *)

HttpCloseConnect(c) ==
  /\ CloseConnect(c)
  /\ py' = [py EXCEPT ![c] = "none"]
  /\ fault' = IF py[c] = "none" THEN "close_connect" ELSE fault
  /\ pc' = IF py[c] = "none" THEN "abort" ELSE "event"
  /\ UNCHANGED <<readingLine, active, cur>>

\* Faulty: the stream is closed whatever is left to send.
CloseNow(c, rest) == MarkClosing(c) /\ HttpCloseConnect(c)

\* TcpStream::close: at once, or when wbuf[c] is sent; a handler that goes on
\* has the bits in rest still to test.
Close(c, rest) ==
  /\ MarkClosing(c)
  /\ \/ /\ wbuf[c] = 0
        /\ HttpCloseConnect(c)
     \/ /\ wbuf[c] > 0
        /\ pc' = "event"
        /\ revents' = rest
        /\ UNCHANGED <<streams, handles, interest, active, cur>>
        /\ UNCHANGED <<py, readingLine, fault>>

-----------------------------------------------------------------------------
(* TcpStream::handle_read *)

\* recv() ends in 0 or in an error.  What it read before that is not looked at.
ReadEnd(c) ==
  /\ Reading(c) /\ AtEnd(c)
  /\ Receive(c)
  /\ Close(c, revents \ {"READ"})
  /\ UNCHANGED <<max_connect_id, fdOf, wbuf, frame, trace>>

\* recv() ends in EAGAIN: HttpServer::handle_read, which makes the httpHandle
\* and the HttpHandle of a connection that speaks for the first time.
ReadData(c) ==
  /\ Reading(c) /\ ~AtEnd(c)
  /\ Receive(c)
  /\ revents' = revents \ {"READ"}
  /\ py' = [py EXCEPT ![c] = IF @ = "none" THEN "http" ELSE @]
  /\ pc' = IF readingLine[c] THEN "lines" ELSE "message"
  /\ UNCHANGED <<handles, interest, active, cur>>
  /\ UNCHANGED <<streams, max_connect_id, fdOf, wbuf, closing>>
  /\ UNCHANGED <<readingLine, frame, trace, fault>>

-----------------------------------------------------------------------------
(* The loop of httpHandle::handle_read over the lines of pread_buf.        *)

\* Faulty: get_line()'s null result is not looked at.
TakesAnyLine(c, handler) ==
  /\ pc = "lines" /\ cur = c /\ py[c] = handler
  /\ rbuf' = [rbuf EXCEPT ![c].lines = @ - 1]
  /\ UNCHANGED <<handles, active, cur, revents, pc>>
  /\ UNCHANGED <<streams, max_connect_id, fdOf, frame, fault, sockVars>>

TakesLine(c, handler) ==
  /\ pc = "lines" /\ cur = c /\ rbuf[c].lines > 0 /\ py[c] = handler
  /\ rbuf' = [rbuf EXCEPT ![c].lines = @ - 1]
  /\ UNCHANGED <<handles, active, cur, revents, pc>>
  /\ UNCHANGED <<streams, max_connect_id, fdOf, frame, fault, sockVars>>

\* A line of a header, which HttpHandle keeps.
LineHeld(c) ==
  /\ TakesLine(c, "http")
  /\ UNCHANGED <<interest, wbuf, closing, py, readingLine, trace>>

\* The end of a GET: the page is sent and the stream is to close after it.
LineGet(c) ==
  /\ TakesLine(c, "http")
  /\ Send(c)
  /\ MarkClosing(c)
  /\ UNCHANGED <<py, readingLine, trace>>

\* The end of a request that BaseHTTPRequestHandler refuses: send_error().
LineRefused(c) ==
  /\ TakesLine(c, "http")
  /\ Send(c)
  /\ UNCHANGED <<closing, py, readingLine, trace>>

\* Faulty: set_reading_line(False) is forgotten.
SwitchHandler(c) == py' = [py EXCEPT ![c] = "ws"] /\ UNCHANGED readingLine

SwitchToWS(c) ==
  /\ readingLine' = [readingLine EXCEPT ![c] = FALSE]
  /\ py' = [py EXCEPT ![c] = "ws"]

\* The end of a GET with Connection: Upgrade, answered with status 101.
LineUpgrade(c) ==
  /\ TakesLine(c, "http")
  /\ SwitchToWS(c)
  /\ Send(c)
  /\ UNCHANGED <<closing, trace>>

\* The same without a header WSHandle.on_handle looks up: it raises KeyError
\* after the switch, and PyErr_Print keeps the traceback.
LineBadUpgrade(c) ==
  /\ TakesLine(c, "http")
  /\ SwitchToWS(c)
  /\ trace' = c
  /\ UNCHANGED <<interest, wbuf, closing>>

\* WSHandle has no handle_line: a line after the upgrade raises.
LineRaises(c) ==
  /\ TakesLine(c, "ws")
  /\ trace' = c
  /\ UNCHANGED <<interest, wbuf, closing, py, readingLine>>

LinesDone(c) ==
  /\ pc = "lines" /\ cur = c /\ rbuf[c].lines = 0
  /\ pc' = "event"
  /\ UNCHANGED <<handles, interest, active, cur, revents>>
  /\ UNCHANGED <<sockVars, tcpVars, httpVars>>

-----------------------------------------------------------------------------
(* The other branch of httpHandle::handle_read: all that pread_buf holds   *)
(* goes to WSHandle.handle_message, and to the frame being read.           *)

TakesMessage(c) ==
  /\ pc = "message" /\ cur = c
  /\ rbuf' = [rbuf EXCEPT ![c] = Nothing]
  /\ UNCHANGED <<max_connect_id, fdOf, sockVars>>

\* More of the frame is to come.
MessagePart(c) ==
  /\ TakesMessage(c)
  /\ frame' = [frame EXCEPT ![c] = TRUE]
  /\ pc' = "event"
  /\ UNCHANGED <<handles, interest, active, cur, revents>>
  /\ UNCHANGED <<streams, wbuf, closing, py, readingLine, trace, fault>>

\* The frame is complete: WSHandle.handle_frame echoes it.
MessageEcho(c) ==
  /\ TakesMessage(c)
  /\ frame' = [frame EXCEPT ![c] = FALSE]
  /\ Send(c)
  /\ pc' = "event"
  /\ UNCHANGED <<handles, active, cur, revents>>
  /\ UNCHANGED <<streams, closing, py, readingLine, trace, fault>>

\* The frame's opcode is 8: WSHandle.handle_close.  To a stream that is closing
\* already it does nothing, as in MessagePart.
MessageClose(c) ==
  /\ TakesMessage(c)
  /\ ~closing[c]
  /\ frame' = [frame EXCEPT ![c] = TRUE]
  /\ Close(c, revents)
  /\ UNCHANGED <<wbuf, trace>>

\* WSFrame.on_read raises.
MessageRaises(c) ==
  /\ TakesMessage(c)
  /\ frame' = [frame EXCEPT ![c] = TRUE]
  /\ trace' = c
  /\ pc' = "event"
  /\ UNCHANGED <<handles, interest, active, cur, revents>>
  /\ UNCHANGED <<streams, wbuf, closing, py, readingLine, fault>>

-----------------------------------------------------------------------------
(* TcpStream::handle_write *)

WriteKeep(c) == (WriteFails(c) \/ WritePart(c) \/ WriteAll(c))
                /\ UNCHANGED httpVars

WriteClose(c) ==
  /\ WriteLast(c)
  /\ HttpCloseConnect(c)
  /\ UNCHANGED <<frame, trace>>

-----------------------------------------------------------------------------
(* EventLoop::clear, after the loop has stopped: every handle is closed in *)
(* the order of the map, which is that of the descriptors.  The acceptor's *)
(* close() only asks for the shutdown again.                               *)

ToClear == {c \in streams : ~(closing[c] /\ wbuf[c] > 0)}

\* A stream with output to send is only marked.
ClearMarks(c) ==
  /\ MarkClosing(c) /\ wbuf[c] > 0
  /\ UNCHANGED <<streams, fault, py, loopVars>>

\* Any other leaves the map while clear() iterates over it: what ++it does on
\* the erased node is undefined, it may crash, end the loop or go on.  Without
\* an httpHandle it is close_connect that fails.
ClearErases(c) ==
  /\ wbuf[c] = 0
  /\ MarkClosing(c)
  /\ CloseConnect(c)
  /\ py' = [py EXCEPT ![c] = "none"]
  /\ fault' = "clear"
  /\ pc' \in IF py[c] = "none" THEN {"abort"} ELSE {"abort", "exit", "clear"}
  /\ UNCHANGED <<active, cur>>

Clear ==
  /\ pc = "clear"
  /\ \E c \in ToClear :
       /\ \A d \in ToClear : fdOf[c] <= fdOf[d]
       /\ ClearMarks(c) \/ ClearErases(c)
  /\ UNCHANGED <<max_connect_id, fdOf, rbuf, wbuf>>
  /\ UNCHANGED <<readingLine, frame, trace, sockVars>>

ClearDone ==
  /\ pc = "clear" /\ ToClear = {}
  /\ pc' = "exit"
  /\ UNCHANGED <<handles, interest, active, cur, revents>>
  /\ UNCHANGED <<tcpVars, httpVars, sockVars>>

-----------------------------------------------------------------------------
(* Python's cyclic collector runs when Python code allocates: in on_update *)
(* between two batches, or in a handler.                                   *)

Collect(c) ==
  /\ pc \in {"select", "lines", "message"}
  /\ frame[c] /\ py[c] = "none"
  /\ frame' = [frame EXCEPT ![c] = FALSE]
  /\ UNCHANGED <<sockVars, loopVars, tcpVars, py, readingLine, trace, fault>>

LoopStep ==
  /\ Select(Ready) \/ Dispatch \/ EventDone \/ BatchDone
  /\ UNCHANGED <<sockVars, tcpVars, httpVars>>

Signal == Interrupted /\ UNCHANGED <<sockVars, tcpVars, httpVars>>

\* A step of a handler of stream c.
StreamStep(c) ==
  \/ ReadEnd(c) \/ ReadData(c)
  \/ LineHeld(c) \/ LineGet(c) \/ LineRefused(c) \/ LineUpgrade(c)
  \/ LineBadUpgrade(c) \/ LineRaises(c) \/ LinesDone(c)
  \/ MessagePart(c) \/ MessageEcho(c) \/ MessageClose(c) \/ MessageRaises(c)
  \/ WriteKeep(c) \/ WriteClose(c)

\* What the server's thread does of itself.
Thread ==
  \/ LoopStep
  \/ Accept \/ AcceptFails \/ AcceptReset
  \/ \E c \in Conn : StreamStep(c)
  \/ Clear \/ ClearDone

\* A peer whose stream the server has dropped reaches nobody.
Peer(c) ==
  /\ c <= arrived /\ (c > max_connect_id \/ c \in streams) /\ ~Stopped
  /\ PeerStep(c)
  /\ UNCHANGED <<loopVars, tcpVars, httpVars>>

Arrival == Connect /\ ~Stopped /\ UNCHANGED <<loopVars, tcpVars, httpVars>>

Finished == Stopped /\ UNCHANGED vars

Next ==
  \/ Thread
  \/ Signal
  \/ Arrival
  \/ \E c \in Conn : Peer(c) \/ Collect(c)
  \/ Finished

Spec == Init /\ [][Next]_vars

\* The thread always goes on, and peers go on taking what is sent to them.
Fairness ==
  /\ WF_vars(Thread)
  /\ \A c \in Conn : WF_vars(Peer(c) /\ PeerReads(c))

FairSpec == Spec /\ Fairness

-----------------------------------------------------------------------------
(* Safety *)

\* The four maps that know of a connection agree at every step, in the middle
\* of a handler too: a descriptor is registered with the loop exactly when its
\* stream is in TcpServer::streams, the selector watches exactly those, for
\* READ at least, and neither HttpServer::handles nor Python's handles dict
\* knows a stream that TcpServer has dropped.
RegistryAgrees ==
  /\ handles[ListenFd] = Acceptor
  /\ \A fd \in Fd : handles[fd] # NoHandle =>
                     handles[fd] \in streams /\ fdOf[handles[fd]] = fd
  /\ \A c \in streams : fdOf[c] # ListenFd /\ handles[fdOf[c]] = c
  /\ \A fd \in AnyFd : IF handles[fd] = NoHandle THEN interest[fd] = {}
                        ELSE "READ" \in interest[fd]
  /\ \A c \in Conn : py[c] # "none" => c \in streams

\* No two TcpStream objects that are still referred to hold one descriptor,
\* although descriptors are reused and a closed stream may outlive its close.
OneOwnerPerFd ==
  \A c, d \in Live : fdOf[c] = fdOf[d] => c = d

\* What the selector reported stays true until it is handled, whatever the
\* handlers dispatched before it did: the descriptor is still registered
\* (assert in do_select) and the call the handler makes will not find it
\* without a connection, data, end of stream or room.
BatchStaysReady ==
  /\ \A fd \in AnyFd : \A b \in active[fd] :
       handles[fd] # NoHandle /\ Has(handles[fd], b)
  /\ \A b \in revents : cur # NoHandle /\ Has(cur, b)

\* After a stream is closed in one of its own handlers no further event of it
\* is handled, neither a bit left in revents nor a line left in its buffer
\* (unregist_handle clears revents: "no more events").
NoEventAfterClose ==
  cur \in Conn /\ cur \notin streams
    => revents = {} /\ pc \notin {"lines", "message"}

\* The selector watches a stream for WRITE exactly while it has output: a
\* reply is never left without an event to send it, and an idle stream never
\* wakes the loop.
OutputIsWatched ==
  \A c \in streams : "WRITE" \in interest[fdOf[c]] <=> wbuf[c] > 0

\* A stream that is to close and is still registered has output left: the
\* write that sends the last of it is what closes it.
ClosingHasOutput ==
  \A c \in streams : closing[c] => wbuf[c] > 0

\* The C++ side and Python agree on what a connection speaks: reading_line is
\* off exactly for the connections whose Python handler is a WSHandle; a
\* message is delivered only to a WSHandle and is not empty (assert n > 0),
\* and lines and messages only to streams that exist.
ModeAgrees ==
  /\ \A c \in streams : readingLine[c] <=> py[c] # "ws"
  /\ pc = "lines" => cur \in streams /\ py[cur] # "none"
  /\ pc = "message" => cur \in streams /\ py[cur] = "ws" /\ rbuf[cur] # Nothing

-----------------------------------------------------------------------------
(* What these invariants rest on: with it their conjunction is inductive.  *)

\* Where the thread is tells whether a handler runs and whether a batch is
\* left, and only a registered stream's lines and messages are handled.
Control ==
  /\ pc \in {"select", "batch", "clear", "exit"} => cur = NoHandle
  /\ pc \in {"event", "lines", "message"} => cur # NoHandle
  /\ cur = NoHandle => revents = {}
  /\ pc \in {"select", "clear", "exit"} => \A fd \in AnyFd : active[fd] = {}

\* The handle being run has nothing more in the batch.
Undispatched ==
  /\ cur = Acceptor => active[ListenFd] = {}
  /\ cur \in Conn => active[fdOf[cur]] = {}

\* Ids are given out in order, to connections that have been established.
Numbered ==
  /\ max_connect_id <= arrived
  /\ \A c \in streams : c <= max_connect_id
  /\ cur \in Conn => cur <= max_connect_id
  /\ \A c \in Conn : c <= max_connect_id => fdOf[c] # ListenFd

\* Nothing exists yet of a connection that has not been accepted.
Unborn ==
  \A c \in Conn : c > max_connect_id =>
    ~closing[c] /\ wbuf[c] = 0 /\ readingLine[c] /\ ~frame[c] /\ trace # c

\* Only the Python handler of a stream writes to it.
OutputHasHandler ==
  \A c \in streams : wbuf[c] > 0 => py[c] # "none"

Inv ==
  /\ TypeOK
  /\ Control
  /\ Undispatched
  /\ Numbered
  /\ Unborn
  /\ OutputHasHandler
  /\ RegistryAgrees
  /\ OneOwnerPerFd
  /\ BatchStaysReady
  /\ NoEventAfterClose
  /\ OutputIsWatched
  /\ ClosingHasOutput
  /\ ModeAgrees

-----------------------------------------------------------------------------
(* Refinement *)

StateOf(c) ==
  IF c > max_connect_id THEN "none"
  ELSE IF c \notin streams THEN "closed"
  ELSE IF closing[c] THEN "closing" ELSE "open"

Abstract == INSTANCE Connections
  WITH state <- [c \in Conn |-> StateOf(c)], owed <- wbuf

\* Every connection keeps the promises of Connections: in particular it is
\* never closed with a reply unsent, and nothing happens to it after.
KeepsPromises == Abstract!Spec

-----------------------------------------------------------------------------
(* Liveness *)

\* A connection waiting to be accepted is accepted, or the server stops.
BacklogServed ==
  \A c \in Conn : c <= arrived ~> c <= max_connect_id \/ Stopped

\* A stream asked to close is closed, unless its peer resets it first or the
\* server stops.
ClosingCloses ==
  \A c \in Conn : c \in streams /\ closing[c] ~> c \notin streams \/ rst[c] \/ Stopped

-----------------------------------------------------------------------------
(* Claims of the code that its executions refute. *)

\* assert(it!=handles.end()) in HttpServer::close_connect.
CloseFindsHandle == fault # "close_connect"

\* TcpStream::handle_write calls close() when send() fails for good: a stream
\* whose peer has reset it is closed in the end.
ResetCloses ==
  \A c \in Conn : c \in streams /\ rst[c] ~> c \notin streams \/ Stopped
=============================================================================

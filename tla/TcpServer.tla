----------------------------- MODULE TcpServer -----------------------------
(***************************************************************************)
(* TcpServer (server/tcpserver.cpp) with its Acceptor and TcpStream        *)
(* handles (server/handles.cpp) on the reactor and the kernel's sockets.   *)
(* The servers of the repository derive from TcpServer and override        *)
(* handle_read, new_connect and close_connect: the steps they share are    *)
(* actions here, and what they add is left to the modules that extend      *)
(* this one.                                                               *)
(*                                                                         *)
(* A TcpStream is known by its connect_id.  TcpStream::closed has no       *)
(* variable: it is set with closing and read only together with it.        *)
(***************************************************************************)
EXTENDS Sockets, EventLoop

VARIABLES streams,         \* TcpServer::streams, as the set of its keys
          max_connect_id,  \* the last id given to a connection
          fdOf,            \* Handle::fd of each stream (0 before it exists)
          rbuf,            \* pread_buf of each stream
          wbuf,            \* pwrite_buf of each stream, in replies
          closing          \* TcpStream::closing

tcpVars == <<streams, max_connect_id, fdOf, rbuf, wbuf, closing>>

Acceptor == 0
Handle == {Acceptor} \cup Conn

TcpTypeOK ==
  /\ streams \subseteq Conn
  /\ max_connect_id \in 0 .. MaxConn
  /\ fdOf \in [Conn -> AnyFd]
  /\ rbuf \in [Conn -> Data]
  /\ wbuf \in [Conn -> Nat]
  /\ closing \in [Conn -> BOOLEAN]

TcpInit ==
  /\ streams = {}
  /\ max_connect_id = 0
  /\ fdOf = [c \in Conn |-> ListenFd]
  /\ rbuf = [c \in Conn |-> Nothing]
  /\ wbuf = [c \in Conn |-> 0]
  /\ closing = [c \in Conn |-> FALSE]

-----------------------------------------------------------------------------
(* What the selector reports: of the watched events, those the kernel has. *)

Has(h, bit) ==
  IF h = Acceptor THEN bit = "READ" /\ arrived > max_connect_id
  ELSE IF bit = "READ" THEN Readable(h) ELSE Writable(h)

Ready == [fd \in AnyFd |-> {b \in interest[fd] : Has(handles[fd], b)}]

-----------------------------------------------------------------------------
(* Acceptor::handle_read: accept(), then TcpServer::new_connect.  The      *)
(* kernel gives out the lowest descriptor that no living object holds.     *)

Accepting == pc = "event" /\ cur = Acceptor /\ "READ" \in revents
Newest == max_connect_id + 1
\* Faulty: close_connect() closes the descriptor of a stream that lives on.
FreeAtClose(live) == Fd \ {fdOf[c] : c \in streams}
Free(live) == Fd \ {fdOf[c] : c \in live}

\* Faulty: accept() is called until it fails.
NewConnects(live) ==
  /\ Accepting /\ arrived >= Newest /\ ~rst[Newest]
  /\ \E fd \in Free(live) :
       /\ \A g \in Free(live) : fd <= g
       /\ Register(fd, Newest, {"READ"})
       /\ fdOf' = [fdOf EXCEPT ![Newest] = fd]
  /\ max_connect_id' = Newest
  /\ streams' = streams \cup {Newest}
  /\ UNCHANGED <<revents, active, cur, pc, rbuf, wbuf, closing, sockVars>>

NewConnect(live) ==
  /\ Accepting /\ arrived >= Newest /\ ~rst[Newest]
  /\ \E fd \in Free(live) :
       /\ \A g \in Free(live) : fd <= g
       /\ Register(fd, Newest, {"READ"})
       /\ fdOf' = [fdOf EXCEPT ![Newest] = fd]
  /\ max_connect_id' = Newest
  /\ streams' = streams \cup {Newest}
  /\ revents' = revents \ {"READ"}
  /\ UNCHANGED <<active, cur, pc, rbuf, wbuf, closing>>
  /\ UNCHANGED sockVars

-----------------------------------------------------------------------------
(* Parts of TcpStream's methods. *)

Reading(c) == pc = "event" /\ cur = c /\ "READ" \in revents
Writing(c) == pc = "event" /\ cur = c /\ "READ" \notin revents
                           /\ "WRITE" \in revents

\* Socket::recv: everything the kernel holds goes to pread_buf.
Receive(c) ==
  /\ rbuf' = [rbuf EXCEPT ![c] = Join(@, inq[c])]
  /\ inq'  = [inq EXCEPT ![c] = Nothing]
  /\ UNCHANGED <<arrived, sent, fin, rst, sndq>>

\* TcpStream::send: into pwrite_buf, then enable_write().
Send(c) ==
  /\ wbuf' = [wbuf EXCEPT ![c] = @ + 1]
  /\ EnableWrite(fdOf[c])

MarkClosing(c) == closing' = [closing EXCEPT ![c] = TRUE]

\* TcpServer::close_connect.
CloseConnect(c) ==
  /\ streams' = streams \ {c}
  /\ Unregister(fdOf[c])

-----------------------------------------------------------------------------
(* TcpStream::handle_write, up to the close that may follow it.            *)

Room(c) == SndCap - sndq[c]

\* send() fails for good: close() finds pwrite_buf not empty and only marks.
WriteFails(c) ==
  /\ Writing(c) /\ rst[c] /\ wbuf[c] > 0
  /\ MarkClosing(c)
  /\ revents' = revents \ {"WRITE"}
  /\ UNCHANGED <<handles, interest, active, cur, pc>>
  /\ UNCHANGED <<streams, max_connect_id, fdOf, rbuf, wbuf>>
  /\ UNCHANGED sockVars

\* The kernel takes what it has room for and says EAGAIN to the rest.
WritePart(c) ==
  /\ Writing(c) /\ ~rst[c] /\ wbuf[c] > Room(c)
  /\ wbuf' = [wbuf EXCEPT ![c] = @ - Room(c)]
  /\ sndq' = [sndq EXCEPT ![c] = SndCap]
  /\ revents' = revents \ {"WRITE"}
  /\ UNCHANGED <<handles, interest, active, cur, pc>>
  /\ UNCHANGED <<streams, max_connect_id, fdOf, rbuf, closing>>
  /\ UNCHANGED <<arrived, sent, inq, fin, rst>>

\* Everything is taken and nothing asked for the close.
WriteAll(c) ==
  /\ Writing(c) /\ ~rst[c] /\ wbuf[c] <= Room(c) /\ ~closing[c]
  /\ wbuf' = [wbuf EXCEPT ![c] = 0]
  /\ sndq' = [sndq EXCEPT ![c] = @ + wbuf[c]]
  /\ DisableWrite(fdOf[c])
  /\ revents' = revents \ {"WRITE"}
  /\ UNCHANGED <<handles, active, cur, pc>>
  /\ UNCHANGED <<streams, max_connect_id, fdOf, rbuf, closing>>
  /\ UNCHANGED <<arrived, sent, inq, fin, rst>>

\* Everything is taken and the stream was to be closed when it is.
WriteLast(c) ==
  /\ Writing(c) /\ ~rst[c] /\ wbuf[c] <= Room(c) /\ closing[c]
  /\ wbuf' = [wbuf EXCEPT ![c] = 0]
  /\ sndq' = [sndq EXCEPT ![c] = @ + wbuf[c]]
  /\ CloseConnect(c)
  /\ UNCHANGED <<active, cur>>
  /\ UNCHANGED <<max_connect_id, fdOf, rbuf, closing>>
  /\ UNCHANGED <<arrived, sent, inq, fin, rst>>
=============================================================================

-------------------------- MODULE HttpServerProofs --------------------------
(***************************************************************************)
(* The safety invariants of HttpServer hold in every reachable state, for  *)
(* any number of connections, descriptors and pieces of data and any size  *)
(* of the send buffers.  Inv is inductive: one lemma shows it of each      *)
(* action, NextInv collects them, and the theorems after it read off what  *)
(* a reader wants to know.  The last part shows that HttpServer implements *)
(* Connections.                                                            *)
(*                                                                         *)
(* In each lemma the first step treats the parts of Inv that mention no    *)
(* variable the action changes, and one step treats each other part.       *)
(***************************************************************************)
EXTENDS HttpServer, TLAPS

-----------------------------------------------------------------------------
(* Facts about the constant sets, after which they need no expansion.      *)

(* The acceptor, the streams and "no handle" are told apart, and so are the
   listening descriptor and the others. *)
LEMMA Names ==
  /\ Acceptor \notin Conn /\ NoHandle \notin Handle /\ NoHandle # Acceptor
  /\ Handle = Conn \cup {Acceptor}
  /\ ListenFd \notin Fd /\ AnyFd = Fd \cup {ListenFd}
  BY SocketsAssumption, EventLoopAssumption
  DEF Acceptor, Conn, NoHandle, Handle, ListenFd, Fd, AnyFd

(* What appending to a buffer and taking a line from it give: appending
   anything leaves something. *)
LEMMA DataFacts ==
  /\ Nothing \in Data
  /\ \A a, b \in Data : Join(a, b) \in Data
  /\ \A a, b \in Data : a # Nothing \/ b # Nothing => Join(a, b) # Nothing
  /\ Pieces \subseteq Data
  /\ \A d \in Data : d.lines > 0 => [d EXCEPT !.lines = @ - 1] \in Data
  BY DEF Data, Nothing, Join, Pieces

(* TcpStream::close with output left only marks the stream. *)
LEMMA CloseLater ==
  ASSUME NEW c \in Conn, NEW rest, wbuf[c] > 0, Close(c, rest)
  PROVE  /\ MarkClosing(c) /\ pc' = "event" /\ revents' = rest
         /\ UNCHANGED <<streams, handles, interest, active, cur>>
         /\ UNCHANGED <<py, readingLine, fault>>
  BY DEF Close

-----------------------------------------------------------------------------
(* The loop and the acceptor. *)

(* The end of a handler. *)
LEMMA EventDoneStep ==
  ASSUME Inv, EventDone, UNCHANGED <<sockVars, tcpVars, httpVars>>
  PROVE  Inv'
<1> USE DEF Inv, TypeOK, sockVars, loopVars, tcpVars, httpVars, EventDone
<1>1. SocketsTypeOK' /\ TcpTypeOK' /\ Unborn' /\ OutputHasHandler' /\
      RegistryAgrees' /\ OutputIsWatched' /\ ClosingHasOutput'
  BY DEF SocketsTypeOK, TcpTypeOK, Unborn, OutputHasHandler, RegistryAgrees,
      OutputIsWatched, ClosingHasOutput
<1>2. LoopTypeOK(Handle)' /\ HttpTypeOK' /\ Control' /\ Undispatched' /\
      NoEventAfterClose' /\ Numbered' /\ ModeAgrees' /\ BatchStaysReady'
  BY Names DEF LoopTypeOK, TcpTypeOK, Bits, HttpTypeOK, Faults, Control,
      BatchStaysReady, Undispatched, RegistryAgrees, NoEventAfterClose,
      Numbered, ModeAgrees, Has, Readable, Writable, AtEnd
<1>3. OneOwnerPerFd'
  <2>1. Live' \subseteq Live /\ fdOf' = fdOf
    BY Names DEF LoopTypeOK, TcpTypeOK, HttpTypeOK, Live, NoHandle, Numbered,
       ModeAgrees
  <2> QED BY <2>1 DEF Inv, OneOwnerPerFd
<1> QED BY <1>1, <1>2, <1>3

(* The end of a batch. *)
LEMMA BatchDoneStep ==
  ASSUME Inv, BatchDone, UNCHANGED <<sockVars, tcpVars, httpVars>>
  PROVE  Inv'
<1> USE DEF Inv, TypeOK, sockVars, loopVars, tcpVars, httpVars, BatchDone
<1>1. SocketsTypeOK' /\ LoopTypeOK(Handle)' /\ TcpTypeOK' /\ Undispatched' /\
      Numbered' /\ Unborn' /\ OutputHasHandler' /\ RegistryAgrees' /\
      OneOwnerPerFd' /\ BatchStaysReady' /\ OutputIsWatched' /\
      ClosingHasOutput'
  BY DEF SocketsTypeOK, LoopTypeOK, TcpTypeOK, Undispatched, Numbered, Unborn,
      OutputHasHandler, RegistryAgrees, OneOwnerPerFd, Live, BatchStaysReady,
      Has, Readable, Writable, AtEnd, OutputIsWatched, ClosingHasOutput
<1>2. HttpTypeOK' /\ Control' /\ NoEventAfterClose' /\ ModeAgrees'
  BY Names DEF HttpTypeOK, Faults, Control, BatchStaysReady, LoopTypeOK,
      TcpTypeOK, NoEventAfterClose, ModeAgrees
<1> QED BY <1>1, <1>2

(* A ready handle is taken from the batch. *)
LEMMA DispatchStep ==
  ASSUME Inv, Dispatch, UNCHANGED <<sockVars, tcpVars, httpVars>>
  PROVE  Inv'
<1> USE DEF Inv, TypeOK, sockVars, loopVars, tcpVars, httpVars, Dispatch
<1>1. SocketsTypeOK' /\ TcpTypeOK' /\ Unborn' /\ OutputHasHandler' /\
      RegistryAgrees' /\ OutputIsWatched' /\ ClosingHasOutput'
  BY DEF SocketsTypeOK, TcpTypeOK, Unborn, OutputHasHandler, RegistryAgrees,
      OutputIsWatched, ClosingHasOutput
<1>2. LoopTypeOK(Handle)' /\ HttpTypeOK' /\ Control' /\ Undispatched' /\
      NoEventAfterClose' /\ Numbered' /\ ModeAgrees' /\ BatchStaysReady'
  BY Names DEF LoopTypeOK, TcpTypeOK, Bits, HttpTypeOK, Faults, Control,
      BatchStaysReady, Undispatched, RegistryAgrees, NoEventAfterClose,
      Numbered, ModeAgrees, Has, Readable, Writable, AtEnd
<1>3. OneOwnerPerFd'
  <2>1. Live' \subseteq Live /\ fdOf' = fdOf
    BY Names DEF LoopTypeOK, TcpTypeOK, Live, Conn, RegistryAgrees,
       BatchStaysReady, Numbered, Acceptor
  <2> QED BY <2>1 DEF Inv, OneOwnerPerFd
<1> QED BY <1>1, <1>2, <1>3

(* The selector's report is true of the kernel's state at that moment. *)
LEMMA SelectStep ==
  ASSUME Inv, Select(Ready), UNCHANGED <<sockVars, tcpVars, httpVars>>
  PROVE  Inv'
<1> USE DEF Inv, TypeOK, sockVars, loopVars, tcpVars, httpVars, Select, Ready
<1>1. SocketsTypeOK' /\ TcpTypeOK' /\ Numbered' /\ Unborn' /\
      OutputHasHandler' /\ RegistryAgrees' /\ OneOwnerPerFd' /\
      OutputIsWatched' /\ ClosingHasOutput'
  BY DEF SocketsTypeOK, TcpTypeOK, Numbered, Unborn, OutputHasHandler,
      RegistryAgrees, OneOwnerPerFd, Live, OutputIsWatched, ClosingHasOutput
<1>2. LoopTypeOK(Handle)' /\ HttpTypeOK' /\ Control' /\ Undispatched' /\
      NoEventAfterClose' /\ ModeAgrees' /\ BatchStaysReady'
  BY Names DEF LoopTypeOK, TcpTypeOK, Bits, HttpTypeOK, Faults, Control,
      BatchStaysReady, Undispatched, RegistryAgrees, NoEventAfterClose,
      ModeAgrees, Numbered, Has, Readable, Writable, AtEnd
<1> QED BY <1>1, <1>2

(* A signal stops the loop. *)
LEMMA SignalStep ==
  ASSUME Inv, Signal
  PROVE  Inv'
<1> USE DEF Inv, TypeOK, sockVars, loopVars, tcpVars, httpVars, Signal,
        Interrupted
<1>1. SocketsTypeOK' /\ LoopTypeOK(Handle)' /\ TcpTypeOK' /\ Undispatched' /\
      Numbered' /\ Unborn' /\ OutputHasHandler' /\ RegistryAgrees' /\
      OneOwnerPerFd' /\ BatchStaysReady' /\ OutputIsWatched' /\
      ClosingHasOutput'
  BY DEF SocketsTypeOK, LoopTypeOK, TcpTypeOK, Undispatched, Numbered, Unborn,
      OutputHasHandler, RegistryAgrees, OneOwnerPerFd, Live, BatchStaysReady,
      Has, Readable, Writable, AtEnd, OutputIsWatched, ClosingHasOutput
<1>2. HttpTypeOK' /\ Control' /\ NoEventAfterClose' /\ ModeAgrees'
  BY Names DEF HttpTypeOK, Faults, Control, BatchStaysReady, LoopTypeOK,
      TcpTypeOK, NoEventAfterClose, ModeAgrees
<1> QED BY <1>1, <1>2

(* A connection is accepted: its descriptor was nobody's, so nothing that is
   known of the others changes. *)
LEMMA AcceptStep ==
  ASSUME Inv, Accept
  PROVE  Inv'
<1> DEFINE n == max_connect_id + 1
<1>1. PICK fd \in Fd :
        /\ \A c \in Live : fdOf[c] # fd
        /\ handles' = [handles EXCEPT ![fd] = n]
        /\ interest' = [interest EXCEPT ![fd] = {"READ"}]
        /\ fdOf' = [fdOf EXCEPT ![n] = fd]
  BY DEF Accept, NewConnect, Free, Register, Newest
<1>2. /\ max_connect_id' = n /\ arrived >= n
      /\ streams' = streams \cup {n}
      /\ revents' = revents \ {"READ"} /\ cur = Acceptor
      /\ UNCHANGED <<active, cur, pc, rbuf, wbuf, closing, sockVars, httpVars>>
  BY DEF Accept, NewConnect, Accepting, Newest
<1>3. /\ n \in Conn /\ n > max_connect_id /\ max_connect_id \in Nat
      /\ n \notin streams
  BY <1>2, SocketsAssumption
  DEF Inv, Numbered, TypeOK, TcpTypeOK, SocketsTypeOK, Conn
<1>4. /\ handles[fd] = NoHandle /\ interest[fd] = {}
      /\ fd \in AnyFd /\ fd # ListenFd
  <2>1. \A c \in streams : c \in Live
    BY DEF Inv, TypeOK, TcpTypeOK, Numbered, Live, Conn
  <2> QED BY <1>1, <2>1, Names DEF Inv, TypeOK, LoopTypeOK, RegistryAgrees
<1>5. Live' = Live \cup {n}
  BY <1>2, <1>3, Names DEF Live, httpVars, Inv, Unborn, TypeOK, TcpTypeOK
<1> HIDE DEF n
<1> USE DEF Inv
<1>6. SocketsTypeOK' /\ HttpTypeOK'
  BY <1>2 DEF TypeOK, SocketsTypeOK, HttpTypeOK, sockVars, httpVars
<1>7. LoopTypeOK(Handle)'
  BY <1>1, <1>2, <1>3, Names DEF TypeOK, LoopTypeOK, Bits
<1>8. TcpTypeOK'
  BY <1>1, <1>2, <1>3, Names DEF TypeOK, TcpTypeOK, Conn
<1>9. Control' /\ Undispatched'
  BY <1>2, Names DEF Control, Undispatched
<1>10. Numbered'
  BY <1>1, <1>2, <1>3, <1>4, Names
  DEF Numbered, TypeOK, TcpTypeOK, SocketsTypeOK, sockVars, Conn, n
<1>11. Unborn'
  BY <1>2, <1>3 DEF Unborn, n, httpVars, Conn
<1>12. OutputHasHandler' /\ ClosingHasOutput'
  BY <1>2, <1>3 DEF OutputHasHandler, ClosingHasOutput, Unborn, httpVars
<1>13. \A c \in streams : fdOf'[c] = fdOf[c] /\ fdOf[c] # fd
  <2>1. \A c \in streams : c \in Live
    BY DEF TypeOK, TcpTypeOK, Numbered, Live, Conn
  <2> QED BY <1>1, <1>3, <2>1 DEF TypeOK, TcpTypeOK
<1>14. fdOf'[n] = fd
  BY <1>1, <1>3 DEF TypeOK, TcpTypeOK
<1>15. RegistryAgrees'
  BY <1>1, <1>2, <1>3, <1>4, <1>13, <1>14, Names
  DEF RegistryAgrees, TypeOK, LoopTypeOK, httpVars
<1>16. OneOwnerPerFd'
  <2>1. \A c \in Live : fdOf'[c] = fdOf[c] /\ fdOf[c] # fd /\ c # n
    BY <1>1, <1>3 DEF Live, TypeOK, TcpTypeOK, Conn
  <2> QED BY <2>1, <1>5, <1>14 DEF OneOwnerPerFd
<1>17. BatchStaysReady'
  <2>1. \A h \in Conn, b \in Bits : Has(h, b)' = Has(h, b)
    BY <1>2, Names DEF Has, Readable, Writable, AtEnd, sockVars
  <2>2. active[ListenFd] = {} /\ active[fd] = {} /\ revents' = {}
    BY <1>1, <1>2, <1>4, Names
    DEF Undispatched, BatchStaysReady, Has, TypeOK, LoopTypeOK, Bits
  <2>3. \A g \in AnyFd : g # fd => handles'[g] = handles[g]
    BY <1>1 DEF TypeOK, LoopTypeOK
  <2>4. \A g \in AnyFd : active[g] # {} => handles[g] \in Conn
    BY <2>2, Names DEF BatchStaysReady, RegistryAgrees, TypeOK, TcpTypeOK
  <2> QED BY <1>2, <2>1, <2>2, <2>3, <2>4
      DEF BatchStaysReady, TypeOK, LoopTypeOK
<1>18. NoEventAfterClose'
  BY <1>2, Names DEF NoEventAfterClose
<1>19. OutputIsWatched'
  BY <1>1, <1>2, <1>3, <1>4, <1>13, <1>14
  DEF OutputIsWatched, Unborn, TypeOK, LoopTypeOK, TcpTypeOK
<1>20. ModeAgrees'
  BY <1>2, <1>3, Names DEF ModeAgrees, Unborn, RegistryAgrees, Control,
     httpVars, TypeOK, HttpTypeOK, Accept, NewConnect, Accepting
<1> QED
  BY <1>6, <1>7, <1>8, <1>9, <1>10, <1>11, <1>12, <1>15, <1>16, <1>17,
     <1>18, <1>19, <1>20 DEF TypeOK

(* accept() fails. *)
LEMMA AcceptFailsStep ==
  ASSUME Inv, AcceptFails
  PROVE  Inv'
<1> USE DEF Inv, TypeOK, sockVars, loopVars, tcpVars, httpVars, AcceptFails,
        Abort
<1>1. SocketsTypeOK' /\ LoopTypeOK(Handle)' /\ TcpTypeOK' /\ Undispatched' /\
      Numbered' /\ Unborn' /\ OutputHasHandler' /\ RegistryAgrees' /\
      OneOwnerPerFd' /\ BatchStaysReady' /\ OutputIsWatched' /\
      ClosingHasOutput'
  BY DEF SocketsTypeOK, LoopTypeOK, TcpTypeOK, Undispatched, Numbered, Unborn,
      OutputHasHandler, RegistryAgrees, OneOwnerPerFd, Live, BatchStaysReady,
      Has, Readable, Writable, AtEnd, OutputIsWatched, ClosingHasOutput
<1>2. HttpTypeOK' /\ Control' /\ NoEventAfterClose' /\ ModeAgrees'
  BY Names DEF HttpTypeOK, Faults, Control, BatchStaysReady, LoopTypeOK,
      TcpTypeOK, NoEventAfterClose, ModeAgrees
<1> QED BY <1>1, <1>2

(* getpeername() fails. *)
LEMMA AcceptResetStep ==
  ASSUME Inv, AcceptReset
  PROVE  Inv'
<1> USE DEF Inv, TypeOK, sockVars, loopVars, tcpVars, httpVars, AcceptReset,
        Abort
<1>1. SocketsTypeOK' /\ LoopTypeOK(Handle)' /\ TcpTypeOK' /\ Undispatched' /\
      Numbered' /\ Unborn' /\ OutputHasHandler' /\ RegistryAgrees' /\
      OneOwnerPerFd' /\ BatchStaysReady' /\ OutputIsWatched' /\
      ClosingHasOutput'
  BY DEF SocketsTypeOK, LoopTypeOK, TcpTypeOK, Undispatched, Numbered, Unborn,
      OutputHasHandler, RegistryAgrees, OneOwnerPerFd, Live, BatchStaysReady,
      Has, Readable, Writable, AtEnd, OutputIsWatched, ClosingHasOutput
<1>2. HttpTypeOK' /\ Control' /\ NoEventAfterClose' /\ ModeAgrees'
  BY Names DEF HttpTypeOK, Faults, Control, BatchStaysReady, LoopTypeOK,
      TcpTypeOK, NoEventAfterClose, ModeAgrees
<1> QED BY <1>1, <1>2

-----------------------------------------------------------------------------
(* TcpStream::handle_read.  close() is proved in two parts, by whether the
   stream has output: it closes now or later. *)

(* End of stream, nothing to send: the stream is closed in its handler. *)
LEMMA ReadEndNowStep ==
  ASSUME Inv, NEW c \in Conn, ReadEnd(c), wbuf[c] = 0
  PROVE  Inv'
<1> USE DEF Inv, TypeOK, sockVars, loopVars, tcpVars, httpVars, ReadEnd,
        Reading, Receive, Close, MarkClosing, HttpCloseConnect, CloseConnect,
        Unregister
<1>1. Undispatched'
  BY DEF Undispatched
<1>2. SocketsTypeOK' /\ LoopTypeOK(Handle)'
  BY DataFacts, Names DEF SocketsTypeOK, LoopTypeOK
<1>3. TcpTypeOK' /\ HttpTypeOK'
  BY DataFacts DEF SocketsTypeOK, TcpTypeOK, HttpTypeOK, Faults
<1>4. Control' /\ NoEventAfterClose' /\ Numbered'
  BY Names DEF Control, BatchStaysReady, LoopTypeOK, TcpTypeOK,
      NoEventAfterClose, RegistryAgrees, Numbered
<1>5. Unborn'
  BY DEF LoopTypeOK, TcpTypeOK, HttpTypeOK, Numbered, Unborn, Conn
<1>6. OutputHasHandler' /\ OutputIsWatched' /\ ClosingHasOutput'
  BY Names DEF TcpTypeOK, HttpTypeOK, OutputHasHandler, ModeAgrees,
      LoopTypeOK, OutputIsWatched, NoEventAfterClose, ClosingHasOutput
<1>7. RegistryAgrees' /\ ModeAgrees' /\ BatchStaysReady'
  BY Names DEF LoopTypeOK, TcpTypeOK, HttpTypeOK, RegistryAgrees,
      NoEventAfterClose, ModeAgrees, Numbered, BatchStaysReady, Control,
      Undispatched, Has, Readable, Writable, AtEnd
<1>8. OneOwnerPerFd'
  <2>1. Live' \subseteq Live /\ fdOf' = fdOf
    BY Names DEF LoopTypeOK, TcpTypeOK, HttpTypeOK, Live, NoHandle, Numbered,
       ModeAgrees
  <2> QED BY <2>1 DEF Inv, OneOwnerPerFd
<1> QED BY <1>1, <1>2, <1>3, <1>4, <1>5, <1>6, <1>7, <1>8

(* End of stream with output left: the stream is marked. *)
LEMMA ReadEndLaterStep ==
  ASSUME Inv, NEW c \in Conn, ReadEnd(c), wbuf[c] > 0
  PROVE  Inv'
<1> USE DEF Inv, TypeOK, sockVars, loopVars, tcpVars, httpVars, ReadEnd,
        Reading, Receive, Close, MarkClosing
<1>1. Undispatched' /\ Numbered' /\ OutputHasHandler' /\ RegistryAgrees' /\
      OneOwnerPerFd' /\ OutputIsWatched'
  BY DEF Undispatched, Numbered, OutputHasHandler, RegistryAgrees,
      OneOwnerPerFd, Live, OutputIsWatched
<1>2. SocketsTypeOK' /\ TcpTypeOK' /\ HttpTypeOK' /\ Control' /\
      NoEventAfterClose' /\ ClosingHasOutput' /\ ModeAgrees'
  BY DataFacts, Names DEF SocketsTypeOK, TcpTypeOK, HttpTypeOK, Faults,
      Control, BatchStaysReady, LoopTypeOK, NoEventAfterClose, RegistryAgrees,
      ClosingHasOutput, ModeAgrees
<1>3. BatchStaysReady'
  BY Names DEF LoopTypeOK, TcpTypeOK, HttpTypeOK, BatchStaysReady, Control,
      Undispatched, RegistryAgrees, NoEventAfterClose, ModeAgrees, Has,
      Readable, Writable, AtEnd
<1>4. LoopTypeOK(Handle)'
  <2>1. /\ revents' = revents \ {"READ"}
        /\ UNCHANGED <<handles, interest, active, cur>>
    BY CloseLater DEF ReadEnd
  <2> QED BY <2>1 DEF LoopTypeOK
<1>5. Unborn'
  <2>1. MarkClosing(c) /\ UNCHANGED readingLine
    BY CloseLater DEF ReadEnd
  <2>2. ~(c > max_connect_id)
    BY Names DEF Inv, Numbered, ModeAgrees, ReadEnd, Reading, TakesMessage,
       TypeOK, TcpTypeOK, Conn
  <2>3. \A d \in Conn : d > max_connect_id => d # c
    BY <2>2
  <2> QED BY <2>1, <2>3 DEF TcpTypeOK, MarkClosing, Unborn, ReadEnd, Receive,
     TakesMessage
<1> QED BY <1>1, <1>2, <1>3, <1>4, <1>5

(* Data arrive; the httpHandle is made at the first. *)
LEMMA ReadDataStep ==
  ASSUME Inv, NEW c \in Conn, ReadData(c)
  PROVE  Inv'
<1> USE DEF Inv, TypeOK, sockVars, loopVars, tcpVars, httpVars, ReadData,
        Reading, Receive
<1>1. Undispatched' /\ Numbered' /\ Unborn' /\ OneOwnerPerFd' /\
      OutputIsWatched' /\ ClosingHasOutput'
  BY DEF Undispatched, Numbered, Unborn, OneOwnerPerFd, Live, OutputIsWatched,
      ClosingHasOutput
<1>2. TypeOK' /\ Control' /\ NoEventAfterClose' /\ OutputHasHandler' /\
      RegistryAgrees'
  BY DataFacts, Names DEF SocketsTypeOK, TcpTypeOK, LoopTypeOK, Bits,
      HttpTypeOK, Faults, Control, BatchStaysReady, NoEventAfterClose,
      RegistryAgrees, OutputHasHandler
<1>3. BatchStaysReady'
  BY Names DEF LoopTypeOK, TcpTypeOK, HttpTypeOK, BatchStaysReady, Control,
      Undispatched, RegistryAgrees, NoEventAfterClose, ModeAgrees, Has,
      Readable, Writable, AtEnd
<1>4. ModeAgrees'
  <2>1. c \in streams
    BY Names DEF Inv, NoEventAfterClose, ReadData, Reading
  <2>2. inq[c] # Nothing
    BY Names DEF Inv, BatchStaysReady, ReadData, Reading, Has, Readable
  <2>3. rbuf'[c] # Nothing
    BY <2>2, DataFacts DEF SocketsTypeOK, TcpTypeOK, ReadData, Receive
  <2> QED BY <2>1, <2>3 DEF TcpTypeOK, HttpTypeOK, ReadData, Reading,
     ModeAgrees
<1> QED BY <1>1, <1>2, <1>3, <1>4

-----------------------------------------------------------------------------
(* Lines. *)

(* A line that is only kept. *)
LEMMA LineHeldStep ==
  ASSUME Inv, NEW c \in Conn, LineHeld(c)
  PROVE  Inv'
<1> USE DEF Inv, TypeOK, sockVars, loopVars, tcpVars, httpVars, LineHeld,
        TakesLine
<1>1. SocketsTypeOK' /\ LoopTypeOK(Handle)' /\ HttpTypeOK' /\ Control' /\
      Undispatched' /\ Numbered' /\ Unborn' /\ OutputHasHandler' /\
      RegistryAgrees' /\ OneOwnerPerFd' /\ BatchStaysReady' /\
      NoEventAfterClose' /\ OutputIsWatched' /\ ClosingHasOutput'
  BY DEF SocketsTypeOK, LoopTypeOK, HttpTypeOK, Control, Undispatched,
      Numbered, Unborn, OutputHasHandler, RegistryAgrees, OneOwnerPerFd, Live,
      BatchStaysReady, Has, Readable, Writable, AtEnd, NoEventAfterClose,
      OutputIsWatched, ClosingHasOutput
<1>2. TcpTypeOK' /\ ModeAgrees'
  BY DataFacts, Names DEF SocketsTypeOK, TcpTypeOK, LoopTypeOK, HttpTypeOK,
      ModeAgrees
<1> QED BY <1>1, <1>2

(* A GET: reply and mark. *)
LEMMA LineGetStep ==
  ASSUME Inv, NEW c \in Conn, LineGet(c)
  PROVE  Inv'
<1> USE DEF Inv, TypeOK, sockVars, loopVars, tcpVars, httpVars, LineGet,
        TakesLine, Send, EnableWrite, MarkClosing
<1>1. SocketsTypeOK' /\ HttpTypeOK' /\ Control' /\ Undispatched' /\ Numbered'
      /\ OneOwnerPerFd' /\ BatchStaysReady' /\ NoEventAfterClose'
  BY DEF SocketsTypeOK, HttpTypeOK, Control, Undispatched, Numbered,
      OneOwnerPerFd, Live, BatchStaysReady, Has, Readable, Writable, AtEnd,
      NoEventAfterClose
<1>2. LoopTypeOK(Handle)' /\ TcpTypeOK' /\ Unborn'
  BY SMTT(30), Names, DataFacts DEF LoopTypeOK, TcpTypeOK, Bits, SocketsTypeOK,
      HttpTypeOK, Numbered, Unborn, Conn
<1>3. OutputHasHandler' /\ ClosingHasOutput'
  BY DEF TcpTypeOK, HttpTypeOK, OutputHasHandler, ModeAgrees, ClosingHasOutput
<1>4. RegistryAgrees' /\ OutputIsWatched' /\ ModeAgrees'
  BY Names DEF LoopTypeOK, TcpTypeOK, HttpTypeOK, ModeAgrees, RegistryAgrees,
      OutputIsWatched
<1> QED BY <1>1, <1>2, <1>3, <1>4

(* A refused request: reply. *)
LEMMA LineRefusedStep ==
  ASSUME Inv, NEW c \in Conn, LineRefused(c)
  PROVE  Inv'
<1> USE DEF Inv, TypeOK, sockVars, loopVars, tcpVars, httpVars, LineRefused,
        TakesLine, Send, EnableWrite
<1>1. SocketsTypeOK' /\ HttpTypeOK' /\ Control' /\ Undispatched' /\ Numbered'
      /\ OneOwnerPerFd' /\ BatchStaysReady' /\ NoEventAfterClose'
  BY DEF SocketsTypeOK, HttpTypeOK, Control, Undispatched, Numbered,
      OneOwnerPerFd, Live, BatchStaysReady, Has, Readable, Writable, AtEnd,
      NoEventAfterClose
<1>2. LoopTypeOK(Handle)' /\ TcpTypeOK' /\ Unborn'
  BY SMTT(30), Names, DataFacts DEF LoopTypeOK, TcpTypeOK, Bits, SocketsTypeOK,
      HttpTypeOK, Numbered, Unborn, Conn
<1>3. OutputHasHandler' /\ ClosingHasOutput'
  BY DEF TcpTypeOK, HttpTypeOK, OutputHasHandler, ModeAgrees, ClosingHasOutput
<1>4. RegistryAgrees' /\ OutputIsWatched' /\ ModeAgrees'
  BY Names DEF LoopTypeOK, TcpTypeOK, HttpTypeOK, ModeAgrees, RegistryAgrees,
      OutputIsWatched
<1> QED BY <1>1, <1>2, <1>3, <1>4

(* The upgrade: both sides switch in one step. *)
LEMMA LineUpgradeStep ==
  ASSUME Inv, NEW c \in Conn, LineUpgrade(c)
  PROVE  Inv'
<1> USE DEF Inv, TypeOK, sockVars, loopVars, tcpVars, httpVars, LineUpgrade,
        TakesLine, SwitchToWS, Send, EnableWrite
<1>1. SocketsTypeOK' /\ Control' /\ Undispatched' /\ Numbered' /\
      OneOwnerPerFd' /\ BatchStaysReady' /\ NoEventAfterClose'
  BY DEF SocketsTypeOK, Control, Undispatched, Numbered, OneOwnerPerFd, Live,
      BatchStaysReady, Has, Readable, Writable, AtEnd, NoEventAfterClose
<1>2. LoopTypeOK(Handle)' /\ TcpTypeOK' /\ HttpTypeOK' /\ Unborn'
  BY Names, DataFacts DEF LoopTypeOK, TcpTypeOK, Bits, SocketsTypeOK,
      HttpTypeOK, Faults, Numbered, Unborn, Conn
<1>3. OutputHasHandler' /\ ClosingHasOutput'
  BY DEF TcpTypeOK, HttpTypeOK, OutputHasHandler, ModeAgrees, ClosingHasOutput
<1>4. RegistryAgrees' /\ OutputIsWatched' /\ ModeAgrees'
  BY Names DEF LoopTypeOK, TcpTypeOK, HttpTypeOK, ModeAgrees, RegistryAgrees,
      OutputIsWatched
<1> QED BY <1>1, <1>2, <1>3, <1>4

(* A failed upgrade switches too. *)
LEMMA LineBadUpgradeStep ==
  ASSUME Inv, NEW c \in Conn, LineBadUpgrade(c)
  PROVE  Inv'
<1> USE DEF Inv, TypeOK, sockVars, loopVars, tcpVars, httpVars,
        LineBadUpgrade, TakesLine, SwitchToWS
<1>1. SocketsTypeOK' /\ LoopTypeOK(Handle)' /\ Control' /\ Undispatched' /\
      Numbered' /\ BatchStaysReady' /\ NoEventAfterClose' /\ OutputIsWatched'
      /\ ClosingHasOutput'
  BY DEF SocketsTypeOK, LoopTypeOK, Control, Undispatched, Numbered,
      BatchStaysReady, Has, Readable, Writable, AtEnd, NoEventAfterClose,
      OutputIsWatched, ClosingHasOutput
<1>2. TcpTypeOK' /\ HttpTypeOK' /\ Unborn' /\ OutputHasHandler' /\
      RegistryAgrees' /\ ModeAgrees'
  BY DataFacts, Names DEF SocketsTypeOK, TcpTypeOK, HttpTypeOK, Faults,
      LoopTypeOK, Numbered, Unborn, ModeAgrees, Conn, OutputHasHandler,
      RegistryAgrees
<1>3. OneOwnerPerFd'
  <2>1. Live' \subseteq Live /\ fdOf' = fdOf
    BY Names DEF LoopTypeOK, TcpTypeOK, HttpTypeOK, Live, NoHandle, Numbered,
       ModeAgrees
  <2> QED BY <2>1 DEF Inv, OneOwnerPerFd
<1> QED BY <1>1, <1>2, <1>3

(* A line to a WSHandle. *)
LEMMA LineRaisesStep ==
  ASSUME Inv, NEW c \in Conn, LineRaises(c)
  PROVE  Inv'
<1> USE DEF Inv, TypeOK, sockVars, loopVars, tcpVars, httpVars, LineRaises,
        TakesLine
<1>1. SocketsTypeOK' /\ LoopTypeOK(Handle)' /\ Control' /\ Undispatched' /\
      Numbered' /\ OutputHasHandler' /\ RegistryAgrees' /\ BatchStaysReady' /\
      NoEventAfterClose' /\ OutputIsWatched' /\ ClosingHasOutput'
  BY DEF SocketsTypeOK, LoopTypeOK, Control, Undispatched, Numbered,
      OutputHasHandler, RegistryAgrees, BatchStaysReady, Has, Readable,
      Writable, AtEnd, NoEventAfterClose, OutputIsWatched, ClosingHasOutput
<1>2. TcpTypeOK' /\ HttpTypeOK' /\ Unborn' /\ ModeAgrees'
  BY DataFacts, Names DEF SocketsTypeOK, TcpTypeOK, HttpTypeOK, Faults,
      LoopTypeOK, Numbered, Unborn, ModeAgrees
<1>3. OneOwnerPerFd'
  <2>1. Live' \subseteq Live /\ fdOf' = fdOf
    BY Names DEF LoopTypeOK, TcpTypeOK, HttpTypeOK, Live, NoHandle, Numbered,
       ModeAgrees
  <2> QED BY <2>1 DEF Inv, OneOwnerPerFd
<1> QED BY <1>1, <1>2, <1>3

(* No line is left. *)
LEMMA LinesDoneStep ==
  ASSUME Inv, NEW c \in Conn, LinesDone(c)
  PROVE  Inv'
<1> USE DEF Inv, TypeOK, sockVars, loopVars, tcpVars, httpVars, LinesDone
<1>1. SocketsTypeOK' /\ LoopTypeOK(Handle)' /\ TcpTypeOK' /\ Undispatched' /\
      Numbered' /\ Unborn' /\ OutputHasHandler' /\ RegistryAgrees' /\
      OneOwnerPerFd' /\ BatchStaysReady' /\ OutputIsWatched' /\
      ClosingHasOutput'
  BY DEF SocketsTypeOK, LoopTypeOK, TcpTypeOK, Undispatched, Numbered, Unborn,
      OutputHasHandler, RegistryAgrees, OneOwnerPerFd, Live, BatchStaysReady,
      Has, Readable, Writable, AtEnd, OutputIsWatched, ClosingHasOutput
<1>2. HttpTypeOK' /\ Control' /\ NoEventAfterClose' /\ ModeAgrees'
  BY Names DEF HttpTypeOK, Faults, Control, BatchStaysReady, LoopTypeOK,
      TcpTypeOK, NoEventAfterClose, ModeAgrees
<1> QED BY <1>1, <1>2

-----------------------------------------------------------------------------
(* Messages. *)

(* An unfinished frame. *)
LEMMA MessagePartStep ==
  ASSUME Inv, NEW c \in Conn, MessagePart(c)
  PROVE  Inv'
<1> USE DEF Inv, TypeOK, sockVars, loopVars, tcpVars, httpVars, MessagePart,
        TakesMessage
<1>1. SocketsTypeOK' /\ LoopTypeOK(Handle)' /\ Undispatched' /\ Numbered' /\
      OutputHasHandler' /\ RegistryAgrees' /\ BatchStaysReady' /\
      OutputIsWatched' /\ ClosingHasOutput'
  BY DEF SocketsTypeOK, LoopTypeOK, Undispatched, Numbered, OutputHasHandler,
      RegistryAgrees, BatchStaysReady, Has, Readable, Writable, AtEnd,
      OutputIsWatched, ClosingHasOutput
<1>2. TcpTypeOK' /\ HttpTypeOK' /\ Control' /\ NoEventAfterClose'
  BY DataFacts, Names DEF SocketsTypeOK, TcpTypeOK, HttpTypeOK, Faults,
      Control, BatchStaysReady, NoEventAfterClose
<1>3. Unborn' /\ ModeAgrees'
  BY Names DEF LoopTypeOK, TcpTypeOK, HttpTypeOK, Numbered, Unborn, ModeAgrees
<1>4. OneOwnerPerFd'
  <2>1. Live' \subseteq Live /\ fdOf' = fdOf
    BY Names DEF LoopTypeOK, TcpTypeOK, HttpTypeOK, Live, NoHandle, Numbered,
       ModeAgrees
  <2> QED BY <2>1 DEF Inv, OneOwnerPerFd
<1> QED BY <1>1, <1>2, <1>3, <1>4

(* A finished frame: reply. *)
LEMMA MessageEchoStep ==
  ASSUME Inv, NEW c \in Conn, MessageEcho(c)
  PROVE  Inv'
<1> USE DEF Inv, TypeOK, sockVars, loopVars, tcpVars, httpVars, MessageEcho,
        TakesMessage, Send, EnableWrite
<1>1. SocketsTypeOK' /\ Undispatched' /\ Numbered' /\ BatchStaysReady'
  BY DEF SocketsTypeOK, Undispatched, Numbered, BatchStaysReady, Has,
      Readable, Writable, AtEnd
<1>2. LoopTypeOK(Handle)' /\ TcpTypeOK' /\ HttpTypeOK' /\ Control' /\
      NoEventAfterClose'
  BY Names, DataFacts DEF LoopTypeOK, TcpTypeOK, Bits, SocketsTypeOK,
      HttpTypeOK, Faults, Control, NoEventAfterClose
<1>3. Unborn' /\ OutputHasHandler' /\ OutputIsWatched' /\ ClosingHasOutput'
  BY Names DEF LoopTypeOK, TcpTypeOK, HttpTypeOK, Numbered, Unborn,
      ModeAgrees, Conn, OutputHasHandler, OutputIsWatched, RegistryAgrees,
      ClosingHasOutput
<1>4. RegistryAgrees' /\ ModeAgrees'
  BY Names DEF LoopTypeOK, TcpTypeOK, HttpTypeOK, RegistryAgrees, ModeAgrees
<1>5. OneOwnerPerFd'
  <2>1. Live' \subseteq Live /\ fdOf' = fdOf
    BY Names DEF LoopTypeOK, TcpTypeOK, HttpTypeOK, Live, NoHandle, Numbered,
       ModeAgrees
  <2> QED BY <2>1 DEF Inv, OneOwnerPerFd
<1> QED BY <1>1, <1>2, <1>3, <1>4, <1>5

(* A close frame, nothing to send. *)
LEMMA MessageCloseNowStep ==
  ASSUME Inv, NEW c \in Conn, MessageClose(c), wbuf[c] = 0
  PROVE  Inv'
<1> USE DEF Inv, TypeOK, sockVars, loopVars, tcpVars, httpVars, MessageClose,
        TakesMessage, Close, MarkClosing, HttpCloseConnect, CloseConnect,
        Unregister
<1>1. SocketsTypeOK' /\ Undispatched'
  BY DEF SocketsTypeOK, Undispatched
<1>2. LoopTypeOK(Handle)' /\ TcpTypeOK'
  BY Names, DataFacts DEF LoopTypeOK, TcpTypeOK
<1>3. HttpTypeOK' /\ Control' /\ NoEventAfterClose'
  BY Names DEF HttpTypeOK, Faults, Control, BatchStaysReady, LoopTypeOK,
      NoEventAfterClose, RegistryAgrees
<1>4. Numbered'
  BY Names DEF LoopTypeOK, TcpTypeOK, Numbered
<1>5. Unborn'
  BY DEF LoopTypeOK, TcpTypeOK, HttpTypeOK, Numbered, Unborn, ModeAgrees
<1>6. OutputHasHandler' /\ OutputIsWatched' /\ ClosingHasOutput' /\
      RegistryAgrees' /\ ModeAgrees' /\ BatchStaysReady'
  BY Names DEF TcpTypeOK, HttpTypeOK, OutputHasHandler, ModeAgrees,
      LoopTypeOK, OutputIsWatched, RegistryAgrees, NoEventAfterClose,
      ClosingHasOutput, Numbered, BatchStaysReady, Control, Undispatched, Has,
      Readable, Writable, AtEnd
<1>7. OneOwnerPerFd'
  <2>1. Live' \subseteq Live /\ fdOf' = fdOf
    BY Names DEF LoopTypeOK, TcpTypeOK, HttpTypeOK, Live, NoHandle, Numbered,
       ModeAgrees
  <2> QED BY <2>1 DEF Inv, OneOwnerPerFd
<1> QED BY <1>1, <1>2, <1>3, <1>4, <1>5, <1>6, <1>7

(* A close frame with output left. *)
LEMMA MessageCloseLaterStep ==
  ASSUME Inv, NEW c \in Conn, MessageClose(c), wbuf[c] > 0
  PROVE  Inv'
<1> USE DEF Inv, TypeOK, sockVars, loopVars, tcpVars, httpVars, MessageClose,
        TakesMessage, Close, MarkClosing
<1>1. SocketsTypeOK' /\ Undispatched' /\ Numbered' /\ OutputHasHandler' /\
      RegistryAgrees' /\ OutputIsWatched'
  <2>1. MarkClosing(c) /\ revents' = revents
        /\ UNCHANGED <<streams, handles, interest, active, cur, py>>
    BY CloseLater
  <2> QED
    BY <2>1 DEF SocketsTypeOK, Undispatched, Numbered, OutputHasHandler,
       RegistryAgrees, OutputIsWatched
<1>2. TcpTypeOK' /\ HttpTypeOK' /\ Control' /\ NoEventAfterClose'
  BY DataFacts, Names DEF SocketsTypeOK, TcpTypeOK, HttpTypeOK, Faults,
      Control, BatchStaysReady, NoEventAfterClose
<1>3. ClosingHasOutput' /\ ModeAgrees'
  BY Names DEF TcpTypeOK, ClosingHasOutput, ModeAgrees, OutputIsWatched,
      LoopTypeOK, HttpTypeOK
<1>4. BatchStaysReady'
  BY Names DEF LoopTypeOK, TcpTypeOK, HttpTypeOK, BatchStaysReady, Control,
      Undispatched, RegistryAgrees, NoEventAfterClose, ModeAgrees, Has,
      Readable, Writable, AtEnd
<1>5. LoopTypeOK(Handle)'
  <2>1. revents' = revents /\ UNCHANGED <<handles, interest, active, cur>>
    BY CloseLater DEF MessageClose
  <2> QED BY <2>1 DEF LoopTypeOK
<1>6. Unborn'
  <2>1. MarkClosing(c) /\ UNCHANGED readingLine
    BY CloseLater DEF MessageClose
  <2>2. ~(c > max_connect_id)
    BY Names DEF Inv, Numbered, ModeAgrees, MessageClose, Reading,
       TakesMessage, TypeOK, TcpTypeOK, Conn
  <2>3. \A d \in Conn : d > max_connect_id => d # c
    BY <2>2
  <2> QED BY <2>1, <2>3 DEF TcpTypeOK, MarkClosing, Unborn, MessageClose,
     Receive, TakesMessage
<1>7. OneOwnerPerFd'
  <2>1. Live' \subseteq Live /\ fdOf' = fdOf
    BY Names DEF LoopTypeOK, TcpTypeOK, HttpTypeOK, Live, NoHandle, Numbered,
       ModeAgrees
  <2> QED BY <2>1 DEF Inv, OneOwnerPerFd
<1> QED BY <1>1, <1>2, <1>3, <1>4, <1>5, <1>6, <1>7

(* WSFrame.on_read raises. *)
LEMMA MessageRaisesStep ==
  ASSUME Inv, NEW c \in Conn, MessageRaises(c)
  PROVE  Inv'
<1> USE DEF Inv, TypeOK, sockVars, loopVars, tcpVars, httpVars, MessageRaises,
        TakesMessage
<1>1. SocketsTypeOK' /\ LoopTypeOK(Handle)' /\ Undispatched' /\ Numbered' /\
      OutputHasHandler' /\ RegistryAgrees' /\ BatchStaysReady' /\
      OutputIsWatched' /\ ClosingHasOutput'
  BY DEF SocketsTypeOK, LoopTypeOK, Undispatched, Numbered, OutputHasHandler,
      RegistryAgrees, BatchStaysReady, Has, Readable, Writable, AtEnd,
      OutputIsWatched, ClosingHasOutput
<1>2. TcpTypeOK' /\ HttpTypeOK' /\ Control' /\ NoEventAfterClose'
  BY DataFacts, Names DEF SocketsTypeOK, TcpTypeOK, HttpTypeOK, Faults,
      Control, BatchStaysReady, NoEventAfterClose
<1>3. Unborn' /\ ModeAgrees'
  BY Names DEF LoopTypeOK, TcpTypeOK, HttpTypeOK, Numbered, Unborn, ModeAgrees
<1>4. OneOwnerPerFd'
  <2>1. Live' \subseteq Live /\ fdOf' = fdOf
    BY Names DEF LoopTypeOK, TcpTypeOK, HttpTypeOK, Live, NoHandle, Numbered,
       ModeAgrees
  <2> QED BY <2>1 DEF Inv, OneOwnerPerFd
<1> QED BY <1>1, <1>2, <1>3, <1>4

-----------------------------------------------------------------------------
(* TcpStream::handle_write. *)

(* send() fails for good: the stream is marked. *)
LEMMA WriteFailsStep ==
  ASSUME Inv, NEW c \in Conn, WriteFails(c), UNCHANGED httpVars
  PROVE  Inv'
<1> USE DEF Inv, TypeOK, sockVars, loopVars, tcpVars, httpVars, WriteFails,
        Writing, MarkClosing
<1>1. SocketsTypeOK' /\ HttpTypeOK' /\ Undispatched' /\ Numbered' /\
      OutputHasHandler' /\ RegistryAgrees' /\ OneOwnerPerFd' /\
      OutputIsWatched' /\ ModeAgrees'
  BY DEF SocketsTypeOK, HttpTypeOK, Undispatched, Numbered, OutputHasHandler,
      RegistryAgrees, OneOwnerPerFd, Live, OutputIsWatched, ModeAgrees
<1>2. LoopTypeOK(Handle)' /\ TcpTypeOK' /\ Control' /\ NoEventAfterClose' /\
      Unborn' /\ ClosingHasOutput'
  BY Names, DataFacts DEF LoopTypeOK, TcpTypeOK, Bits, SocketsTypeOK, Control,
      BatchStaysReady, NoEventAfterClose, RegistryAgrees, HttpTypeOK,
      Numbered, Unborn, ModeAgrees, ClosingHasOutput, OutputIsWatched
<1>3. BatchStaysReady'
  BY Names DEF LoopTypeOK, TcpTypeOK, HttpTypeOK, BatchStaysReady, Control,
      Undispatched, RegistryAgrees, NoEventAfterClose, ModeAgrees, Has,
      Readable, Writable, AtEnd
<1> QED BY <1>1, <1>2, <1>3

(* The kernel takes a part. *)
LEMMA WritePartStep ==
  ASSUME Inv, NEW c \in Conn, WritePart(c), UNCHANGED httpVars
  PROVE  Inv'
<1> USE DEF Inv, TypeOK, sockVars, loopVars, tcpVars, httpVars, WritePart,
        Writing, Room
<1>1. HttpTypeOK' /\ Undispatched' /\ Numbered' /\ RegistryAgrees' /\
      OneOwnerPerFd' /\ ModeAgrees'
  BY DEF HttpTypeOK, Undispatched, Numbered, RegistryAgrees, OneOwnerPerFd,
      Live, ModeAgrees
<1>2. SocketsTypeOK' /\ LoopTypeOK(Handle)' /\ TcpTypeOK' /\ Control' /\
      NoEventAfterClose'
  BY DataFacts, SocketsAssumption, Names DEF SocketsTypeOK, TcpTypeOK,
      LoopTypeOK, Bits, Control, NoEventAfterClose
<1>3. Unborn'
  BY DEF LoopTypeOK, TcpTypeOK, HttpTypeOK, Numbered, Unborn, Conn
<1>4. OutputHasHandler' /\ OutputIsWatched' /\ ClosingHasOutput'
  BY SocketsAssumption, Names DEF TcpTypeOK, HttpTypeOK, OutputHasHandler,
      ModeAgrees, SocketsTypeOK, LoopTypeOK, OutputIsWatched, ClosingHasOutput
<1>5. BatchStaysReady'
  <2>1. \A h \in Handle, b \in Bits : h # c => (Has(h, b) => Has(h, b)')
    BY Names DEF SocketsTypeOK, Has, Readable, Writable, AtEnd
  <2>2. active[fdOf[c]] = {} /\ handles[fdOf[c]] = c /\ revents' = {}
    BY Names DEF LoopTypeOK, Undispatched, RegistryAgrees, NoEventAfterClose,
       Bits
  <2> QED BY <2>1, <2>2, Names DEF LoopTypeOK, BatchStaysReady, RegistryAgrees
<1> QED BY <1>1, <1>2, <1>3, <1>4, <1>5

(* The kernel takes everything. *)
LEMMA WriteAllStep ==
  ASSUME Inv, NEW c \in Conn, WriteAll(c), UNCHANGED httpVars
  PROVE  Inv'
<1> USE DEF Inv, TypeOK, sockVars, loopVars, tcpVars, httpVars, WriteAll,
        Writing, Room, DisableWrite
<1>1. HttpTypeOK' /\ Undispatched' /\ Numbered' /\ OneOwnerPerFd' /\
      ModeAgrees'
  BY DEF HttpTypeOK, Undispatched, Numbered, OneOwnerPerFd, Live, ModeAgrees
<1>2. SocketsTypeOK' /\ LoopTypeOK(Handle)' /\ TcpTypeOK' /\ Control' /\
      NoEventAfterClose'
  BY DataFacts, SocketsAssumption, Names DEF SocketsTypeOK, TcpTypeOK,
      LoopTypeOK, Bits, Control, NoEventAfterClose
<1>3. Unborn' /\ OutputHasHandler' /\ OutputIsWatched' /\ ClosingHasOutput'
  BY Names DEF LoopTypeOK, TcpTypeOK, HttpTypeOK, Numbered, Unborn,
      ModeAgrees, Conn, OutputHasHandler, OutputIsWatched, RegistryAgrees,
      NoEventAfterClose, ClosingHasOutput
<1>4. RegistryAgrees'
  BY Names DEF LoopTypeOK, TcpTypeOK, HttpTypeOK, RegistryAgrees
<1>5. BatchStaysReady'
  <2>1. \A h \in Handle, b \in Bits : h # c => (Has(h, b) => Has(h, b)')
    BY Names DEF SocketsTypeOK, Has, Readable, Writable, AtEnd
  <2>2. active[fdOf[c]] = {} /\ handles[fdOf[c]] = c /\ revents' = {}
    BY Names DEF LoopTypeOK, Undispatched, RegistryAgrees, NoEventAfterClose,
       Bits
  <2> QED BY <2>1, <2>2, Names DEF LoopTypeOK, BatchStaysReady, RegistryAgrees
<1> QED BY <1>1, <1>2, <1>3, <1>4, <1>5

(* The kernel takes the last of a closing stream, which is closed. *)
LEMMA WriteCloseStep ==
  ASSUME Inv, NEW c \in Conn, WriteClose(c)
  PROVE  Inv'
<1> USE DEF Inv, TypeOK, sockVars, loopVars, tcpVars, httpVars, WriteClose,
        WriteLast, Writing, Room, HttpCloseConnect, CloseConnect, Unregister
<1>1. Undispatched'
  BY DEF Undispatched
<1>2. TypeOK' /\ Control' /\ NoEventAfterClose'
  BY DataFacts, SocketsAssumption, Names DEF SocketsTypeOK, TcpTypeOK,
      LoopTypeOK, Bits, HttpTypeOK, Faults, Control, NoEventAfterClose,
      RegistryAgrees
<1>3. Numbered' /\ Unborn' /\ OutputHasHandler' /\ OutputIsWatched' /\
      ClosingHasOutput'
  BY Names DEF LoopTypeOK, TcpTypeOK, Numbered, RegistryAgrees,
      NoEventAfterClose, HttpTypeOK, Unborn, ModeAgrees, Conn,
      OutputHasHandler, OutputIsWatched, ClosingHasOutput
<1>4. RegistryAgrees' /\ ModeAgrees' /\ BatchStaysReady'
  BY Names DEF LoopTypeOK, TcpTypeOK, HttpTypeOK, RegistryAgrees,
      NoEventAfterClose, ModeAgrees, Numbered, BatchStaysReady, Control,
      Undispatched, Has, Readable, Writable, AtEnd
<1>5. OneOwnerPerFd'
  <2>1. Live' \subseteq Live /\ fdOf' = fdOf
    BY Names DEF LoopTypeOK, TcpTypeOK, HttpTypeOK, Live, NoHandle, Numbered,
       ModeAgrees
  <2> QED BY <2>1 DEF Inv, OneOwnerPerFd
<1> QED BY <1>1, <1>2, <1>3, <1>4, <1>5

-----------------------------------------------------------------------------
(* EventLoop::clear. *)

(* clear() marks a stream with output. *)
LEMMA ClearMarksStep ==
  ASSUME Inv, NEW c \in Conn, c \in ToClear, pc = "clear", ClearMarks(c),
         UNCHANGED <<max_connect_id, fdOf, rbuf, wbuf, readingLine, frame,
         trace, sockVars>>
  PROVE  Inv'
<1> USE DEF Inv, TypeOK, sockVars, loopVars, tcpVars, httpVars, ClearMarks,
        MarkClosing, ToClear
<1>1. SocketsTypeOK' /\ LoopTypeOK(Handle)' /\ HttpTypeOK' /\ Control' /\
      Undispatched' /\ Numbered' /\ OutputHasHandler' /\ RegistryAgrees' /\
      OneOwnerPerFd' /\ BatchStaysReady' /\ NoEventAfterClose' /\
      OutputIsWatched' /\ ModeAgrees'
  BY DEF SocketsTypeOK, LoopTypeOK, HttpTypeOK, Control, Undispatched,
      Numbered, OutputHasHandler, RegistryAgrees, OneOwnerPerFd, Live,
      BatchStaysReady, Has, Readable, Writable, AtEnd, NoEventAfterClose,
      OutputIsWatched, ModeAgrees
<1>2. TcpTypeOK' /\ Unborn' /\ ClosingHasOutput'
  BY DataFacts DEF SocketsTypeOK, TcpTypeOK, LoopTypeOK, HttpTypeOK, Numbered,
      Unborn, ModeAgrees, ClosingHasOutput
<1> QED BY <1>1, <1>2

(* clear() closes a stream. *)
LEMMA ClearErasesStep ==
  ASSUME Inv, NEW c \in Conn, c \in ToClear, pc = "clear", ClearErases(c),
         UNCHANGED <<max_connect_id, fdOf, rbuf, wbuf, readingLine, frame,
         trace, sockVars>>
  PROVE  Inv'
<1> USE DEF Inv, TypeOK, sockVars, loopVars, tcpVars, httpVars, ClearErases,
        MarkClosing, CloseConnect, Unregister, ToClear
<1>1. SocketsTypeOK' /\ Undispatched'
  BY DEF SocketsTypeOK, Undispatched
<1>2. LoopTypeOK(Handle)' /\ TcpTypeOK' /\ HttpTypeOK' /\ Control' /\
      NoEventAfterClose' /\ Numbered' /\ Unborn' /\ OutputHasHandler' /\
      OutputIsWatched' /\ ClosingHasOutput'
  BY Names, DataFacts DEF LoopTypeOK, TcpTypeOK, Bits, SocketsTypeOK,
      HttpTypeOK, Faults, Control, BatchStaysReady, NoEventAfterClose,
      RegistryAgrees, Numbered, Unborn, ModeAgrees, Conn, OutputHasHandler,
      OutputIsWatched, ClosingHasOutput
<1>3. RegistryAgrees' /\ ModeAgrees' /\ BatchStaysReady'
  BY Names DEF LoopTypeOK, TcpTypeOK, HttpTypeOK, RegistryAgrees,
      NoEventAfterClose, ModeAgrees, Numbered, BatchStaysReady, Control,
      Undispatched, Has
<1>4. OneOwnerPerFd'
  <2>1. Live' \subseteq Live /\ fdOf' = fdOf
    BY Names DEF LoopTypeOK, TcpTypeOK, HttpTypeOK, Live, NoHandle, Numbered,
       ModeAgrees
  <2> QED BY <2>1 DEF Inv, OneOwnerPerFd
<1> QED BY <1>1, <1>2, <1>3, <1>4

(* clear() is through. *)
LEMMA ClearDoneStep ==
  ASSUME Inv, ClearDone
  PROVE  Inv'
<1> USE DEF Inv, TypeOK, sockVars, loopVars, tcpVars, httpVars, ClearDone
<1>1. SocketsTypeOK' /\ LoopTypeOK(Handle)' /\ TcpTypeOK' /\ Undispatched' /\
      Numbered' /\ Unborn' /\ OutputHasHandler' /\ RegistryAgrees' /\
      OneOwnerPerFd' /\ BatchStaysReady' /\ OutputIsWatched' /\
      ClosingHasOutput'
  BY DEF SocketsTypeOK, LoopTypeOK, TcpTypeOK, Undispatched, Numbered, Unborn,
      OutputHasHandler, RegistryAgrees, OneOwnerPerFd, Live, BatchStaysReady,
      Has, Readable, Writable, AtEnd, OutputIsWatched, ClosingHasOutput
<1>2. HttpTypeOK' /\ Control' /\ NoEventAfterClose' /\ ModeAgrees'
  BY Names DEF HttpTypeOK, Faults, Control, BatchStaysReady, LoopTypeOK,
      TcpTypeOK, NoEventAfterClose, ModeAgrees
<1> QED BY <1>1, <1>2

-----------------------------------------------------------------------------
(* The peers and the collector. *)

(* A peer connects. *)
LEMMA ArrivalStep ==
  ASSUME Inv, Arrival
  PROVE  Inv'
<1> USE DEF Inv, TypeOK, sockVars, loopVars, tcpVars, httpVars, Arrival,
        Connect
<1>1. LoopTypeOK(Handle)' /\ TcpTypeOK' /\ HttpTypeOK' /\ Control' /\
      Undispatched' /\ Unborn' /\ OutputHasHandler' /\ RegistryAgrees' /\
      OneOwnerPerFd' /\ NoEventAfterClose' /\ OutputIsWatched' /\
      ClosingHasOutput' /\ ModeAgrees'
  BY DEF LoopTypeOK, TcpTypeOK, HttpTypeOK, Control, Undispatched, Unborn,
      OutputHasHandler, RegistryAgrees, OneOwnerPerFd, Live,
      NoEventAfterClose, OutputIsWatched, ClosingHasOutput, ModeAgrees
<1>2. SocketsTypeOK' /\ Numbered'
  BY DataFacts, SocketsAssumption, Names DEF SocketsTypeOK, TcpTypeOK,
      LoopTypeOK, Numbered
<1>3. BatchStaysReady'
  <2>1. \A h \in Handle, b \in Bits : Has(h, b) => Has(h, b)'
    BY Names, DataFacts DEF SocketsTypeOK, TcpTypeOK, Has, Readable, Writable,
       AtEnd
  <2> QED BY <2>1, Names DEF LoopTypeOK, BatchStaysReady, httpVars
<1> QED BY <1>1, <1>2, <1>3

(* A peer sends. *)
LEMMA PeerSendsStep ==
  ASSUME Inv, NEW c \in Conn, PeerSends(c), UNCHANGED <<loopVars, tcpVars,
         httpVars>>
  PROVE  Inv'
<1> USE DEF Inv, TypeOK, sockVars, loopVars, tcpVars, httpVars, PeerSends
<1>1. LoopTypeOK(Handle)' /\ TcpTypeOK' /\ HttpTypeOK' /\ Control' /\
      Undispatched' /\ Numbered' /\ Unborn' /\ OutputHasHandler' /\
      RegistryAgrees' /\ OneOwnerPerFd' /\ NoEventAfterClose' /\
      OutputIsWatched' /\ ClosingHasOutput' /\ ModeAgrees'
  BY DEF LoopTypeOK, TcpTypeOK, HttpTypeOK, Control, Undispatched, Numbered,
      Unborn, OutputHasHandler, RegistryAgrees, OneOwnerPerFd, Live,
      NoEventAfterClose, OutputIsWatched, ClosingHasOutput, ModeAgrees
<1>2. SocketsTypeOK'
  BY DataFacts, SocketsAssumption DEF SocketsTypeOK
<1>3. BatchStaysReady'
  <2>1. \A h \in Handle, b \in Bits : Has(h, b) => Has(h, b)'
    BY Names, DataFacts DEF SocketsTypeOK, TcpTypeOK, Has, Readable, Writable,
       AtEnd
  <2> QED BY <2>1, Names DEF LoopTypeOK, BatchStaysReady, httpVars
<1> QED BY <1>1, <1>2, <1>3

(* A peer ends its stream. *)
LEMMA PeerEndsStep ==
  ASSUME Inv, NEW c \in Conn, PeerEnds(c), UNCHANGED <<loopVars, tcpVars,
         httpVars>>
  PROVE  Inv'
<1> USE DEF Inv, TypeOK, sockVars, loopVars, tcpVars, httpVars, PeerEnds
<1>1. LoopTypeOK(Handle)' /\ TcpTypeOK' /\ HttpTypeOK' /\ Control' /\
      Undispatched' /\ Numbered' /\ Unborn' /\ OutputHasHandler' /\
      RegistryAgrees' /\ OneOwnerPerFd' /\ NoEventAfterClose' /\
      OutputIsWatched' /\ ClosingHasOutput' /\ ModeAgrees'
  BY DEF LoopTypeOK, TcpTypeOK, HttpTypeOK, Control, Undispatched, Numbered,
      Unborn, OutputHasHandler, RegistryAgrees, OneOwnerPerFd, Live,
      NoEventAfterClose, OutputIsWatched, ClosingHasOutput, ModeAgrees
<1>2. SocketsTypeOK'
  BY DEF SocketsTypeOK
<1>3. BatchStaysReady'
  <2>1. \A h \in Handle, b \in Bits : Has(h, b) => Has(h, b)'
    BY Names, DataFacts DEF SocketsTypeOK, TcpTypeOK, Has, Readable, Writable,
       AtEnd
  <2> QED BY <2>1, Names DEF LoopTypeOK, BatchStaysReady, httpVars
<1> QED BY <1>1, <1>2, <1>3

(* A peer resets. *)
LEMMA PeerResetsStep ==
  ASSUME Inv, NEW c \in Conn, PeerResets(c), UNCHANGED <<loopVars, tcpVars,
         httpVars>>
  PROVE  Inv'
<1> USE DEF Inv, TypeOK, sockVars, loopVars, tcpVars, httpVars, PeerResets
<1>1. LoopTypeOK(Handle)' /\ TcpTypeOK' /\ HttpTypeOK' /\ Control' /\
      Undispatched' /\ Numbered' /\ Unborn' /\ OutputHasHandler' /\
      RegistryAgrees' /\ OneOwnerPerFd' /\ NoEventAfterClose' /\
      OutputIsWatched' /\ ClosingHasOutput' /\ ModeAgrees'
  BY DEF LoopTypeOK, TcpTypeOK, HttpTypeOK, Control, Undispatched, Numbered,
      Unborn, OutputHasHandler, RegistryAgrees, OneOwnerPerFd, Live,
      NoEventAfterClose, OutputIsWatched, ClosingHasOutput, ModeAgrees
<1>2. SocketsTypeOK'
  BY DEF SocketsTypeOK
<1>3. BatchStaysReady'
  <2>1. \A h \in Handle, b \in Bits : Has(h, b) => Has(h, b)'
    BY Names, DataFacts DEF SocketsTypeOK, TcpTypeOK, Has, Readable, Writable,
       AtEnd
  <2> QED BY <2>1, Names DEF LoopTypeOK, BatchStaysReady, httpVars
<1> QED BY <1>1, <1>2, <1>3

(* A peer takes a reply. *)
LEMMA PeerReadsStep ==
  ASSUME Inv, NEW c \in Conn, PeerReads(c), UNCHANGED <<loopVars, tcpVars,
         httpVars>>
  PROVE  Inv'
<1> USE DEF Inv, TypeOK, sockVars, loopVars, tcpVars, httpVars, PeerReads
<1>1. LoopTypeOK(Handle)' /\ TcpTypeOK' /\ HttpTypeOK' /\ Control' /\
      Undispatched' /\ Numbered' /\ Unborn' /\ OutputHasHandler' /\
      RegistryAgrees' /\ OneOwnerPerFd' /\ NoEventAfterClose' /\
      OutputIsWatched' /\ ClosingHasOutput' /\ ModeAgrees'
  BY DEF LoopTypeOK, TcpTypeOK, HttpTypeOK, Control, Undispatched, Numbered,
      Unborn, OutputHasHandler, RegistryAgrees, OneOwnerPerFd, Live,
      NoEventAfterClose, OutputIsWatched, ClosingHasOutput, ModeAgrees
<1>2. SocketsTypeOK'
  BY SocketsAssumption DEF SocketsTypeOK
<1>3. BatchStaysReady'
  <2>1. \A h \in Handle, b \in Bits : Has(h, b) => Has(h, b)'
    BY Names, DataFacts, SocketsAssumption DEF SocketsTypeOK, TcpTypeOK, Has,
       Readable, Writable, AtEnd
  <2> QED BY <2>1, Names DEF LoopTypeOK, BatchStaysReady, httpVars
<1> QED BY <1>1, <1>2, <1>3

(* The collector breaks the cycle of a WSHandle and its WSFrame. *)
LEMMA CollectStep ==
  ASSUME Inv, NEW c \in Conn, Collect(c)
  PROVE  Inv'
<1> USE DEF Inv, TypeOK, sockVars, loopVars, tcpVars, httpVars, Collect
<1>1. SocketsTypeOK' /\ LoopTypeOK(Handle)' /\ TcpTypeOK' /\ Control' /\
      Undispatched' /\ Numbered' /\ OutputHasHandler' /\ RegistryAgrees' /\
      BatchStaysReady' /\ NoEventAfterClose' /\ OutputIsWatched' /\
      ClosingHasOutput' /\ ModeAgrees'
  BY DEF SocketsTypeOK, LoopTypeOK, TcpTypeOK, Control, Undispatched,
      Numbered, OutputHasHandler, RegistryAgrees, BatchStaysReady, Has,
      Readable, Writable, AtEnd, NoEventAfterClose, OutputIsWatched,
      ClosingHasOutput, ModeAgrees
<1>2. HttpTypeOK' /\ Unborn'
  BY DEF HttpTypeOK, Faults, LoopTypeOK, TcpTypeOK, Numbered, Unborn
<1>3. OneOwnerPerFd'
  <2>1. Live' \subseteq Live /\ fdOf' = fdOf
    BY Names DEF LoopTypeOK, TcpTypeOK, HttpTypeOK, Live, NoHandle, Numbered,
       ModeAgrees
  <2> QED BY <2>1 DEF Inv, OneOwnerPerFd
<1> QED BY <1>1, <1>2, <1>3

-----------------------------------------------------------------------------
(* Inv is an inductive invariant.                                          *)

(* The state the server starts in: one handle, the acceptor's. *)
LEMMA InitInv == Init => Inv
<1> SUFFICES ASSUME Init PROVE Inv
  OBVIOUS
<1> USE DEF Init, SocketsInit, LoopInit, TcpInit
<1>1. SocketsTypeOK /\ TcpTypeOK
  BY SocketsAssumption, DataFacts, Names DEF SocketsTypeOK, TcpTypeOK
<1>2. LoopTypeOK(Handle)
  BY Names DEF LoopTypeOK, Bits
<1>3. HttpTypeOK
  BY DEF HttpTypeOK, Faults
<1>4. Control /\ Undispatched /\ BatchStaysReady /\ NoEventAfterClose
  BY Names DEF Control, Undispatched, BatchStaysReady, NoEventAfterClose
<1>5. Numbered /\ Unborn /\ OutputHasHandler
  BY Names DEF Numbered, Unborn, OutputHasHandler, Conn
<1>6. Live = {}
  BY DEF Live
<1>7. OneOwnerPerFd
  BY <1>6 DEF OneOwnerPerFd
<1>8. RegistryAgrees /\ OutputIsWatched /\ ClosingHasOutput /\ ModeAgrees
  BY Names DEF RegistryAgrees, OutputIsWatched, ClosingHasOutput, ModeAgrees
<1> QED
  BY <1>1, <1>2, <1>3, <1>4, <1>5, <1>7, <1>8 DEF Inv, TypeOK

(* A step of a stream's handler. *)
LEMMA StreamInv ==
  ASSUME Inv, NEW c \in Conn, StreamStep(c)
  PROVE  Inv'
<1>1. wbuf[c] = 0 \/ wbuf[c] > 0
  BY DEF Inv, TypeOK, TcpTypeOK
<1>2. CASE ReadEnd(c)
  BY <1>1, <1>2, ReadEndNowStep, ReadEndLaterStep
<1>3. CASE ReadData(c)
  BY <1>3, ReadDataStep
<1>4. CASE LineHeld(c) \/ LineGet(c) \/ LineRefused(c) \/ LineUpgrade(c)
  BY <1>4, LineHeldStep, LineGetStep, LineRefusedStep, LineUpgradeStep
<1>5. CASE LineBadUpgrade(c) \/ LineRaises(c) \/ LinesDone(c)
  BY <1>5, LineBadUpgradeStep, LineRaisesStep, LinesDoneStep
<1>6. CASE MessagePart(c) \/ MessageEcho(c) \/ MessageRaises(c)
  BY <1>6, MessagePartStep, MessageEchoStep, MessageRaisesStep
<1>7. CASE MessageClose(c)
  BY <1>1, <1>7, MessageCloseNowStep, MessageCloseLaterStep
<1>8. CASE WriteKeep(c)
  BY <1>8, WriteFailsStep, WritePartStep, WriteAllStep DEF WriteKeep
<1>9. CASE WriteClose(c)
  BY <1>9, WriteCloseStep
<1> QED
  BY <1>2, <1>3, <1>4, <1>5, <1>6, <1>7, <1>8, <1>9 DEF StreamStep

(* A step of the server's thread. *)
LEMMA ThreadInv ==
  ASSUME Inv, Thread
  PROVE  Inv'
<1>1. CASE LoopStep
  BY <1>1, SelectStep, DispatchStep, EventDoneStep, BatchDoneStep
  DEF LoopStep
<1>2. CASE Accept \/ AcceptFails \/ AcceptReset
  BY <1>2, AcceptStep, AcceptFailsStep, AcceptResetStep
<1>3. CASE \E c \in Conn : StreamStep(c)
  BY <1>3, StreamInv
<1>4. CASE Clear
  <2>1. PICK c \in ToClear : ClearMarks(c) \/ ClearErases(c)
    BY <1>4 DEF Clear
  <2>2. /\ pc = "clear"
        /\ UNCHANGED <<max_connect_id, fdOf, rbuf, wbuf, readingLine, frame,
                       trace, sockVars>>
    BY <1>4 DEF Clear
  <2>3. c \in Conn
    BY DEF ToClear, Inv, TypeOK, TcpTypeOK
  <2> QED
    BY <2>1, <2>2, <2>3, ClearMarksStep, ClearErasesStep
<1>5. CASE ClearDone
  BY <1>5, ClearDoneStep
<1> QED
  BY <1>1, <1>2, <1>3, <1>4, <1>5 DEF Thread

(* A step in which nothing changes. *)
LEMMA StutterInv ==
  ASSUME Inv, UNCHANGED vars
  PROVE  Inv'
<1> USE DEF vars, sockVars, loopVars, tcpVars, httpVars
<1>1. TypeOK'
  BY DEF Inv, TypeOK, SocketsTypeOK, LoopTypeOK, TcpTypeOK, HttpTypeOK
<1>2. Control' /\ Undispatched' /\ Numbered' /\ Unborn' /\ OutputHasHandler'
  BY DEF Inv, Control, Undispatched, Numbered, Unborn, OutputHasHandler
<1>3. RegistryAgrees' /\ OneOwnerPerFd' /\ BatchStaysReady'
  BY DEF Inv, RegistryAgrees, OneOwnerPerFd, Live, BatchStaysReady, Has,
      Readable, Writable, AtEnd
<1>4. NoEventAfterClose' /\ OutputIsWatched' /\
      ClosingHasOutput' /\ ModeAgrees'
  BY DEF Inv, NoEventAfterClose, OutputIsWatched, ClosingHasOutput, ModeAgrees
<1> QED
  BY <1>1, <1>2, <1>3, <1>4 DEF Inv

(* Any step. *)
LEMMA NextInv == Inv /\ [Next]_vars => Inv'
<1> SUFFICES ASSUME Inv, [Next]_vars PROVE Inv'
  OBVIOUS
<1>1. CASE Thread
  BY <1>1, ThreadInv
<1>2. CASE Signal
  BY <1>2, SignalStep
<1>3. CASE Arrival
  BY <1>3, ArrivalStep
<1>4. ASSUME NEW c \in Conn, Peer(c) PROVE Inv'
  BY <1>4, PeerSendsStep, PeerEndsStep, PeerResetsStep, PeerReadsStep
  DEF Peer, PeerStep
<1>5. ASSUME NEW c \in Conn, Collect(c) PROVE Inv'
  BY <1>5, CollectStep
<1>6. CASE Finished \/ UNCHANGED vars
  BY <1>6, StutterInv DEF Finished
<1> QED
  BY <1>1, <1>2, <1>3, <1>4, <1>5, <1>6 DEF Next

-----------------------------------------------------------------------------
(* The theorems.                                                           *)

(* Every reachable state satisfies the inductive invariant. *)
THEOREM Invariance == Spec => []Inv
  BY InitInv, NextInv, PTL DEF Spec

(* Every variable keeps its type, the counters their bounds: no more replies
   sit in a socket than its buffer holds, and no descriptor beyond MaxFd or
   connection that was not established is ever used. *)
THEOREM TypeCorrect == Spec => []TypeOK
<1>1. Inv => TypeOK
  BY DEF Inv
<1> QED
  BY <1>1, Invariance, PTL

(* The loop's handles, the selector's events, TcpServer::streams and the
   handlers of both languages know the same connections at every step. *)
THEOREM RegistriesAgree == Spec => []RegistryAgrees
<1>1. Inv => RegistryAgrees
  BY DEF Inv
<1> QED
  BY <1>1, Invariance, PTL

(* A descriptor that is reused is not held by an older stream. *)
THEOREM DescriptorsAreNotShared == Spec => []OneOwnerPerFd
<1>1. Inv => OneOwnerPerFd
  BY DEF Inv
<1> QED
  BY <1>1, Invariance, PTL

(* The event a handler is called for is still there when it is called: no
   handler closes, drains or fills what another of the batch waits for. *)
THEOREM EventsAreTrue == Spec => []BatchStaysReady
<1>1. Inv => BatchStaysReady
  BY DEF Inv
<1> QED
  BY <1>1, Invariance, PTL

(* After a stream is closed nothing more of it is handled, and a stream marked
   for closing has the output whose last write closes it. *)
THEOREM CloseIsFinal == Spec => [](NoEventAfterClose /\ ClosingHasOutput)
<1>1. Inv => NoEventAfterClose /\ ClosingHasOutput
  BY DEF Inv
<1> QED
  BY <1>1, Invariance, PTL

(* The selector waits for room in a socket exactly when there is output. *)
THEOREM OutputIsNeverStuck == Spec => []OutputIsWatched
<1>1. Inv => OutputIsWatched
  BY DEF Inv
<1> QED
  BY <1>1, Invariance, PTL

(* pySender::reading_line and the Python handler of a connection agree, so a
   message reaches only a WSHandle and is never empty. *)
THEOREM ModesAgree == Spec => []ModeAgrees
<1>1. Inv => ModeAgrees
  BY DEF Inv
<1> QED
  BY <1>1, Invariance, PTL

-----------------------------------------------------------------------------
(* HttpServer implements Connections.  The mapping (StateOf, wbuf) looks at
   four variables of the server; one lemma says which step of Connections each
   way of changing them is, given the invariant Inv. *)

(* What a handler's calls do to the abstract state. *)

(* The abstract state is made of four variables: a step that leaves them alone
   is a stuttering step of Connections. *)
LEMMA SameState ==
  ASSUME UNCHANGED <<streams, max_connect_id, closing, wbuf>>
  PROVE  UNCHANGED Abstract!connVars
  BY DEF Abstract!connVars, StateOf

(* A registered stream is up, and closing if it is marked. *)
LEMMA UpState ==
  ASSUME Inv, NEW c \in streams
  PROVE  /\ c \in Conn /\ StateOf(c) \in {"open", "closing"}
         /\ StateOf(c) = "closing" <=> closing[c]
  BY DEF Inv, TypeOK, TcpTypeOK, Numbered, Conn, StateOf

(* A handler that runs for a stream with something to do in it. *)
LEMMA Registered ==
  ASSUME Inv, NEW c \in Conn, cur = c,
         revents # {} \/ pc \in {"lines", "message"}
  PROVE  c \in streams
  BY DEF Inv, NoEventAfterClose

(* A connection is accepted. *)
LEMMA Opens ==
  ASSUME Inv, Accept, NEW n \in Conn, n = max_connect_id + 1
  PROVE  Abstract!Open(n)
<1>1. /\ max_connect_id' = n /\ streams' = streams \cup {n}
      /\ UNCHANGED <<wbuf, closing>>
  BY DEF Accept, NewConnect, Newest
<1>2. /\ max_connect_id \in Nat /\ ~closing[n]
      /\ \A c \in streams : c <= max_connect_id
  BY DEF Inv, TypeOK, TcpTypeOK, Numbered, Unborn, Conn
<1>3. StateOf(n) = "none" /\ StateOf(n)' = "open"
  BY <1>1, <1>2 DEF StateOf
<1>4. \A c \in Conn : c < n => StateOf(c) # "none"
  BY <1>2 DEF StateOf, Conn
<1>5. \A c \in Conn : c # n => StateOf(c)' = StateOf(c)
  BY <1>1, <1>2 DEF StateOf, Conn
<1> QED
  BY <1>1, <1>3, <1>4, <1>5 DEF Abstract!Open

(* A handler sends. *)
LEMMA Replies ==
  ASSUME Inv, NEW c \in streams, Send(c),
         UNCHANGED <<streams, max_connect_id, closing>>
  PROVE  Abstract!Reply(c)
<1>1. \A d \in Conn : StateOf(d)' = StateOf(d)
  BY DEF StateOf
<1> QED
  BY <1>1, UpState DEF Send, Abstract!Reply, Abstract!Up

(* A handler sends and closes: the stream is marked. *)
LEMMA RepliesAndMarks ==
  ASSUME Inv, NEW c \in streams, Send(c), MarkClosing(c),
         UNCHANGED <<streams, max_connect_id>>
  PROVE  Abstract!ReplyAndAskClose(c)
<1>1. \A d \in Conn : d # c => StateOf(d)' = StateOf(d)
  BY DEF MarkClosing, StateOf, Inv, TypeOK, TcpTypeOK
<1>2. StateOf(c)' = "closing"
  BY DEF MarkClosing, StateOf, Inv, TypeOK, TcpTypeOK, Numbered, Conn
<1> QED
  BY <1>1, <1>2, UpState DEF Send, Abstract!ReplyAndAskClose, Abstract!Up

(* A stream with output is marked; a second mark changes nothing. *)
LEMMA Marks ==
  ASSUME Inv, NEW c \in streams, MarkClosing(c), wbuf[c] > 0,
         UNCHANGED <<streams, max_connect_id, wbuf>>
  PROVE  Abstract!AskClose(c) \/ UNCHANGED Abstract!connVars
<1>1. \A d \in Conn : d # c => StateOf(d)' = StateOf(d)
  BY DEF MarkClosing, StateOf, Inv, TypeOK, TcpTypeOK
<1>2. StateOf(c)' = "closing"
  BY DEF MarkClosing, StateOf, Inv, TypeOK, TcpTypeOK, Numbered, Conn
<1>3. CASE StateOf(c) = "open"
  BY <1>1, <1>2, <1>3, UpState DEF Abstract!AskClose
<1>4. CASE StateOf(c) = "closing"
  BY <1>1, <1>2, <1>4 DEF Abstract!connVars
<1> QED
  BY <1>3, <1>4, UpState

(* A stream without output is closed; it was not marked before. *)
LEMMA Closes ==
  ASSUME Inv, NEW c \in streams, CloseConnect(c), MarkClosing(c),
         wbuf[c] = 0, UNCHANGED <<max_connect_id, wbuf>>
  PROVE  Abstract!Close(c)
<1>1. \A d \in Conn : d # c => StateOf(d)' = StateOf(d)
  BY DEF MarkClosing, CloseConnect, StateOf, Inv, TypeOK, TcpTypeOK
<1>2. StateOf(c)' = "closed"
  BY DEF CloseConnect, StateOf, Inv, TypeOK, TcpTypeOK, Numbered, Conn
<1>3. StateOf(c) = "open"
  BY UpState DEF Inv, ClosingHasOutput
<1> QED
  BY <1>1, <1>2, <1>3, UpState DEF Abstract!Close

(* The kernel takes a part of the output, or all of a stream that stays. *)
LEMMA Delivers ==
  ASSUME Inv, NEW c \in streams, WritePart(c) \/ WriteAll(c)
  PROVE  Abstract!Deliver(c) \/ UNCHANGED Abstract!connVars
<1>1. \A d \in Conn : StateOf(d)' = StateOf(d)
  BY DEF WritePart, WriteAll, StateOf
<1>2. c \in Conn /\ wbuf[c] \in Nat /\ sndq[c] \in 0 .. SndCap /\ SndCap \in Nat
  BY UpState, SocketsAssumption DEF Inv, TypeOK, TcpTypeOK, SocketsTypeOK
<1>3. CASE WritePart(c)
  <2>1. /\ wbuf[c] > Room(c) /\ Room(c) \in 0 .. SndCap
        /\ wbuf' = [wbuf EXCEPT ![c] = @ - Room(c)]
    BY <1>2, <1>3 DEF WritePart, Room
  <2>2. CASE Room(c) = 0
    BY <1>1, <1>2, <2>1, <2>2 DEF Abstract!connVars, Inv, TypeOK, TcpTypeOK
  <2>3. CASE Room(c) > 0
    <3>1. /\ wbuf[c] - Room(c) \in 0 .. wbuf[c] - 1
          /\ wbuf[c] - Room(c) # 0 /\ wbuf[c] > 0
      BY <1>2, <2>1, <2>3
    <3> QED
      BY <1>1, <2>1, <3>1, UpState DEF Abstract!Deliver, Abstract!Up
  <2> QED
    BY <1>2, <2>1, <2>2, <2>3
<1>4. CASE WriteAll(c)
  <2>1. wbuf' = [wbuf EXCEPT ![c] = 0] /\ StateOf(c) = "open"
    BY <1>4, UpState DEF WriteAll
  <2>2. CASE wbuf[c] = 0
    BY <1>1, <2>1, <2>2 DEF Abstract!connVars, Inv, TypeOK, TcpTypeOK
  <2>3. CASE wbuf[c] > 0
    <3>1. 0 \in 0 .. wbuf[c] - 1
      BY <1>2, <2>3
    <3> QED
      BY <1>1, <2>1, <2>3, <3>1, UpState DEF Abstract!Deliver, Abstract!Up
  <2> QED
    BY <1>2, <2>2, <2>3
<1> QED
  BY <1>3, <1>4

(* The kernel takes the last of a marked stream, which is closed. *)
LEMMA DeliversLast ==
  ASSUME Inv, NEW c \in streams, WriteLast(c)
  PROVE  Abstract!DeliverLast(c)
<1>1. /\ wbuf' = [wbuf EXCEPT ![c] = 0] /\ streams' = streams \ {c}
      /\ UNCHANGED <<max_connect_id, closing>> /\ closing[c]
  BY DEF WriteLast, CloseConnect
<1>2. \A d \in Conn : d # c => StateOf(d)' = StateOf(d)
  BY <1>1 DEF StateOf
<1>3. StateOf(c)' = "closed" /\ StateOf(c) = "closing" /\ wbuf[c] > 0
  BY <1>1, UpState DEF StateOf, Inv, Numbered, ClosingHasOutput
<1> QED
  BY <1>1, <1>2, <1>3, UpState DEF Abstract!DeliverLast

(* TcpStream::close. *)
LEMMA ClosesOrMarks ==
  ASSUME Inv, NEW c \in streams, NEW rest, Close(c, rest),
         UNCHANGED <<max_connect_id, wbuf>>
  PROVE  Abstract!Close(c) \/ Abstract!AskClose(c) \/ UNCHANGED Abstract!connVars
<1>1. CASE wbuf[c] = 0
  BY <1>1, Closes DEF Close, HttpCloseConnect
<1>2. CASE wbuf[c] > 0
  BY <1>2, Marks DEF Close
<1> QED
  BY <1>1, <1>2 DEF Close

-----------------------------------------------------------------------------
(* The handlers, the thread, and every step.                               *)

(* A step of a stream's handler. *)
LEMMA StreamRefines ==
  ASSUME Inv, NEW c \in Conn, StreamStep(c)
  PROVE  [Abstract!Next]_(Abstract!connVars)
<1>1. c \in streams
  BY Registered DEF StreamStep, ReadEnd, ReadData, Reading, LineHeld, LineGet,
     LineRefused, LineUpgrade, LineBadUpgrade, LineRaises, TakesLine,
     LinesDone, MessagePart, MessageEcho, MessageClose, MessageRaises,
     TakesMessage, WriteKeep, WriteFails, WritePart, WriteAll, WriteClose,
     WriteLast, Writing
<1>2. CASE ReadEnd(c) \/ MessageClose(c)
  BY <1>1, <1>2, ClosesOrMarks DEF ReadEnd, MessageClose, TakesMessage,
     Abstract!Next
<1>3. CASE ReadData(c) \/ LineHeld(c) \/ LineBadUpgrade(c) \/ LineRaises(c)
  BY <1>3, SameState DEF ReadData, LineHeld, LineBadUpgrade, LineRaises, TakesLine
<1>4. CASE LinesDone(c) \/ MessagePart(c) \/ MessageRaises(c)
  BY <1>4, SameState DEF LinesDone, MessagePart, MessageRaises, TakesMessage,
     tcpVars
<1>5. CASE LineRefused(c) \/ LineUpgrade(c) \/ MessageEcho(c)
  BY <1>1, <1>5, Replies DEF LineRefused, LineUpgrade, MessageEcho, TakesLine,
     TakesMessage, Abstract!Next
<1>6. CASE LineGet(c)
  BY <1>1, <1>6, RepliesAndMarks DEF LineGet, TakesLine, Abstract!Next
<1>7. CASE WriteKeep(c)
  BY <1>1, <1>7, Marks, Delivers DEF WriteKeep, WriteFails, Abstract!Next
<1>8. CASE WriteClose(c)
  BY <1>1, <1>8, DeliversLast DEF WriteClose, Abstract!Next
<1> QED
  BY <1>2, <1>3, <1>4, <1>5, <1>6, <1>7, <1>8 DEF StreamStep

(* A step of the server's thread. *)
LEMMA ThreadRefines ==
  ASSUME Inv, Thread
  PROVE  [Abstract!Next]_(Abstract!connVars)
<1>1. CASE LoopStep
  BY <1>1, SameState DEF LoopStep, tcpVars
<1>2. CASE Accept
  <2>1. max_connect_id + 1 \in Conn
    BY <1>2, SocketsAssumption DEF Accept, NewConnect, Newest, Inv, TypeOK,
       TcpTypeOK, SocketsTypeOK, Conn
  <2> QED
    BY <1>2, <2>1, Opens DEF Abstract!Next
<1>3. CASE AcceptFails \/ AcceptReset \/ ClearDone
  BY <1>3, SameState DEF AcceptFails, AcceptReset, Abort, ClearDone, tcpVars
<1>4. CASE \E c \in Conn : StreamStep(c)
  BY <1>4, StreamRefines
<1>5. CASE Clear
  <2>1. PICK c \in streams : ClearMarks(c) \/ ClearErases(c)
    BY <1>5 DEF Clear, ToClear
  <2>2. UNCHANGED <<max_connect_id, wbuf>>
    BY <1>5 DEF Clear
  <2>3. CASE ClearMarks(c)
    BY <2>2, <2>3, Marks, UpState DEF ClearMarks, Abstract!Next
  <2>4. CASE ClearErases(c)
    BY <2>2, <2>4, Closes, UpState DEF ClearErases, Abstract!Next
  <2> QED
    BY <2>1, <2>3, <2>4
<1> QED
  BY <1>1, <1>2, <1>3, <1>4, <1>5 DEF Thread

(* Any step: peers, signals and the collector change nothing Connections
   knows of. *)
LEMMA NextRefines == Inv /\ [Next]_vars => [Abstract!Next]_(Abstract!connVars)
<1> SUFFICES ASSUME Inv, [Next]_vars PROVE [Abstract!Next]_(Abstract!connVars)
  OBVIOUS
<1>1. CASE Thread
  BY <1>1, ThreadRefines
<1>2. CASE Signal \/ Arrival \/ \E c \in Conn : Peer(c) \/ Collect(c)
  BY <1>2, SameState DEF Signal, Arrival, Peer, Collect, tcpVars
<1>3. CASE Finished \/ UNCHANGED vars
  BY <1>3, SameState DEF Finished, vars, tcpVars
<1> QED
  BY <1>1, <1>2, <1>3 DEF Next

(* In the first state no connection is there. *)
LEMMA InitRefines == Init => Abstract!Init
<1> SUFFICES ASSUME Init PROVE Abstract!Init
  OBVIOUS
<1>1. \A c \in Conn : StateOf(c) = "none"
  BY DEF Init, TcpInit, StateOf, Conn
<1> QED
  BY <1>1 DEF Init, TcpInit, Abstract!Init

(* HttpServer implements Connections: with any number of connections and any
   order of events each is opened once and in order, closed once and for good,
   and never with a reply unsent. *)
THEOREM PromisesKept == Spec => KeepsPromises
<1>1. Spec => []Inv
  BY Invariance
<1> QED
  BY <1>1, InitRefines, NextRefines, PTL
  DEF Spec, KeepsPromises, Abstract!Spec
=============================================================================

----------------------------- MODULE MsgStream -----------------------------
(***************************************************************************)
(* One stream of a MsgServer (server/msgserver.cpp): the bytes of a peer   *)
(* that sends well-formed messages, a length and then as many bytes, go    *)
(* through Socket::recv and pread_buf to the Msg being read; the handler   *)
(* of a message may reply, and the reply goes through pwrite_buf and       *)
(* Socket::send to the kernel.  Client::on_read (client/connector.cpp) is  *)
(* the same code as MsgServer::handle_read; a Client may also lose its     *)
(* connection and have another, whose bytes go to the same Msg.  (In a     *)
(* MsgServer each connection has a Msg of its own: nothing to model.)      *)
(*                                                                         *)
(* A cell stands for a byte: <<m, i>> is byte i of message m of the peer,  *)
(* its first HeaderSize bytes being the length, and byte i of the output   *)
(* is <<0, i>>; both count from the beginning of the connection.           *)
(***************************************************************************)
EXTENDS Integers, Sequences, SequencesExt

CONSTANTS BUFFER_SIZE, HeaderSize,
          Lengths,    \* the lengths of the messages the peer may send
          Replies,    \* the sizes of the replies a handler may send
          SndCap,     \* bytes the kernel's send buffer holds
          MaxBytes,   \* bound: bytes the peer sends
          MaxReplies, \* bound: replies
          MaxCloses   \* bound: connections that end

ASSUME MsgStreamAssumption ==
  /\ BUFFER_SIZE \in Nat \ {0}
  /\ HeaderSize \in Nat \ {0} /\ SndCap \in Nat \ {0}
  /\ Lengths \subseteq Nat \ {0} /\ Replies \subseteq Nat \ {0}
  /\ MaxBytes \in Nat /\ MaxReplies \in Nat /\ MaxCloses \in Nat

VARIABLES lens,      \* the lengths of the messages the peer has begun
          input,     \* every byte the peer has sent
          received,  \* how many of them recv() has taken
          pread,     \* pread_buf
          msg,       \* the Msg being read: len, and praw_data
          handled,   \* history: the data of the messages handled
          pwrite,    \* pwrite_buf
          written,   \* bytes the handlers have sent
          replies,   \* replies sent (only a bound)
          watched,   \* the stream is watched for WRITE
          buf,       \* Socket::send: where in pwrite_buf it sends from
          size,      \* Socket::send: how much it has still to send
          output,    \* history: the bytes the kernel has taken
          sndq,      \* how many of them the peer has not read yet
          held,      \* history: the most that pread_buf has held
          heldOut,   \* history: the most that pwrite_buf has held
          closes,    \* connections that have ended (only a bound)
          gone,      \* bytes the peer sent on them (only a bound)
          whole,     \* history: none of them ended within a message's data
          pc

readVars  == <<received, pread, msg, handled, held>>
writeVars == <<pwrite, written, replies, watched, heldOut>>
sendVars  == <<buf, size, output>>
peerVars  == <<lens, input>>
lostVars  == <<closes, gone, whole>>
vars == <<peerVars, readVars, writeVars, sendVars, sndq, lostVars, pc>>

Zero == <<0, 0>>
NoMsg == [len |-> 0, data |-> <<>>]

Buffers == INSTANCE Buffer

Least(a, b) == IF a < b THEN a ELSE b
Most(a, b)  == IF a > b THEN a ELSE b

\* The data of message m.
DataOf(m) == [i \in 1 .. lens[m] |-> <<m, HeaderSize + i>>]

Init ==
  /\ lens = <<>> /\ input = <<>>
  /\ received = 0 /\ pread = Buffers!NewBuffer /\ held = 0
  /\ msg = NoMsg /\ handled = <<>>
  /\ pwrite = Buffers!NewBuffer /\ written = 0 /\ replies = 0 /\ heldOut = 0
  /\ watched = FALSE
  /\ buf = 0 /\ size = 0 /\ output = <<>> /\ sndq = 0
  /\ closes = 0 /\ gone = 0 /\ whole = TRUE
  /\ pc = "select"

-----------------------------------------------------------------------------
(* The peer: it sends the next byte of a message, or begins one, and reads *)
(* what the kernel has for it.                                             *)

AtMessageEnd ==
  input # <<>> => Last(input)[2] = HeaderSize + Last(lens)

PeerBegins ==
  /\ AtMessageEnd /\ gone + Len(input) < MaxBytes
  /\ \E n \in Lengths : lens' = Append(lens, n)
  /\ input' = Append(input, <<Len(lens) + 1, 1>>)
  /\ UNCHANGED <<readVars, writeVars, sendVars, sndq, lostVars, pc>>

PeerGoesOn ==
  /\ ~AtMessageEnd /\ gone + Len(input) < MaxBytes
  /\ input' = Append(input, <<Len(lens), Last(input)[2] + 1>>)
  /\ UNCHANGED <<lens, readVars, writeVars, sendVars, sndq, lostVars, pc>>

PeerReads ==
  /\ sndq > 0
  /\ sndq' = 0
  /\ UNCHANGED <<peerVars, readVars, writeVars, sendVars, lostVars, pc>>

-----------------------------------------------------------------------------
(* TcpStream::handle_read, with the loop of Socket::recv *)

ReadEvent ==
  /\ pc = "select" /\ received < Len(input)
  /\ pc' = "recv"
  /\ UNCHANGED <<peerVars, readVars, writeVars, sendVars, sndq, lostVars>>

Receive ==
  /\ pc = "recv" /\ received < Len(input)
  /\ LET n == Least(BUFFER_SIZE, Len(input) - received)
         s == SubSeq(input, received + 1, received + n)
     IN /\ pread' = Buffers!write(pread, s)
        /\ received' = received + n
        /\ held' = Most(held, Buffers!readable_size(pread'))
  /\ UNCHANGED <<msg, handled, pc, peerVars, writeVars, sendVars, sndq, lostVars>>

\* EAGAIN: MsgServer::handle_read.
Received ==
  /\ pc = "recv" /\ received = Len(input)
  /\ pc' = "length"
  /\ UNCHANGED <<peerVars, readVars, writeVars, sendVars, sndq, lostVars>>

-----------------------------------------------------------------------------
(* MsgServer::handle_read *)

\* What read_int() may make of some bytes: the length that a header tells, 0 of
\* zeroed bytes, and anything of others.
Ints(s) ==
  IF \A i \in DOMAIN s : s[i] = Zero THEN {0}
  ELSE IF \A i \in DOMAIN s : s[i] = <<s[1][1], i>> THEN {lens[s[1][1]]}
  ELSE {-1, 0, 1, MaxBytes}

NeedsLength == msg.len = 0 /\ Buffers!readable_size(pread) >= HeaderSize

ReadLength ==
  /\ pc = "length" /\ NeedsLength
  /\ pread' = Buffers!has_read(pread, HeaderSize)
  /\ \E n \in Ints(Buffers!Cells(pread, pread.start_idx, HeaderSize)) :
       IF n > 0 THEN msg' = [len |-> n, data |-> <<>>] /\ pc' = "data"
       ELSE pc' = "abort" /\ UNCHANGED msg  \* assert(_len>0) in try_write
  /\ UNCHANGED <<received, handled, held, peerVars, writeVars, sendVars, sndq>>
  /\ UNCHANGED lostVars

HasLength ==
  /\ pc = "length" /\ ~NeedsLength
  /\ pc' = "data"
  /\ UNCHANGED <<peerVars, readVars, writeVars, sendVars, sndq, lostVars>>

\* Faulty: the bytes of the next message are taken too.
TakesAll == Buffers!readable_size(pread)

Takes == Least(msg.len - Len(msg.data), Buffers!readable_size(pread))
Taken == msg.data \o Buffers!Cells(pread, pread.start_idx, Takes)

\* The message goes on in the next read, or none has begun.
ReadPart ==
  /\ pc = "data" /\ (Takes = 0 \/ Len(Taken) # msg.len)
  /\ msg' = [msg EXCEPT !.data = Taken]
  /\ pread' = Buffers!has_read(pread, Takes)
  /\ pc' = "select"
  /\ UNCHANGED <<received, handled, held, peerVars, writeVars, sendVars, sndq>>
  /\ UNCHANGED lostVars

\* TcpStream::send, of n bytes.
Send(n) ==
  /\ pwrite' = Buffers!write(pwrite, [i \in 1 .. n |-> <<0, written + i>>])
  /\ written' = written + n
  /\ replies' = replies + 1
  /\ watched' = TRUE
  /\ heldOut' = Most(heldOut, Buffers!readable_size(pwrite'))

\* Faulty: the rest of the buffer waits for the next event.
NextEvent == "select"

\* After a message handle_read calls itself while another length can be read.
AfterMessage ==
  IF Buffers!readable_size(pread') >= HeaderSize THEN "length" ELSE "select"

\* Proto::on_msg: the service the message is for may reply.
OnMsg ==
  \/ UNCHANGED writeVars
  \/ \E n \in Replies : replies < MaxReplies /\ Send(n)

\* The message is complete: handle_msg(), and clear().
ReadLast ==
  /\ pc = "data" /\ Takes > 0 /\ Len(Taken) = msg.len
  /\ handled' = Append(handled, Taken)
  /\ msg' = NoMsg
  /\ pread' = Buffers!has_read(pread, Takes)
  /\ pc' = AfterMessage
  /\ OnMsg
  /\ UNCHANGED <<received, held, peerVars, sendVars, sndq, lostVars>>

-----------------------------------------------------------------------------
(* TcpStream::handle_write, with the loop of Socket::send *)

Room == SndCap - sndq

WriteEvent ==
  /\ pc = "select" /\ watched /\ Room > 0
  /\ buf' = pwrite.start_idx
  /\ size' = Buffers!readable_size(pwrite)
  /\ pc' = "send"
  /\ UNCHANGED <<peerVars, readVars, writeVars, output, sndq, lostVars>>

\* The kernel takes a piece, or what it has room for.  buf stays where it is.
SendPiece ==
  /\ pc = "send" /\ size > 0 /\ Room > 0
  /\ LET n == Least(Room, Least(BUFFER_SIZE, size))
     IN /\ output' = output \o Buffers!Cells(pwrite, buf, n)
        /\ sndq' = sndq + n
        /\ size' = size - n
        /\ pwrite' = Buffers!has_read(pwrite, n)
  /\ UNCHANGED <<buf, written, replies, watched, heldOut, pc>>
  /\ UNCHANGED <<peerVars, readVars, lostVars>>

\* EAGAIN, or everything is sent and the stream is no longer watched for WRITE.
Sent ==
  /\ pc = "send" /\ (size = 0 \/ Room = 0)
  /\ watched' = (Buffers!readable_size(pwrite) > 0)
  /\ buf' = 0 /\ size' = 0
  /\ pc' = "select"
  /\ UNCHANGED <<pwrite, written, replies, heldOut, output, sndq>>
  /\ UNCHANGED <<peerVars, readVars, lostVars>>

-----------------------------------------------------------------------------
(* Client: the connection ends, or is reset with bytes unread, and the     *)
(* retry timer starts another, a new Connector with buffers of its own.    *)
(* Client::pmsg stays as it is.                                            *)

\* Faulty: the bytes that were left are there still.
KeptBuffer == pread

FreshBuffer == Buffers!NewBuffer

Reconnects ==
  /\ pc \in {"select", "recv"} /\ closes < MaxCloses
  /\ closes' = closes + 1 /\ gone' = gone + Len(input)
  /\ whole' = (whole /\ msg = NoMsg)
  /\ lens' = <<>> /\ input' = <<>>
  /\ received' = 0 /\ pread' = FreshBuffer /\ held' = 0 /\ handled' = <<>>
  /\ pwrite' = Buffers!NewBuffer /\ written' = 0 /\ heldOut' = 0
  /\ watched' = FALSE /\ output' = <<>> /\ sndq' = 0
  /\ pc' = "select"
  /\ UNCHANGED <<msg, replies, buf, size>>

Next ==
  \/ Reconnects
  \/ PeerBegins \/ PeerGoesOn \/ PeerReads
  \/ ReadEvent \/ Receive \/ Received
  \/ ReadLength \/ HasLength \/ ReadPart \/ ReadLast
  \/ WriteEvent \/ SendPiece \/ Sent

Spec == Init /\ [][Next]_vars

-----------------------------------------------------------------------------
TypeOK ==
  /\ lens \in Seq(Lengths)
  /\ received \in 0 .. Len(input)
  /\ Buffers!IsBuffer(pread, (0 .. Len(lens)) \X Nat)
  /\ Buffers!IsBuffer(pwrite, {0} \X Nat)
  /\ Len(msg.data) <= msg.len
  /\ replies \in 0 .. MaxReplies
  /\ sndq \in 0 .. SndCap
  /\ size >= 0
  /\ closes \in 0 .. MaxCloses /\ gone + Len(input) <= MaxBytes
  /\ pc \in {"select", "recv", "length", "data", "send", "abort"}

\* A buffer that never holds more than twice BUFFER_SIZE holds the bytes that
\* were written to it and not yet read, in their order, through every move to
\* the front and every resize.
BufferKeepsBytes ==
  /\ held <= 2 * BUFFER_SIZE =>
       Buffers!Contents(pread) =
         SubSeq(input, received - Buffers!readable_size(pread) + 1, received)
  /\ heldOut <= 2 * BUFFER_SIZE =>
       Buffers!Contents(pwrite) =
         [i \in 1 .. Buffers!readable_size(pwrite) |->
            <<0, written - Buffers!readable_size(pwrite) + i>>]

\* The messages handled are those the peer sent, whole and in order, however
\* their lengths and data are split over reads and joined in one read; after a
\* reconnection too (Client::on_read), with half a length or unread messages
\* lost, but not if half the data of one was.  ChannelKept implies
\* it; no run checks it.
MessagesArrive ==
  held <= 2 * BUFFER_SIZE /\ whole =>
    \A m \in DOMAIN handled : handled[m] = DataOf(m)

\* When the loop waits again no complete message is left in pread_buf: it would
\* not be handled before the peer sends more.
NothingLeftBehind ==
  pc = "select" =>
    IF msg.len = 0 THEN Buffers!readable_size(pread) < HeaderSize
    ELSE Buffers!readable_size(pread) = 0

\* How many messages end within the first n bytes of the input.
EndedBy(n) ==
  IF n = 0 THEN 0
  ELSE LET m == input[n][1]
       IN IF input[n][2] = HeaderSize + lens[m] THEN m ELSE m - 1

\* Channel's view of the state.
Come     == [m \in 1 .. EndedBy(received) |-> DataOf(m)]
Waiting  == pc \in {"select", "send"}
Reliable == held <= 2 * BUFFER_SIZE /\ whole

Abstract == INSTANCE Channel
  WITH come <- Come, handed <- handled, waiting <- Waiting, kept <- Reliable

\* MsgStream implements Channel: handle_read hands over the messages one by one,
\* whole and in order, each not before its last byte has been received, and when
\* it returns to the loop every message whose last byte has been received was
\* handled, however the reads were cut; while pread_buf has not held more than
\* twice BUFFER_SIZE and no connection ended within the data of a message.
ChannelKept == Abstract!Spec

-----------------------------------------------------------------------------
(* Claims of the code that its executions refute. *)

\* assert(_len>0) in Msg::try_write, of a peer that sends well-formed messages.
LengthIsPositive == pc # "abort"

\* Socket::send sends the bytes of the buffer ("0=send all!").
SendsWhatWasWritten == \A i \in DOMAIN output : output[i] = <<0, i>>
=============================================================================

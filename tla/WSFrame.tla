------------------------------ MODULE WSFrame ------------------------------
(***************************************************************************)
(* The WebSocket of one connection (script/httphandle.py): a peer sends    *)
(* frames, reads cut and join their bytes in any way, WSHandle gives what  *)
(* each read brought to the WSFrame being read, and answers a frame that   *)
(* is complete with one of its own.                                        *)
(*                                                                         *)
(* Bytes are numbers below 2 * Half, where Half is 128 in the code; FIN    *)
(* and the RSV bits, which nothing looks at, are left out of the first.    *)
(* Opcodes other than that of close (8) are all handled as text.           *)
(* A close closes at once: output still waiting then is HttpServer's       *)
(* subject.                                                                *)
(***************************************************************************)
EXTENDS Integers, Sequences, FiniteSets

CONSTANTS Half,       \* 0x80, the mask bit of the second byte
          Width2,     \* the bytes of the short extended length, 2
          Width8,     \* the bytes of the long one, 8
          Frames,     \* the frames a peer may send: opcode, key, data
          Lead,       \* "echo:"
          MaxFrames   \* bound: frames of the peer

Byte == 2 * Half
Bytes == 0 .. Byte - 1

\* Byte ^ n.
BytePow[n \in Nat] == IF n = 0 THEN 1 ELSE Byte * BytePow[n - 1]

\* What the constants may be; Protocols assumes it.
WSFrameAssumption ==
  /\ Half \in {8, 16, 32, 64, 128}
  /\ Width2 \in Nat \ {0} /\ Width8 \in Nat /\ Width8 > Width2
  /\ Frames \subseteq [opcode : Bytes, key : {<<>>} \cup [1 .. 4 -> Bytes],
                       data : Seq(Bytes)]
  /\ \A f \in Frames : Len(f.data) < BytePow[Width8]
  /\ Lead \in Seq(Bytes)
  /\ MaxFrames \in Nat

VARIABLES frames,     \* history: the frames the peer has sent
          taken,      \* how many of their bytes have been read
          cur_frame,  \* WSHandle.cur_frame
          output,     \* history: the frames sent in answer
          open,       \* the connection is open
          tame        \* history: see Tame

vars == <<frames, taken, cur_frame, output, open, tame>>

Text  == 1
CLOSE == 8

None == -1

\* struct.pack and unpack of a big-endian number.
Pack(n, width) ==
  LET rest[i \in 0 .. width] == IF i = 0 THEN n ELSE rest[i - 1] \div Byte
  IN [i \in 1 .. width |-> rest[width - i] % Byte]

Unpack(s) ==
  LET read[i \in 0 .. Len(s)] == IF i = 0 THEN 0 ELSE Byte * read[i - 1] + s[i]
  IN read[Len(s)]

\* Exclusive or of two numbers, bit by bit.
Xor[p \in Nat \X Nat] ==
  IF p = <<0, 0>> THEN 0
  ELSE ((p[1] + p[2]) % 2) + 2 * Xor[<<p[1] \div 2, p[2] \div 2>>]

First(n, s)  == SubSeq(s, 1, IF n < Len(s) THEN n ELSE Len(s))
Without(n, s) == SubSeq(s, n + 1, Len(s))

-----------------------------------------------------------------------------
(* The peer writes frames as RFC 6455 says. *)

Masked(key, data) ==
  [i \in DOMAIN data |-> IF key = <<>> THEN data[i]
                         ELSE Xor[<<data[i], key[1 + ((i - 1) % 4)]>>]]

FrameBytes(opcode, key, data) ==
  LET n    == Len(data)
      mark == IF key = <<>> THEN 0 ELSE Half
      code == IF n < Half - 2 THEN <<mark + n>>
              ELSE IF n < BytePow[Width2] THEN <<mark + Half - 2>> \o Pack(n, Width2)
              ELSE <<mark + Half - 1>> \o Pack(n, Width8)
  IN <<opcode>> \o code \o key \o Masked(key, data)

BytesOf(f) == FrameBytes(f.opcode, f.key, f.data)

\* The bytes of the first k frames, one after the other.
Sent(k) ==
  LET sent[i \in 0 .. k] == IF i = 0 THEN <<>>
                           ELSE sent[i - 1] \o BytesOf(frames[i])
  IN sent[k]

Input  == Sent(Len(frames))
End(k) == Len(Sent(k))

-----------------------------------------------------------------------------
(* WSFrame *)

NewFrame ==
  [header |-> FALSE, mask |-> FALSE, len1 |-> 0, mask_codes |-> <<>>,
   buf |-> <<>>, remain_len |-> 2, data_len |-> None, payload |-> <<>>,
   reading_head |-> TRUE]

\* The key without its leading zero bytes, for "while mask".
Codes(key) ==
  LET some == {i \in DOMAIN key : key[i] # 0}
  IN IF some = {} THEN <<>>
     ELSE SubSeq(key, CHOOSE i \in some : \A j \in some : i <= j, Len(key))

\* What on_read ends with: nothing, an exception, a close, or a frame's data.
Ends(f)          == [frame |-> f, event |-> "none", data |-> <<>>]
Raises(f)        == [frame |-> f, event |-> "raise", data |-> <<>>]
Closes(f)        == [frame |-> f, event |-> "close", data |-> <<>>]
Completes(f, s)  == [frame |-> f, event |-> "frame", data |-> s]

\* Faulty: the key is not waited for.
ExpectedLess(len1, mask) ==
  IF len1 = Half - 2 THEN Width2 ELSE IF len1 = Half - 1 THEN Width8
  ELSE len1

\* What is to be read after the first two bytes.
Expected(len1, mask) ==
  (IF len1 = Half - 2 THEN Width2 ELSE IF len1 = Half - 1 THEN Width8
   ELSE len1) + (IF mask THEN 4 ELSE 0)

ReadHeader(f) ==
  LET mask == f.buf[2] >= Half
      len1 == f.buf[2] % Half
  IN [f EXCEPT !.header = TRUE, !.mask = mask, !.len1 = len1,
               !.buf = Without(2, @),
               !.remain_len = Expected(len1, mask),
               !.data_len = IF len1 < Half - 2 THEN len1 ELSE None]

ReadLength(f) ==
  LET width == IF f.len1 = Half - 2 THEN Width2 ELSE Width8
      n     == Unpack(First(width, f.buf))
  IN [f EXCEPT !.buf = Without(width, @), !.data_len = n,
               !.remain_len = @ + n - width,
               !.reading_head = @ /\ f.mask]

ReadMask(f) ==
  [f EXCEPT !.reading_head = FALSE, !.mask_codes = Codes(First(4, f.buf)),
            !.buf = Without(4, @), !.remain_len = @ - 4]

\* The last branch.  data is written after what has been; ws_unmask raises for
\* a place whose code is not there.
ReadData(f, data) ==
  LET g == [f EXCEPT !.payload = @ \o data, !.remain_len = @ - Len(data)]
      n == Len(g.payload)
  IN IF g.remain_len # 0 THEN Ends(g)
     ELSE IF g.mask_codes = <<>> THEN Completes(g, g.payload)
     ELSE IF \E i \in 1 .. n : 1 + ((i - 1) % 4) > Len(g.mask_codes)
     THEN Raises(g)
     ELSE Completes(g, Masked(g.mask_codes, g.payload))

\* on_read of a frame and what came calls itself with no more.
Reading ==
  {f \in [header : BOOLEAN, mask : BOOLEAN, len1 : Nat, mask_codes : Seq(Nat),
          buf : Seq(Nat), remain_len : Int, data_len : Nat \cup {None},
          payload : Seq(Nat), reading_head : BOOLEAN] :
     f.header \/ (f.reading_head /\ f.remain_len >= 2)}

Received(frame, s) ==
  IF frame.reading_head THEN [frame EXCEPT !.buf = @ \o s] ELSE frame

on_read[x \in Reading \X Seq(Nat)] ==
  LET f        == Received(x[1], x[2])
      Again(g) == IF g.buf = <<>> THEN Ends(g) ELSE on_read[<<g, <<>>>>]
  IN IF f.reading_head /\ Len(f.buf) < f.remain_len THEN Ends(f)
     ELSE IF ~f.header
     THEN IF f.buf[1] = CLOSE THEN Closes(ReadHeader(f))
          ELSE Again(ReadHeader(f))
     ELSE IF f.data_len = None THEN Again(ReadLength(f))
     ELSE IF f.mask /\ f.mask_codes = <<>>
     THEN IF Len(f.buf) < 4 THEN Raises(f) ELSE Again(ReadMask(f))
     ELSE ReadData(f, f.buf \o x[2])

\* Without mask_codes, as handle_frame calls it.
make_frame_data(msg) ==
  LET n == Len(msg)
  IN <<Text>> \o (IF n > BytePow[Width2] - 1
                  THEN <<Half - 1>> \o Pack(n, Width8)
                  ELSE IF n > Half - 3 THEN <<Half - 2>> \o Pack(n, Width2)
                  ELSE <<n>>) \o msg

-----------------------------------------------------------------------------

Init ==
  /\ frames = <<>> /\ taken = 0 /\ cur_frame = NewFrame
  /\ output = <<>> /\ open = TRUE /\ tame = TRUE

\* What WSFrame reads in order whatever the cuts: a frame masked with a key
\* whose first byte is not zero, with data in it.
Tame(f) == f.opcode = CLOSE \/ (f.key # <<>> /\ f.key[1] # 0 /\ f.data # <<>>)

PeerSends ==
  /\ Len(frames) < MaxFrames
  /\ \E f \in Frames : /\ frames' = Append(frames, f)
                       /\ tame' = (tame /\ Tame(f))
  /\ UNCHANGED <<taken, cur_frame, output, open>>

\* WSHandle.handle_message with what one read brought.  A WSFrame that was not
\* made yet is as a new one.  Bound: nothing is read once remain_len is below 0;
\* it never grows again, so from then on reads only fill the payload.
Reads ==
  /\ open /\ cur_frame.remain_len >= 0
  /\ \E n \in 1 .. Len(Input) - taken :
       /\ taken' = taken + n
       /\ tame' = (tame /\ \A k \in DOMAIN frames :
                             End(k) \notin taken + 1 .. taken + n - 1)
       /\ \E r \in {on_read[<<cur_frame, SubSeq(Input, taken + 1, taken + n)>>]} :
            /\ cur_frame' = IF r.event = "frame" THEN NewFrame ELSE r.frame
            /\ output' = IF r.event # "frame" THEN output
                         ELSE Append(output, make_frame_data(Lead \o r.data))
            /\ open' = (r.event # "close")
  /\ UNCHANGED frames

Next == PeerSends \/ Reads

Spec == Init /\ [][Next]_vars

-----------------------------------------------------------------------------

\* The frames whose bytes have all been read; of a close, the first two.
Arrived == {k \in DOMAIN frames :
              taken >= IF frames[k].opcode = CLOSE THEN End(k - 1) + 2
                       ELSE End(k)}

\* WSFrame.on_read and make_frame_data: while every frame is masked with a key
\* that does not begin with zero and has data, and no read brings bytes of two
\* frames, each frame is answered by the read that completes it, with the frame
\* RFC 6455 gives for its echo, and a close closes, whatever the cuts.
FramesArrive ==
  LET texts == {k \in Arrived : frames[k].opcode # CLOSE}
  IN tame => /\ Len(output) = Cardinality(texts)
             /\ \A k \in texts :
                  output[Cardinality({j \in texts : j <= k})]
                    = FrameBytes(Text, <<>>, Lead \o frames[k].data)
             /\ open <=> texts = Arrived
=============================================================================

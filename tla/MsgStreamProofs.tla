-------------------------- MODULE MsgStreamProofs --------------------------
(***************************************************************************)
(* The safety invariants of MsgStream hold in every reachable state, for   *)
(* every BUFFER_SIZE, length of a header, messages and replies, every      *)
(* capacity of the kernel's send buffer and any number of connections.     *)
(*                                                                         *)
(* Buffer::resize() copies fewer bytes than the buffer may have.  It never *)
(* loses one while a buffer holds at most twice BUFFER_SIZE, since then it *)
(* is called once, when size and capacity are the same (Roomy).            *)
(*                                                                         *)
(* The last part shows that MsgStream implements Channel.                  *)
(***************************************************************************)
EXTENDS MsgStream, SequenceTheorems, TLAPS

(* Buffers: shorter names for the operators of the instance. *)
readable(b)  == Buffers!readable_size(b)
IsBuf(b, C)  == Buffers!IsBuffer(b, C)

\* All of the buffer is copied by a resize(), or none is needed to hold twice
\* BUFFER_SIZE.
Roomy(b) ==
  \/ b.size = Len(b.date) /\ b.size >= BUFFER_SIZE
  \/ Len(b.date) >= 2 * BUFFER_SIZE

\* w has the unread bytes of b at the head of its own.
Keeps(w, b) ==
  \A i \in 1 .. readable(b) : w.date[w.start_idx + i] = b.date[b.start_idx + i]

-----------------------------------------------------------------------------
(* The invariant, by what the parts of the state have to do with each other. *)

Byte == Nat \ {0}

\* The bytes of n messages, and what may be in a buffer of them.
BytesOf(n) == (1 .. n) \X Byte
CellOf(n)  == {Zero} \cup BytesOf(n)
OutCell    == {0} \X Nat

\* The place of the last byte of message m, of those with lengths ls.
EndOf(ls, m) == HeaderSize + ls[m]

PeerTypes ==
  /\ lens \in Seq(Lengths)
  /\ input \in Seq(BytesOf(Len(lens)))
  /\ input = <<>> => lens = <<>>
  /\ input # <<>> => input[1] = <<1, 1>> /\ input[Len(input)][1] = Len(lens)

\* What the peer sends are whole messages, one after the other: from any byte
\* on, those up to the end of its message are the bytes that come next.
BytesFollow(ls, in) ==
  \A i \in 1 .. Len(in) :
    /\ in[i][2] <= EndOf(ls, in[i][1])
    /\ \A j \in i .. Len(in) :
         in[i][2] + (j - i) <= EndOf(ls, in[i][1]) =>
           in[j] = <<in[i][1], in[i][2] + (j - i)>>

MessagesFollow(ls, in) ==
  \A i \in 1 .. Len(in) - 1 :
    in[i][2] = EndOf(ls, in[i][1]) => in[i + 1] = <<in[i][1] + 1, 1>>

ReadTypes ==
  /\ received \in 0 .. Len(input) /\ held \in Nat
  /\ IsBuf(pread, CellOf(Len(lens))) /\ readable(pread) <= received
  /\ msg \in [len : Nat, data : Seq(Nat \X Nat)]
  /\ handled \in Seq(Seq(Nat \X Nat))
  /\ msg.len = 0 => msg.data = <<>>
  /\ msg.len > 0 => Len(msg.data) < msg.len

\* handle_read goes on until the buffer has no length, or none of the data.
AllRead ==
  IF msg.len = 0 THEN readable(pread) < HeaderSize ELSE readable(pread) = 0

ReadsAll ==
  /\ pc \in {"select", "send"} => AllRead
  /\ pc = "data" /\ msg.len = 0 => readable(pread) < HeaderSize

Small == held <= 2 * BUFFER_SIZE

\* How much of the input handle_read has gone through.
Gone == received - readable(pread)

PreadKeeps ==
  Small => /\ Roomy(pread)
           /\ \A i \in 1 .. readable(pread) :
                pread.date[pread.start_idx + i] = input[Gone + i]

\* Between messages handle_read has gone through the last byte of the message
\* that was handled last.
AtBoundary ==
  IF handled = <<>> THEN Gone = 0
  ELSE Gone > 0 /\ input[Gone] = <<Len(handled), EndOf(lens, Len(handled))>>

\* Within one it has gone through the byte that is last in the Msg.
WithinMessage ==
  LET m == Len(handled) + 1
  IN /\ Gone > 0 /\ input[Gone] = <<m, HeaderSize + Len(msg.data)>>
     /\ msg.len = lens[m]
     /\ \A i \in 1 .. Len(msg.data) : msg.data[i] = <<m, HeaderSize + i>>

Position ==
  Small /\ whole =>
    /\ msg.len = 0 => AtBoundary
    /\ msg.len > 0 => WithinMessage

HandledIsSent ==
  Small /\ whole =>
    \A m \in 1 .. Len(handled) : handled[m] = DataOf(m)

WriteTypes ==
  /\ written \in Nat /\ heldOut \in Nat
  /\ IsBuf(pwrite, OutCell)
  /\ size = IF pc = "send" THEN readable(pwrite) ELSE 0

PwriteKeeps ==
  heldOut <= 2 * BUFFER_SIZE =>
    /\ Roomy(pwrite)
    /\ \A i \in 1 .. readable(pwrite) :
         pwrite.date[pwrite.start_idx + i] = <<0, written - readable(pwrite) + i>>

Bounds ==
  /\ replies \in 0 .. MaxReplies
  /\ sndq \in 0 .. SndCap
  /\ closes \in 0 .. MaxCloses
  /\ gone \in Nat /\ gone + Len(input) <= MaxBytes
  /\ pc \in {"select", "recv", "length", "data", "send", "abort"}

PeerInv  == PeerTypes /\ BytesFollow(lens, input) /\ MessagesFollow(lens, input)
ReadInv  == ReadTypes /\ ReadsAll /\ PreadKeeps /\ Position /\ HandledIsSent
WriteInv == WriteTypes /\ PwriteKeeps

\* The inductive invariant.
Inv == PeerInv /\ ReadInv /\ WriteInv /\ Bounds

-----------------------------------------------------------------------------
(* Facts about Buffer's operators. *)

(* What it is to be a buffer. *)
LEMMA BufTypes ==
  ASSUME NEW C, NEW b, IsBuf(b, C)
  PROVE  /\ b.date \in Seq(C) /\ Len(b.date) \in Nat
         /\ b.size \in Nat /\ b.start_idx \in Nat /\ b.end_idx \in Nat
         /\ b.start_idx <= b.end_idx /\ b.end_idx <= Len(b.date)
         /\ b.size <= Len(b.date)
         /\ readable(b) = b.end_idx - b.start_idx /\ readable(b) \in Nat
         /\ DOMAIN b.date = 1 .. Len(b.date)
         /\ \A i \in 1 .. Len(b.date) : b.date[i] \in C
<1>1. /\ b.date \in Seq(C) /\ b.size \in Nat /\ b.start_idx \in Nat /\ b.end_idx \in Nat
      /\ b.start_idx <= b.end_idx /\ b.end_idx <= Len(b.date)
      /\ b.size <= Len(b.date)
  BY DEF IsBuf, Buffers!IsBuffer, Buffers!Buffers
<1> QED
  BY <1>1 DEF readable, Buffers!readable_size

(* A buffer from its parts. *)
LEMMA BufFrom ==
  ASSUME NEW C, NEW date \in Seq(C), NEW sz \in Nat, NEW start \in Nat, NEW end \in Nat,
         start <= end, end <= Len(date), sz <= Len(date)
  PROVE  IsBuf([date |-> date, size |-> sz, start_idx |-> start, end_idx |-> end], C)
  BY DEF IsBuf, Buffers!IsBuffer, Buffers!Buffers

(* A record that is known by its fields. *)
LEMMA Fields ==
  ASSUME NEW date, NEW sz, NEW start, NEW end,
         NEW w \in [date : {date}, size : {sz}, start_idx : {start}, end_idx : {end}]
  PROVE  w = [date |-> date, size |-> sz, start_idx |-> start, end_idx |-> end]
<1>1. /\ w = [date |-> w.date, size |-> w.size, start_idx |-> w.start_idx,
              end_idx |-> w.end_idx]
      /\ w.date = date /\ w.size = sz /\ w.start_idx = start /\ w.end_idx = end
  OBVIOUS
<1> QED
  BY <1>1

(* What the assignments of Buffer's operators leave. *)
LEMMA Assigned ==
  ASSUME NEW C, NEW b, IsBuf(b, C), NEW date, NEW sz, NEW end
  PROVE  /\ [b EXCEPT !.date = date, !.size = sz] =
              [date |-> date, size |-> sz, start_idx |-> b.start_idx,
               end_idx |-> b.end_idx]
         /\ [b EXCEPT !.date = date, !.end_idx = end] =
              [date |-> date, size |-> b.size, start_idx |-> b.start_idx,
               end_idx |-> end]
<1>1. b \in [date : Seq(C), size : Nat, start_idx : Nat, end_idx : Nat]
  BY DEF IsBuf, Buffers!IsBuffer, Buffers!Buffers
<1>2. /\ [b EXCEPT !.date = date, !.size = sz] \in
           [date : {date}, size : {sz}, start_idx : {b.start_idx},
            end_idx : {b.end_idx}]
      /\ [b EXCEPT !.date = date, !.end_idx = end] \in
           [date : {date}, size : {b.size}, start_idx : {b.start_idx}, end_idx : {end}]
  BY <1>1
<1> QED
  BY <1>2, Fields

LEMMA StartAssigned ==
  ASSUME NEW C, NEW b, IsBuf(b, C), NEW start
  PROVE  [b EXCEPT !.start_idx = start] =
           [date |-> b.date, size |-> b.size, start_idx |-> start,
            end_idx |-> b.end_idx]
<1>1. b \in [date : Seq(C), size : Nat, start_idx : Nat, end_idx : Nat]
  BY DEF IsBuf, Buffers!IsBuffer, Buffers!Buffers
<1>2. [b EXCEPT !.start_idx = start] \in
        [date : {b.date}, size : {b.size}, start_idx : {start},
         end_idx : {b.end_idx}]
  BY <1>1
<1> QED
  BY <1>2, Fields

LEMMA Moved ==
  ASSUME NEW C, NEW b, IsBuf(b, C), NEW date, NEW start, NEW end
  PROVE  [b EXCEPT !.date = date, !.start_idx = start, !.end_idx = end] =
           [date |-> date, size |-> b.size, start_idx |-> start, end_idx |-> end]
<1>1. b \in [date : Seq(C), size : Nat, start_idx : Nat, end_idx : Nat]
  BY DEF IsBuf, Buffers!IsBuffer, Buffers!Buffers
<1>2. [b EXCEPT !.date = date, !.start_idx = start, !.end_idx = end] \in
        [date : {date}, size : {b.size}, start_idx : {start}, end_idx : {end}]
  BY <1>1
<1> QED
  BY <1>2, Fields

(* A sequence from a function. *)
LEMMA SeqFrom ==
  ASSUME NEW C, NEW n \in Nat, NEW f, f \in [1 .. n -> C]
  PROVE  f \in Seq(C) /\ Len(f) = n
  BY SeqDef

LEMMA MoveStep ==
  ASSUME NEW C, NEW b, IsBuf(b, C)
  PROVE  LET w == Buffers!MoveToFront(b)
         IN /\ IsBuf(w, C) /\ readable(w) = readable(b) /\ Keeps(w, b)
            /\ w.start_idx = 0 /\ w.size = b.size /\ Len(w.date) = Len(b.date)
<1> DEFINE n == Len(b.date)
           date == [i \in 1 .. n |-> IF i <= readable(b) THEN b.date[b.start_idx + i]
                                     ELSE b.date[i]]
           w == [date |-> date, size |-> b.size, start_idx |-> 0, end_idx |-> readable(b)]
<1>1. Buffers!MoveToFront(b) = w
  <2>1. date = [i \in DOMAIN b.date |->
                  IF i <= Buffers!readable_size(b) THEN b.date[b.start_idx + i]
                  ELSE b.date[i]]
    BY BufTypes DEF readable
  <2> HIDE DEF date
  <2>2. Buffers!MoveToFront(b) =
          [b EXCEPT !.date = date, !.start_idx = 0, !.end_idx = readable(b)]
    BY <2>1 DEF Buffers!MoveToFront, readable
  <2>3. [b EXCEPT !.date = date, !.start_idx = 0, !.end_idx = readable(b)] = w
    BY Moved
  <2> QED
    BY <2>2, <2>3
<1>2. date \in Seq(C) /\ Len(date) = n
  <2>1. \A i \in 1 .. n : i <= readable(b) => b.start_idx + i \in 1 .. n
    BY BufTypes
  <2>2. date \in [1 .. n -> C] /\ n \in Nat
    BY <2>1, BufTypes
  <2> QED
    BY <2>2, SeqFrom
<1>3. \A i \in 1 .. readable(b) : date[i] = b.date[b.start_idx + i]
  BY BufTypes
<1> HIDE DEF date
<1>4. IsBuf(w, C)
  BY <1>2, BufFrom, BufTypes
<1>5. readable(w) = readable(b) /\ w.start_idx = 0 /\ w.size = b.size /\ w.date = date
  BY BufTypes DEF readable, Buffers!readable_size
<1>6. Keeps(w, b)
  BY <1>3, <1>5, BufTypes DEF Keeps
<1> QED
  BY <1>1, <1>2, <1>4, <1>5, <1>6

LEMMA GrowStep ==
  ASSUME NEW C, Zero \in C, NEW b, IsBuf(b, C), NEW n \in Nat, n >= Len(b.date)
  PROVE  LET w == Buffers!Grow(b, n)
         IN /\ IsBuf(w, C) /\ readable(w) = readable(b)
            /\ w.start_idx = b.start_idx /\ w.end_idx = b.end_idx
            /\ Len(w.date) >= n /\ Len(w.date) >= 2 * b.size
            /\ b.size = Len(b.date) => Keeps(w, b)
<1> DEFINE cap == IF n > 2 * b.size THEN n ELSE 2 * b.size
           date == [i \in 1 .. cap |-> IF i <= b.size THEN b.date[i] ELSE Zero]
           w == [date |-> date, size |-> n, start_idx |-> b.start_idx,
                 end_idx |-> b.end_idx]
<1>1. Buffers!Grow(b, n) = w
  <2>1. Buffers!Grow(b, n) = [b EXCEPT !.date = date, !.size = n]
    BY DEF Buffers!Grow
  <2> HIDE DEF date
  <2> QED
    BY <2>1, Assigned
<1>2. cap \in Nat /\ cap >= n /\ cap >= 2 * b.size
  BY BufTypes
<1>3. date \in Seq(C) /\ Len(date) = cap
  <2>1. \A i \in 1 .. cap : i <= b.size => i \in 1 .. Len(b.date)
    BY <1>2, BufTypes
  <2> HIDE DEF cap
  <2>2. date \in [1 .. cap -> C]
    BY <2>1, BufTypes
  <2> QED
    BY <1>2, <2>2, SeqFrom
<1>4. b.size = Len(b.date) => \A i \in 1 .. readable(b) :
        date[b.start_idx + i] = b.date[b.start_idx + i]
  <2>1. ASSUME b.size = Len(b.date), NEW i \in 1 .. readable(b)
        PROVE  b.start_idx + i \in 1 .. cap /\ b.start_idx + i <= b.size
    BY <1>2, <2>1, BufTypes
  <2> QED
    BY <2>1
<1> HIDE DEF date, cap
<1>5. IsBuf(w, C)
  <2>1. b.start_idx <= b.end_idx /\ b.end_idx <= Len(date) /\ n <= Len(date)
    BY <1>2, <1>3, BufTypes
  <2> QED
    BY <1>3, <2>1, BufFrom, BufTypes
<1>6. /\ readable(w) = readable(b) /\ w.start_idx = b.start_idx
      /\ w.end_idx = b.end_idx /\ w.date = date
  BY DEF readable, Buffers!readable_size
<1>7. b.size = Len(b.date) => Keeps(w, b)
  BY <1>4, <1>6 DEF Keeps
<1> QED
  BY <1>1, <1>2, <1>3, <1>5, <1>6, <1>7

(* There is room to write len bytes, and none that is unread is lost if the
   buffer is not to hold more than twice BUFFER_SIZE. *)
LEMMA SpaceStep ==
  ASSUME NEW C, Zero \in C, NEW b, IsBuf(b, C), NEW len \in Nat
  PROVE  LET w == Buffers!make_write_space(b, len)
         IN /\ IsBuf(w, C) /\ readable(w) = readable(b)
            /\ Len(w.date) - w.end_idx >= len
            /\ Roomy(b) /\ readable(b) + len <= 2 * BUFFER_SIZE => Roomy(w) /\ Keeps(w, b)
<1> DEFINE w == Buffers!make_write_space(b, len)
           room == Len(b.date) - b.end_idx
<1>1. room \in Nat
  BY BufTypes
<1>2. CASE room >= len
  <2>1. w = b
    BY <1>2 DEF Buffers!make_write_space, Buffers!writeable_size
  <2>2. Keeps(b, b)
    BY DEF Keeps
  <2> QED
    BY <1>2, <2>1, <2>2
<1>3. CASE room < len /\ b.start_idx + room >= len
  <2>1. w = Buffers!MoveToFront(b)
    BY <1>1, <1>3 DEF Buffers!make_write_space, Buffers!writeable_size
  <2>2. /\ IsBuf(w, C) /\ readable(w) = readable(b) /\ Keeps(w, b)
        /\ w.start_idx = 0 /\ w.size = b.size /\ Len(w.date) = Len(b.date)
    BY <2>1, MoveStep
  <2> HIDE DEF w
  <2>3. w.end_idx = readable(b)
    BY <2>2, BufTypes
  <2>4. Len(w.date) - w.end_idx >= len
    <3>1. /\ b.end_idx \in Nat /\ b.start_idx \in Nat /\ Len(b.date) \in Nat
          /\ b.end_idx = b.start_idx + readable(b) /\ readable(b) \in Nat
      BY BufTypes
    <3> QED
      BY <1>3, <2>2, <2>3, <3>1
  <2>5. Roomy(b) => Roomy(w)
    BY <2>2 DEF Roomy
  <2> QED
    BY <2>2, <2>4, <2>5 DEF w
<1>4. CASE room < len /\ b.start_idx + room < len
  <2> DEFINE n == b.end_idx + len
  <2>1. n \in Nat /\ n >= Len(b.date)
    BY <1>4, BufTypes
  <2>2. w = Buffers!Grow(b, n)
    BY <1>1, <1>4, BufTypes
    DEF Buffers!make_write_space, Buffers!writeable_size
  <2> HIDE DEF n
  <2>3. /\ IsBuf(w, C) /\ readable(w) = readable(b)
        /\ w.start_idx = b.start_idx /\ w.end_idx = b.end_idx
        /\ Len(w.date) >= n /\ Len(w.date) >= 2 * b.size
        /\ b.size = Len(b.date) => Keeps(w, b)
    BY <2>1, <2>2, GrowStep
  <2> HIDE DEF w
  <2>4. Len(w.date) \in Nat
    BY <2>3, BufTypes
  <2>5. Len(w.date) - w.end_idx >= len
    BY <2>3, <2>4, BufTypes DEF n
  <2>6. ASSUME Roomy(b), readable(b) + len <= 2 * BUFFER_SIZE
        PROVE  Roomy(w) /\ Keeps(w, b)
    <3>1. Len(b.date) < 2 * BUFFER_SIZE
      BY <1>4, <2>6, BufTypes, MsgStreamAssumption
    <3>2. b.size = Len(b.date) /\ b.size >= BUFFER_SIZE
      BY <2>6, <3>1, BufTypes, MsgStreamAssumption DEF Roomy
    <3>3. Len(w.date) >= 2 * BUFFER_SIZE
      BY <2>3, <2>4, <3>2, BufTypes, MsgStreamAssumption
    <3> QED
      BY <2>3, <3>2, <3>3 DEF Roomy
  <2> QED
    BY <2>3, <2>5, <2>6 DEF w
<1> QED
  BY <1>1, <1>2, <1>3, <1>4, BufTypes

(* Bytes are copied to the end of a buffer that has room for them. *)
Written(w, b, s) ==
  /\ readable(w) = readable(b) + Len(s)
  /\ \A i \in 1 .. Len(s) : w.date[w.start_idx + readable(b) + i] = s[i]

LEMMA PutStep ==
  ASSUME NEW C, NEW b, IsBuf(b, C), NEW s \in Seq(C), Len(b.date) - b.end_idx >= Len(s)
  PROVE  LET w == Buffers!Put(b, s)
         IN /\ IsBuf(w, C) /\ Written(w, b, s) /\ Keeps(w, b)
            /\ Roomy(b) => Roomy(w)
<1> DEFINE n == Len(b.date)
           date == [i \in 1 .. n |->
                      IF i \in b.end_idx + 1 .. b.end_idx + Len(s)
                      THEN s[i - b.end_idx] ELSE b.date[i]]
           w == [date |-> date, size |-> b.size, start_idx |-> b.start_idx,
                 end_idx |-> b.end_idx + Len(s)]
<1>1. Buffers!Put(b, s) = w
  <2>1. Buffers!Put(b, s) = [b EXCEPT !.date = date, !.end_idx = b.end_idx + Len(s)]
    <3>1. b \in [date : Seq(C), size : Nat, start_idx : Nat, end_idx : Nat]
      BY DEF IsBuf, Buffers!IsBuffer, Buffers!Buffers
    <3>2. DOMAIN b.date = 1 .. n
      BY BufTypes
    <3> QED
      BY <3>1, <3>2 DEF Buffers!Put
  <2> HIDE DEF date
  <2>2. [b EXCEPT !.date = date, !.end_idx = b.end_idx + Len(s)] = w
    BY Assigned
  <2> QED
    BY <2>1, <2>2
<1>2. Len(s) \in Nat /\ DOMAIN s = 1 .. Len(s) /\ \A i \in 1 .. Len(s) : s[i] \in C
  OBVIOUS
<1>3. date \in Seq(C) /\ Len(date) = n
  <2>1. \A i \in 1 .. n : i \in b.end_idx + 1 .. b.end_idx + Len(s) =>
          i - b.end_idx \in 1 .. Len(s)
    BY <1>2, BufTypes
  <2>2. date \in [1 .. n -> C] /\ n \in Nat
    BY <1>2, <2>1, BufTypes
  <2> QED
    BY <2>2, SeqFrom
<1>4. \A i \in 1 .. readable(b) : date[b.start_idx + i] = b.date[b.start_idx + i]
  <2>1. ASSUME NEW i \in 1 .. readable(b)
        PROVE  /\ b.start_idx + i \in 1 .. n
               /\ b.start_idx + i \notin b.end_idx + 1 .. b.end_idx + Len(s)
    <3>1. /\ b.start_idx \in Nat /\ b.end_idx \in Nat /\ n \in Nat
          /\ b.end_idx = b.start_idx + readable(b) /\ b.end_idx <= n
          /\ readable(b) \in Nat
      BY BufTypes
    <3>2. /\ b.start_idx + i \in Nat /\ b.start_idx + i >= 1
          /\ b.start_idx + i <= b.end_idx
      BY <3>1
    <3> HIDE DEF n
    <3> QED
      BY <1>2, <3>1, <3>2
  <2> QED
    BY <2>1
<1>5. \A i \in 1 .. Len(s) : date[b.start_idx + readable(b) + i] = s[i]
  <2>1. ASSUME NEW i \in 1 .. Len(s)
        PROVE  date[b.start_idx + readable(b) + i] = s[i]
    <3>1. /\ b.end_idx \in Nat /\ n \in Nat /\ n - b.end_idx >= Len(s)
          /\ b.start_idx + readable(b) = b.end_idx
      BY BufTypes
    <3>2. /\ b.end_idx + i \in 1 .. n
          /\ b.end_idx + i \in b.end_idx + 1 .. b.end_idx + Len(s)
          /\ (b.end_idx + i) - b.end_idx = i
      BY <1>2, <3>1
    <3> QED
      BY <3>1, <3>2
  <2> QED
    BY <2>1
<1> HIDE DEF date
<1>6. IsBuf(w, C)
  <2> DEFINE e == b.end_idx + Len(s)
  <2>1. /\ b.size \in Nat /\ b.start_idx \in Nat /\ e \in Nat
        /\ b.start_idx <= e /\ e <= Len(date) /\ b.size <= Len(date)
    BY <1>2, <1>3, BufTypes
  <2> HIDE DEF e
  <2>2. IsBuf([date |-> date, size |-> b.size, start_idx |-> b.start_idx,
               end_idx |-> e], C)
    BY <1>3, <2>1, BufFrom
  <2> QED
    BY <2>2 DEF e
<1>7. readable(w) = readable(b) + Len(s)
  BY <1>2, BufTypes DEF readable, Buffers!readable_size
<1>8. w.start_idx = b.start_idx /\ w.date = date /\ w.size = b.size
  OBVIOUS
<1>9. Written(w, b, s) /\ Keeps(w, b)
  BY <1>4, <1>5, <1>7, <1>8 DEF Written, Keeps
<1>10. Roomy(b) => Roomy(w)
  BY <1>3, <1>8 DEF Roomy
<1> QED
  BY <1>1, <1>6, <1>9, <1>10

(* Buffer::write. *)
LEMMA WriteStep ==
  ASSUME NEW C, Zero \in C, NEW b, IsBuf(b, C), NEW s \in Seq(C)
  PROVE  LET w == Buffers!write(b, s)
         IN /\ IsBuf(w, C) /\ Written(w, b, s)
            /\ Roomy(b) /\ readable(b) + Len(s) <= 2 * BUFFER_SIZE =>
                 Roomy(w) /\ Keeps(w, b)
<1> DEFINE v == Buffers!make_write_space(b, Len(s))
           w == Buffers!Put(v, s)
<1>1. Len(s) \in Nat
  OBVIOUS
<1>2. /\ IsBuf(v, C) /\ readable(v) = readable(b)
      /\ Len(v.date) - v.end_idx >= Len(s)
      /\ Roomy(b) /\ readable(b) + Len(s) <= 2 * BUFFER_SIZE => Roomy(v) /\ Keeps(v, b)
  BY <1>1, SpaceStep
<1> HIDE DEF v
<1>3. IsBuf(w, C) /\ Written(w, v, s) /\ Keeps(w, v) /\ (Roomy(v) => Roomy(w))
  BY <1>2, PutStep
<1> HIDE DEF w
<1>4. Written(w, b, s)
  BY <1>2, <1>3 DEF Written
<1>5. Keeps(v, b) => Keeps(w, b)
  BY <1>2, <1>3 DEF Keeps
<1>6. Buffers!write(b, s) = w
  BY DEF Buffers!write, v, w
<1> QED
  BY <1>2, <1>3, <1>4, <1>5, <1>6

(* Buffer::has_read. *)
LEMMA HasReadStep ==
  ASSUME NEW C, NEW b, IsBuf(b, C), NEW n \in 0 .. readable(b)
  PROVE  LET w == Buffers!has_read(b, n)
         IN /\ IsBuf(w, C) /\ readable(w) = readable(b) - n
            /\ w.date = b.date /\ w.start_idx = b.start_idx + n
            /\ Roomy(b) => Roomy(w)
<1> DEFINE w == [date |-> b.date, size |-> b.size, start_idx |-> b.start_idx + n,
                 end_idx |-> b.end_idx]
<1>1. Buffers!has_read(b, n) = w
  <2>1. Buffers!has_read(b, n) = [b EXCEPT !.start_idx = b.start_idx + n]
    <3>1. b \in [date : Seq(C), size : Nat, start_idx : Nat, end_idx : Nat]
      BY DEF IsBuf, Buffers!IsBuffer, Buffers!Buffers
    <3> QED
      BY <3>1 DEF Buffers!has_read
  <2> DEFINE k == b.start_idx + n
  <2> HIDE DEF k
  <2>2. [b EXCEPT !.start_idx = k] = [date |-> b.date, size |-> b.size,
                                     start_idx |-> k, end_idx |-> b.end_idx]
    BY StartAssigned
  <2> QED
    BY <2>1, <2>2 DEF k
<1>2. b.start_idx + n \in Nat /\ b.start_idx + n <= b.end_idx
  BY BufTypes
<1>3. IsBuf(w, C)
  BY <1>2, BufFrom, BufTypes
<1>4. readable(w) = readable(b) - n
  BY <1>2, BufTypes DEF readable, Buffers!readable_size
<1>5. Roomy(b) => Roomy(w)
  BY DEF Roomy
<1> QED
  BY <1>1, <1>3, <1>4, <1>5

(* A new Buffer. *)
LEMMA NewStep ==
  ASSUME NEW C, Zero \in C
  PROVE  LET w == Buffers!NewBuffer
         IN IsBuf(w, C) /\ readable(w) = 0 /\ w.start_idx = 0 /\ Roomy(w)
<1> DEFINE date == [i \in 1 .. BUFFER_SIZE |-> Zero]
           w == [date |-> date, size |-> BUFFER_SIZE, start_idx |-> 0, end_idx |-> 0]
<1>1. Buffers!NewBuffer = w
  BY DEF Buffers!NewBuffer
<1>2. date \in [1 .. BUFFER_SIZE -> C] /\ BUFFER_SIZE \in Nat
  BY MsgStreamAssumption
<1> HIDE DEF date
<1>3. date \in Seq(C) /\ Len(date) = BUFFER_SIZE
  BY <1>2, SeqFrom
<1>4. IsBuf(w, C)
  BY <1>2, <1>3, BufFrom
<1> QED
  BY <1>1, <1>2, <1>3, <1>4 DEF readable, Buffers!readable_size, Roomy

(* Where the unread bytes are. *)
LEMMA HeadFacts ==
  ASSUME NEW C, NEW b, IsBuf(b, C)
  PROVE  /\ readable(b) \in Nat /\ b.start_idx \in Nat
         /\ b.start_idx + readable(b) <= Len(b.date)
  BY BufTypes

(* A part of a sequence. *)
LEMMA PartFacts ==
  ASSUME NEW C, NEW s \in Seq(C), NEW i \in Nat, NEW n \in Nat, i + n <= Len(s)
  PROVE  /\ SubSeq(s, i + 1, i + n) \in Seq(C)
         /\ Len(SubSeq(s, i + 1, i + n)) = n
         /\ \A j \in 1 .. n : SubSeq(s, i + 1, i + n)[j] = s[i + j]
<1> DEFINE m == i + 1
           e == i + n
<1>1. m \in Int /\ e \in Int /\ \A j \in m .. e : s[j] \in C
  OBVIOUS
<1>2. (m <= e \/ n = 0) /\ e - m + 1 = n /\ \A j \in 1 .. n : m + j - 1 = i + j
  OBVIOUS
<1> HIDE DEF m, e
<1>3. /\ SubSeq(s, m, e) \in Seq(C)
      /\ Len(SubSeq(s, m, e)) = IF m <= e THEN e - m + 1 ELSE 0
      /\ \A j \in 1 .. e - m + 1 : SubSeq(s, m, e)[j] = s[m + j - 1]
  BY <1>1, SubSeqProperties
<1>4. /\ SubSeq(s, m, e) \in Seq(C) /\ Len(SubSeq(s, m, e)) = n
      /\ \A j \in 1 .. n : SubSeq(s, m, e)[j] = s[i + j]
  BY <1>2, <1>3
<1> QED
  BY <1>4 DEF m, e

(* Some cells of a buffer, and all that are unread. *)
LEMMA CellsFacts ==
  ASSUME NEW C, NEW b, IsBuf(b, C), NEW i \in Nat, NEW n \in Nat, i + n <= Len(b.date)
  PROVE  /\ Buffers!Cells(b, i, n) \in Seq(C)
         /\ Len(Buffers!Cells(b, i, n)) = n
         /\ \A j \in 1 .. n : Buffers!Cells(b, i, n)[j] = b.date[i + j]
<1> DEFINE date == b.date
<1>1. date \in Seq(C) /\ i + n <= Len(date)
  BY BufTypes
<1>2. Buffers!Cells(b, i, n) = SubSeq(date, i + 1, i + n)
  BY DEF Buffers!Cells
<1> HIDE DEF date
<1>3. /\ SubSeq(date, i + 1, i + n) \in Seq(C)
      /\ Len(SubSeq(date, i + 1, i + n)) = n
      /\ \A j \in 1 .. n : SubSeq(date, i + 1, i + n)[j] = date[i + j]
  BY <1>1, PartFacts
<1> QED
  BY <1>2, <1>3 DEF date

LEMMA ContentsFacts ==
  ASSUME NEW C, NEW b, IsBuf(b, C)
  PROVE  /\ Buffers!Contents(b) \in Seq(C)
         /\ Len(Buffers!Contents(b)) = readable(b)
         /\ \A j \in 1 .. readable(b) : Buffers!Contents(b)[j] = b.date[b.start_idx + j]
<1>1. b.end_idx = b.start_idx + readable(b) /\ b.start_idx \in Nat /\ readable(b) \in Nat
      /\ b.start_idx + readable(b) <= Len(b.date)
  BY BufTypes
<1>2. Buffers!Contents(b) = Buffers!Cells(b, b.start_idx, readable(b))
  BY <1>1 DEF Buffers!Contents, Buffers!Cells
<1> DEFINE i == b.start_idx
           n == readable(b)
<1> HIDE DEF i, n
<1>3. i \in Nat /\ n \in Nat /\ i + n <= Len(b.date)
  BY <1>1 DEF i, n
<1>4. /\ Buffers!Cells(b, i, n) \in Seq(C)
      /\ Len(Buffers!Cells(b, i, n)) = n
      /\ \A j \in 1 .. n : Buffers!Cells(b, i, n)[j] = b.date[i + j]
  BY <1>3, CellsFacts
<1> QED
  BY <1>2, <1>4 DEF i, n

(* A buffer of some cells is one of more. *)
LEMMA MoreCells ==
  ASSUME NEW C, NEW D, C \subseteq D, NEW b, IsBuf(b, C)
  PROVE  IsBuf(b, D)
<1>1. b.date \in Seq(D)
  <2>1. b.date \in [1 .. Len(b.date) -> C] /\ Len(b.date) \in Nat
    <3>1. b.date \in Seq(C)
      BY BufTypes
    <3> QED
      BY <3>1
  <2>2. b.date \in [1 .. Len(b.date) -> D]
    BY <2>1
  <2> QED
    BY <2>1, <2>2, SeqFrom
<1>2. b \in [date : Seq(C), size : Nat, start_idx : Nat, end_idx : Nat]
  BY DEF IsBuf, Buffers!IsBuffer, Buffers!Buffers
<1>3. b \in [date : Seq(D), size : Nat, start_idx : Nat, end_idx : Nat]
  BY <1>1, <1>2
<1> QED
  BY <1>3 DEF IsBuf, Buffers!IsBuffer, Buffers!Buffers

-----------------------------------------------------------------------------
(* What the invariant says of what a step leaves alone. *)

LEMMA PeerSame ==
  ASSUME PeerInv, UNCHANGED peerVars
  PROVE  PeerInv'
  BY DEF PeerInv, PeerTypes, BytesFollow, MessagesFollow, EndOf, peerVars

LEMMA ReadSame ==
  ASSUME ReadInv, UNCHANGED <<peerVars, readVars, whole>>,
         pc' \in {"select", "send"} => AllRead,
         pc' = "data" /\ msg.len = 0 => readable(pread) < HeaderSize
  PROVE  ReadInv'
<1>1. UNCHANGED <<lens, input, received, pread, msg, handled, held, whole>>
  BY DEF peerVars, readVars
<1>2. ReadTypes' /\ PreadKeeps'
  BY <1>1 DEF ReadInv, ReadTypes, PreadKeeps, Small, Gone
<1>3. ReadsAll'
  BY <1>1 DEF ReadsAll, AllRead
<1>4. Position' /\ HandledIsSent'
  BY <1>1
  DEF ReadInv, Position, HandledIsSent, Small, AtBoundary, WithinMessage, Gone,
      EndOf, DataOf
<1> QED
  BY <1>2, <1>3, <1>4 DEF ReadInv

LEMMA WriteSame ==
  ASSUME WriteInv, UNCHANGED <<pwrite, written, heldOut, size>>,
         pc' = "send" <=> pc = "send"
  PROVE  WriteInv'
<1>1. size' = IF pc' = "send" THEN readable(pwrite') ELSE 0
  BY DEF WriteInv, WriteTypes
<1> QED
  BY <1>1 DEF WriteInv, WriteTypes, PwriteKeeps

LEMMA BoundsSame ==
  ASSUME Bounds, UNCHANGED <<replies, sndq, closes, gone, input>>,
         pc' \in {"select", "recv", "length", "data", "send", "abort"}
  PROVE  Bounds'
  BY DEF Bounds

-----------------------------------------------------------------------------
(* The first state. *)

LEMMA InitInv == Init => Inv
<1> SUFFICES ASSUME Init PROVE Inv
  OBVIOUS
<1> USE DEF Init
<1>1. PeerInv
  BY DEF PeerInv, PeerTypes, BytesFollow, MessagesFollow
<1>2. /\ IsBuf(pread, CellOf(Len(lens))) /\ readable(pread) = 0 /\ Roomy(pread)
      /\ IsBuf(pwrite, OutCell) /\ readable(pwrite) = 0 /\ Roomy(pwrite)
  BY NewStep DEF CellOf, OutCell, Zero
<1>3. ReadTypes
  BY <1>2 DEF ReadTypes, NoMsg
<1>4. ReadsAll /\ PreadKeeps /\ Position /\ HandledIsSent
  BY <1>2, MsgStreamAssumption
  DEF NoMsg, ReadsAll, AllRead, PreadKeeps, Position, HandledIsSent,
      AtBoundary, Gone
<1>5. WriteInv
  BY <1>2 DEF WriteInv, WriteTypes, PwriteKeeps
<1>6. Bounds
  BY MsgStreamAssumption DEF Bounds
<1> QED
  BY <1>1, <1>3, <1>4, <1>5, <1>6 DEF Inv, ReadInv

-----------------------------------------------------------------------------
(* The peer. *)

(* Bytes of the input, and the messages they are of. *)
LEMMA InputFacts ==
  ASSUME PeerTypes
  PROVE  /\ Len(lens) \in Nat /\ Len(input) \in Nat
         /\ DOMAIN input = 1 .. Len(input)
         /\ \A m \in 1 .. Len(lens) :
              lens[m] \in Lengths /\ lens[m] \in Byte /\ EndOf(lens, m) \in Byte
         /\ \A i \in 1 .. Len(input) :
              /\ input[i] = <<input[i][1], input[i][2]>>
              /\ input[i][1] \in 1 .. Len(lens) /\ input[i][2] \in Byte
<1>1. /\ Len(lens) \in Nat /\ Len(input) \in Nat /\ DOMAIN input = 1 .. Len(input)
      /\ \A m \in 1 .. Len(lens) : lens[m] \in Lengths
      /\ \A i \in 1 .. Len(input) : input[i] \in BytesOf(Len(lens))
  BY DEF PeerTypes
<1>2. \A m \in 1 .. Len(lens) : lens[m] \in Byte /\ EndOf(lens, m) \in Byte
  <2>1. ASSUME NEW m \in 1 .. Len(lens)
        PROVE  lens[m] \in Byte /\ EndOf(lens, m) \in Byte
    <3>1. lens[m] \in Nat /\ lens[m] # 0 /\ HeaderSize \in Nat
      BY <1>1, MsgStreamAssumption
    <3> QED
      BY <3>1 DEF Byte, EndOf
  <2> QED
    BY <2>1
<1> QED
  BY <1>1, <1>2 DEF BytesOf

(* The messages handled, and the one that is read, are among those begun. *)
LEMMA HandledAreBegun ==
  ASSUME PeerInv, ReadInv, Small, whole
  PROVE  /\ Len(handled) \in Nat /\ Len(handled) <= Len(lens)
         /\ msg.len > 0 => Len(handled) + 1 <= Len(lens)
<1>1. /\ Len(handled) \in Nat /\ received \in 0 .. Len(input) /\ msg.len \in Nat
      /\ readable(pread) \in Nat /\ readable(pread) <= received
      /\ handled = <<>> => Len(handled) = 0
  BY BufTypes DEF ReadInv, ReadTypes
<1>2. Gone > 0 => Gone \in 1 .. Len(input)
  BY <1>1, InputFacts DEF PeerInv, Gone
<1>3. Gone > 0 => input[Gone][1] \in 1 .. Len(lens)
  BY <1>2, InputFacts DEF PeerInv
<1>4. CASE msg.len = 0
  BY <1>1, <1>3, <1>4, InputFacts DEF PeerInv, ReadInv, Position, AtBoundary
<1>5. CASE msg.len > 0
  BY <1>1, <1>3, <1>5, InputFacts DEF PeerInv, ReadInv, Position, WithinMessage
<1> QED
  BY <1>1, <1>4, <1>5

(* More input changes nothing in what was said of the reading of the rest. *)
LEMMA ReadOfMore ==
  ASSUME PeerInv, ReadInv, PeerTypes', UNCHANGED <<readVars, whole, pc>>,
         Len(lens) <= Len(lens'), \A m \in 1 .. Len(lens) : lens'[m] = lens[m],
         Len(input) <= Len(input'), \A i \in 1 .. Len(input) : input'[i] = input[i]
  PROVE  ReadInv'
<1>1. UNCHANGED <<received, pread, msg, handled, held, whole, pc>>
  BY DEF readVars
<1>2. /\ Len(lens) \in Nat /\ Len(lens') \in Nat /\ Len(input) \in Nat
      /\ Len(input') \in Nat
  BY DEF PeerInv, PeerTypes
<1>3. ReadTypes'
  <2>1. CellOf(Len(lens)) \subseteq CellOf(Len(lens'))
    BY <1>2 DEF CellOf, BytesOf
  <2>2. IsBuf(pread, CellOf(Len(lens')))
    BY <2>1, MoreCells DEF ReadInv, ReadTypes
  <2> QED
    BY <1>1, <1>2, <2>2 DEF ReadInv, ReadTypes
<1>4. ReadsAll'
  BY <1>1 DEF ReadInv, ReadsAll, AllRead
<1>5. /\ Gone \in Nat /\ Gone <= Len(input) /\ Gone' = Gone /\ readable(pread) \in Nat
      /\ \A i \in 1 .. readable(pread) : Gone + i \in 1 .. Len(input)
  BY <1>1, <1>2, BufTypes DEF ReadInv, ReadTypes, Gone
<1>6. PreadKeeps'
  BY <1>1, <1>5 DEF ReadInv, PreadKeeps, Small
<1>7. Position'
  <2> SUFFICES ASSUME Small, whole
               PROVE  /\ msg.len = 0 => AtBoundary'
                      /\ msg.len > 0 => WithinMessage'
    BY <1>1 DEF Position, Small
  <2>1. Gone > 0 => input'[Gone] = input[Gone]
    BY <1>2, <1>5
  <2>2. ASSUME msg.len = 0 PROVE AtBoundary'
    <3>1. Len(handled) > 0 => EndOf(lens', Len(handled)) = EndOf(lens, Len(handled))
      BY <1>1, HandledAreBegun DEF EndOf
    <3>2. handled # <<>> => Len(handled) > 0
      BY DEF ReadInv, ReadTypes
    <3> QED
      BY <1>1, <1>5, <2>1, <2>2, <3>1, <3>2 DEF ReadInv, Position, AtBoundary
  <2>3. ASSUME msg.len > 0 PROVE WithinMessage'
    <3>1. lens'[Len(handled) + 1] = lens[Len(handled) + 1]
      BY <2>3, HandledAreBegun
    <3> QED
      BY <1>1, <1>5, <2>1, <2>3, <3>1 DEF ReadInv, Position, WithinMessage
  <2> QED
    BY <2>2, <2>3
<1>8. HandledIsSent'
  <2>1. ASSUME Small, whole, NEW m \in 1 .. Len(handled)
        PROVE  lens'[m] = lens[m]
    BY <2>1, HandledAreBegun, <1>2
  <2> QED
    BY <1>1, <2>1 DEF ReadInv, HandledIsSent, Small, DataOf
<1> QED
  BY <1>3, <1>4, <1>6, <1>7, <1>8 DEF ReadInv

(* One byte more, <<m, k>>, of the same message or the first of the next. *)
Adds(ls, in, ls2, in2, n, m, k) ==
  /\ n \in Nat /\ m \in Nat /\ k \in Nat
  /\ Len(in) = n /\ Len(in2) = n + 1 /\ \A i \in 1 .. n : in2[i] = in[i]
  /\ \A i \in 1 .. n : /\ in[i][2] \in Nat /\ EndOf(ls, in[i][1]) \in Nat
                       /\ EndOf(ls2, in[i][1]) = EndOf(ls, in[i][1])
  /\ BytesFollow(ls, in) /\ MessagesFollow(ls, in)
  /\ in2[n + 1] = <<m, k>> /\ k <= EndOf(ls2, m) /\ EndOf(ls2, m) \in Nat
  /\ n > 0 => \/ in[n][2] = EndOf(ls, in[n][1]) /\ m = in[n][1] + 1 /\ k = 1
              \/ in[n][2] < EndOf(ls, in[n][1]) /\ m = in[n][1] /\ k = in[n][2] + 1

LEMMA OneMoreByte ==
  ASSUME NEW ls, NEW ls2, NEW in, NEW in2, NEW n, NEW m, NEW k,
         Adds(ls, in, ls2, in2, n, m, k)
  PROVE  BytesFollow(ls2, in2) /\ MessagesFollow(ls2, in2)
<1> SUFFICES ASSUME
      n \in Nat, m \in Nat, k \in Nat,
      Len(in) = n, Len(in2) = n + 1, \A i \in 1 .. n : in2[i] = in[i],
      \A i \in 1 .. n : in[i][2] \in Nat /\ EndOf(ls, in[i][1]) \in Nat
                        /\ EndOf(ls2, in[i][1]) = EndOf(ls, in[i][1]),
      BytesFollow(ls, in), MessagesFollow(ls, in),
      in2[n + 1] = <<m, k>>, k <= EndOf(ls2, m), EndOf(ls2, m) \in Nat,
      n > 0 => \/ in[n][2] = EndOf(ls, in[n][1]) /\ m = in[n][1] + 1 /\ k = 1
               \/ in[n][2] < EndOf(ls, in[n][1]) /\ m = in[n][1] /\ k = in[n][2] + 1
    PROVE BytesFollow(ls2, in2) /\ MessagesFollow(ls2, in2)
  BY DEF Adds
<1>1. ASSUME NEW i \in 1 .. n
      PROVE  /\ in2[i][2] <= EndOf(ls2, in2[i][1])
             /\ \A j \in i .. n + 1 :
                  in2[i][2] + (j - i) <= EndOf(ls2, in2[i][1]) =>
                    in2[j] = <<in2[i][1], in2[i][2] + (j - i)>>
  <2> DEFINE a == in[i][1]
             b == in[i][2]
             e == EndOf(ls, a)
  <2>1. in2[i] = in[i] /\ EndOf(ls2, a) = e /\ e \in Nat /\ b \in Nat
    OBVIOUS
  <2>2. b <= e /\ \A j \in i .. n : b + (j - i) <= e => in[j] = <<a, b + (j - i)>>
    BY DEF BytesFollow
  <2> HIDE DEF a, b, e
  <2>3. \A j \in i .. n : b + (j - i) <= e => in2[j] = <<a, b + (j - i)>>
    <3>1. \A j \in i .. n : in2[j] = in[j]
      OBVIOUS
    <3> QED
      BY <2>2, <3>1
  <2>4. ASSUME b + (n + 1 - i) <= e
        PROVE  in2[n + 1] = <<a, b + (n + 1 - i)>>
    <3>1. n \in i .. n /\ b + (n - i) <= e /\ b + (n - i) < e
      BY <2>1, <2>4
    <3>2. in[n] = <<a, b + (n - i)>>
      BY <2>2, <3>1
    <3>3. in[n][1] = a /\ in[n][2] = b + (n - i)
      BY <3>2
    <3>4. EndOf(ls, in[n][1]) = e
      BY <3>3 DEF e
    <3>5. m = a /\ k = b + (n - i) + 1
      BY <3>1, <3>3, <3>4
    <3> QED
      BY <2>1, <3>5
  <2>5. ASSUME NEW j \in i .. n + 1, b + (j - i) <= e
        PROVE  in2[j] = <<a, b + (j - i)>>
    <3>1. CASE j \in i .. n
      BY <2>3, <2>5, <3>1
    <3>2. CASE j = n + 1
      BY <2>4, <2>5, <3>2
    <3>3. j \in i .. n \/ j = n + 1
      OBVIOUS
    <3> QED
      BY <3>1, <3>2, <3>3
  <2> QED
    BY <2>1, <2>2, <2>5 DEF a, b
<1>2. /\ in2[n + 1][2] <= EndOf(ls2, in2[n + 1][1])
      /\ \A j \in n + 1 .. n + 1 :
           in2[n + 1][2] + (j - (n + 1)) <= EndOf(ls2, in2[n + 1][1]) =>
             in2[j] = <<in2[n + 1][1], in2[n + 1][2] + (j - (n + 1))>>
  OBVIOUS
<1>3. BytesFollow(ls2, in2)
  <2>1. ASSUME NEW i \in 1 .. n + 1
        PROVE  i \in 1 .. n \/ i = n + 1
    OBVIOUS
  <2> QED
    BY <1>1, <1>2, <2>1 DEF BytesFollow
<1>4. ASSUME NEW i \in 1 .. n, in2[i][2] = EndOf(ls2, in2[i][1])
      PROVE  in2[i + 1] = <<in2[i][1] + 1, 1>>
  <2>1. in2[i] = in[i] /\ EndOf(ls2, in[i][1]) = EndOf(ls, in[i][1])
    OBVIOUS
  <2>2. CASE i = n
    BY <1>4, <2>1, <2>2
  <2>3. CASE i \in 1 .. n - 1
    <3>1. i + 1 \in 1 .. n /\ i \in 1 .. Len(in) - 1
      BY <2>3
    <3>2. in2[i + 1] = in[i + 1]
      BY <3>1
    <3> QED
      BY <1>4, <2>1, <3>1, <3>2 DEF MessagesFollow
  <2> QED
    BY <2>2, <2>3
<1>5. MessagesFollow(ls2, in2)
  <2>1. Len(in2) - 1 = n
    OBVIOUS
  <2> QED
    BY <1>4, <2>1 DEF MessagesFollow
<1> QED
  BY <1>3, <1>5

LEMMA PeerBeginsStep ==
  ASSUME Inv, PeerBegins
  PROVE  Inv'
<1> DEFINE n == Len(input)
           m == Len(lens)
<1>1. PICK len \in Lengths : lens' = Append(lens, len)
  BY DEF PeerBegins
<1>2. /\ input' = Append(input, <<m + 1, 1>>) /\ AtMessageEnd
      /\ gone + Len(input) < MaxBytes
      /\ UNCHANGED <<readVars, writeVars, sendVars, sndq, lostVars, pc>>
  BY DEF PeerBegins
<1>3. n \in Nat /\ m \in Nat /\ lens \in Seq(Lengths) /\ input \in Seq(BytesOf(m))
  BY DEF Inv, PeerInv, PeerTypes
<1>4. /\ Len(lens') = m + 1 /\ lens' \in Seq(Lengths) /\ lens'[m + 1] = len
      /\ \A a \in 1 .. m : lens'[a] = lens[a]
  BY <1>1, <1>3
<1>5. BytesOf(m) \subseteq BytesOf(m + 1) /\ <<m + 1, 1>> \in BytesOf(m + 1)
  BY <1>3 DEF BytesOf, Byte
<1>6. /\ Len(input') = n + 1 /\ input' \in Seq(BytesOf(m + 1))
      /\ input'[n + 1] = <<m + 1, 1>>
      /\ \A i \in 1 .. n : input'[i] = input[i]
  <2>1. input \in Seq(BytesOf(m + 1))
    BY <1>3, <1>5
  <2> QED
    BY <1>2, <1>5, <2>1
<1>7. n > 0 => input[n][2] = EndOf(lens, m) /\ input[n][1] = m
  BY <1>2, <1>3 DEF AtMessageEnd, Last, Inv, PeerInv, PeerTypes, EndOf
<1>8. PeerTypes'
  BY <1>3, <1>4, <1>6 DEF PeerTypes, Inv, PeerInv
<1>9. EndOf(lens', m + 1) \in Nat /\ 1 <= EndOf(lens', m + 1)
  <2>1. len \in Nat /\ HeaderSize \in Nat /\ HeaderSize # 0
    BY MsgStreamAssumption
  <2> QED
    BY <1>4, <2>1 DEF EndOf
<1>10. \A i \in 1 .. n :
         /\ input[i][2] \in Nat /\ EndOf(lens, input[i][1]) \in Nat
         /\ EndOf(lens', input[i][1]) = EndOf(lens, input[i][1])
  <2>1. \A a \in 1 .. m : EndOf(lens, a) \in Nat /\ EndOf(lens', a) = EndOf(lens, a)
    BY <1>4, InputFacts DEF EndOf, Inv, PeerInv, Byte
  <2> QED
    BY <2>1, InputFacts DEF Inv, PeerInv, Byte
<1>11. BytesFollow(lens', input') /\ MessagesFollow(lens', input')
  <2> DEFINE m2 == m + 1
             k == 1
  <2>1. \/ input[n][2] = EndOf(lens, input[n][1]) /\ m2 = input[n][1] + 1 /\ k = 1
        \/ n = 0
    BY <1>3, <1>7
  <2>2. /\ m2 \in Nat /\ k \in Nat /\ input'[n + 1] = <<m2, k>>
        /\ k <= EndOf(lens', m2) /\ EndOf(lens', m2) \in Nat
    BY <1>3, <1>6, <1>9
  <2>3. BytesFollow(lens, input) /\ MessagesFollow(lens, input)
    BY DEF Inv, PeerInv
  <2> HIDE DEF m2, k
  <2>4. Adds(lens, input, lens', input', n, m2, k)
    BY <1>3, <1>6, <1>10, <2>1, <2>2, <2>3 DEF Adds
  <2> QED
    BY <2>4, OneMoreByte
<1>12. PeerInv'
  BY <1>8, <1>11 DEF PeerInv
<1>13. ReadInv'
  BY <1>2, <1>3, <1>4, <1>6, <1>8, ReadOfMore DEF Inv, lostVars
<1>14. WriteInv'
  BY <1>2, WriteSame DEF Inv, writeVars, sendVars
<1>15. Bounds'
  BY <1>2, <1>3, <1>6, MsgStreamAssumption DEF Inv, Bounds, writeVars, lostVars
<1> QED
  BY <1>12, <1>13, <1>14, <1>15 DEF Inv

LEMMA PeerGoesOnStep ==
  ASSUME Inv, PeerGoesOn
  PROVE  Inv'
<1> DEFINE n == Len(input)
           m == Len(lens)
           k == input[n][2] + 1
<1>1. /\ input' = Append(input, <<m, Last(input)[2] + 1>>) /\ ~AtMessageEnd
      /\ gone + Len(input) < MaxBytes
      /\ UNCHANGED <<lens, readVars, writeVars, sendVars, sndq, lostVars, pc>>
  BY DEF PeerGoesOn
<1>2. n \in Nat /\ m \in Nat /\ lens \in Seq(Lengths) /\ input \in Seq(BytesOf(m))
  BY DEF Inv, PeerInv, PeerTypes
<1>3. n > 0 /\ input # <<>>
  BY <1>1, <1>2 DEF AtMessageEnd
<1>4. /\ Last(input) = input[n] /\ input[n][1] = m /\ m >= 1
      /\ input[n][2] \in Nat /\ input[n][2] >= 1
  BY <1>2, <1>3, InputFacts DEF Last, Inv, PeerInv, PeerTypes, Byte
<1>5. EndOf(lens, m) \in Nat /\ input[n][2] < EndOf(lens, m)
  <2>1. EndOf(lens, m) \in Nat /\ input[n][2] <= EndOf(lens, m)
    BY <1>2, <1>3, <1>4, InputFacts DEF Inv, PeerInv, BytesFollow, Byte
  <2>2. input[n][2] # EndOf(lens, m)
    BY <1>1, <1>2, <1>3, <1>4 DEF AtMessageEnd, EndOf, Last
  <2> QED
    BY <1>4, <2>1, <2>2
<1>6. k \in Nat /\ k <= EndOf(lens, m) /\ <<m, k>> \in BytesOf(m)
  BY <1>2, <1>4, <1>5 DEF BytesOf, Byte
<1>7. k = input[n][2] + 1
  OBVIOUS
<1>8. input' = Append(input, <<m, k>>)
  BY <1>1, <1>4
<1> HIDE DEF k
<1>9. /\ Len(input') = n + 1 /\ input' \in Seq(BytesOf(m))
      /\ input'[n + 1] = <<m, k>>
      /\ \A i \in 1 .. n : input'[i] = input[i]
  BY <1>2, <1>6, <1>8
<1>10. PeerTypes'
  BY <1>1, <1>2, <1>3, <1>9 DEF PeerTypes, Inv, PeerInv
<1>11. \A i \in 1 .. n : input[i][2] \in Nat /\ EndOf(lens, input[i][1]) \in Nat
  BY InputFacts DEF Inv, PeerInv, Byte
<1>12. BytesFollow(lens', input') /\ MessagesFollow(lens', input')
  <2>1. BytesFollow(lens, input) /\ MessagesFollow(lens, input)
    BY DEF Inv, PeerInv
  <2>2. BytesFollow(lens, input') /\ MessagesFollow(lens, input')
    <3>1. Adds(lens, input, lens, input', n, m, k)
      BY <1>2, <1>4, <1>5, <1>6, <1>7, <1>9, <1>11, <2>1 DEF Adds
    <3> QED
      BY <3>1, OneMoreByte
  <2> QED
    BY <1>1, <2>2
<1>13. PeerInv'
  BY <1>10, <1>12 DEF PeerInv
<1>14. ReadInv'
  <2>1. Len(lens) <= Len(lens') /\ \A a \in 1 .. Len(lens) : lens'[a] = lens[a]
    BY <1>1, <1>2
  <2> QED
    BY <1>1, <1>2, <1>9, <1>10, <2>1, ReadOfMore DEF Inv, lostVars
<1>15. WriteInv'
  BY <1>1, WriteSame DEF Inv, writeVars, sendVars
<1>16. Bounds'
  BY <1>1, <1>2, <1>9, MsgStreamAssumption DEF Inv, Bounds, writeVars, lostVars
<1> QED
  BY <1>13, <1>14, <1>15, <1>16 DEF Inv

LEMMA PeerReadsStep ==
  ASSUME Inv, PeerReads
  PROVE  Inv'
<1>1. PeerInv'
  BY PeerSame DEF PeerReads, Inv
<1>2. ReadInv'
  BY ReadSame DEF PeerReads, Inv, ReadInv, ReadsAll, lostVars
<1>3. WriteInv'
  BY WriteSame DEF PeerReads, Inv, writeVars, sendVars
<1>4. Bounds'
  BY MsgStreamAssumption
  DEF PeerReads, Inv, Bounds, peerVars, writeVars, lostVars
<1> QED
  BY <1>1, <1>2, <1>3, <1>4 DEF Inv

-----------------------------------------------------------------------------
(* What is received. *)

LEMMA ReadEventStep ==
  ASSUME Inv, ReadEvent
  PROVE  Inv'
<1>1. PeerInv'
  BY PeerSame DEF ReadEvent, Inv
<1>2. ReadInv'
  BY ReadSame DEF ReadEvent, Inv, lostVars
<1>3. WriteInv'
  BY WriteSame DEF ReadEvent, Inv, writeVars, sendVars
<1>4. Bounds'
  BY BoundsSame DEF ReadEvent, Inv, peerVars, writeVars, lostVars
<1> QED
  BY <1>1, <1>2, <1>3, <1>4 DEF Inv

LEMMA ReceivedStep ==
  ASSUME Inv, Received
  PROVE  Inv'
<1>1. PeerInv'
  BY PeerSame DEF Received, Inv
<1>2. ReadInv'
  BY ReadSame DEF Received, Inv, lostVars
<1>3. WriteInv'
  BY WriteSame DEF Received, Inv, writeVars, sendVars
<1>4. Bounds'
  BY BoundsSame DEF Received, Inv, peerVars, writeVars, lostVars
<1> QED
  BY <1>1, <1>2, <1>3, <1>4 DEF Inv

(* The invariant's types, and where handle_read is. *)
LEMMA ReadFacts ==
  ASSUME PeerInv, ReadInv
  PROVE  /\ received \in Nat /\ received <= Len(input) /\ held \in Nat
         /\ IsBuf(pread, CellOf(Len(lens)))
         /\ readable(pread) \in Nat /\ readable(pread) <= received
         /\ pread.start_idx \in Nat
         /\ pread.start_idx + readable(pread) <= Len(pread.date)
         /\ Gone \in Nat /\ Gone + readable(pread) = received
         /\ msg.len \in Nat /\ msg.data \in Seq(Nat \X Nat)
         /\ msg = [len |-> msg.len, data |-> msg.data]
         /\ Len(msg.data) \in Nat /\ Len(msg.data) <= msg.len
         /\ Len(handled) \in Nat
<1>1. /\ received \in 0 .. Len(input) /\ held \in Nat
      /\ IsBuf(pread, CellOf(Len(lens))) /\ readable(pread) <= received
      /\ msg \in [len : Nat, data : Seq(Nat \X Nat)]
      /\ handled \in Seq(Seq(Nat \X Nat))
      /\ msg.len = 0 => msg.data = <<>>
      /\ msg.len > 0 => Len(msg.data) < msg.len
  BY DEF ReadInv, ReadTypes
<1>2. /\ readable(pread) \in Nat /\ pread.start_idx \in Nat
      /\ pread.start_idx + readable(pread) <= Len(pread.date)
  BY <1>1, HeadFacts
<1>3. Len(input) \in Nat
  BY DEF PeerInv, PeerTypes
<1>4. received \in Nat /\ Gone \in Nat /\ Gone + readable(pread) = received
  BY <1>1, <1>2, <1>3 DEF Gone
<1>5. msg.len \in Nat /\ msg.data \in Seq(Nat \X Nat) /\ Len(handled) \in Nat
  BY <1>1
<1>6. Len(msg.data) \in Nat /\ Len(msg.data) <= msg.len
  BY <1>1, <1>5
<1>7. msg = [len |-> msg.len, data |-> msg.data]
  BY <1>1
<1> QED
  BY <1>1, <1>2, <1>3, <1>4, <1>5, <1>6, <1>7

LEMMA ReceiveStep ==
  ASSUME Inv, Receive
  PROVE  Inv'
<1> DEFINE n == Least(BUFFER_SIZE, Len(input) - received)
           s == SubSeq(input, received + 1, received + n)
           C == CellOf(Len(lens))
<1>1. /\ pc = "recv" /\ received < Len(input)
      /\ pread' = Buffers!write(pread, s) /\ received' = received + n
      /\ held' = Most(held, readable(pread'))
      /\ UNCHANGED <<msg, handled, pc, peerVars, writeVars, sendVars, sndq, lostVars>>
  BY DEF Receive, readable
<1>2. PeerInv /\ ReadInv /\ input \in Seq(BytesOf(Len(lens))) /\ Len(input) \in Nat
  BY DEF Inv, PeerInv, PeerTypes
<1>3. n \in Nat /\ received + n <= Len(input)
  <2>1. BUFFER_SIZE \in Nat /\ received \in Nat /\ Len(input) - received \in Nat
    <3>1. received \in Nat /\ received < Len(input)
      BY <1>1, <1>2, ReadFacts
    <3> QED
      BY <1>2, <3>1, MsgStreamAssumption
  <2>2. n \in Nat /\ n <= Len(input) - received
    BY <2>1 DEF Least
  <2> QED
    BY <1>2, <2>1, <2>2
<1> HIDE DEF n
<1>4. /\ s \in Seq(BytesOf(Len(lens)))
      /\ Len(s) = n /\ \A j \in 1 .. n : s[j] = input[received + j]
  <2>1. received \in Nat
    BY <1>2, ReadFacts
  <2> QED
    BY <1>2, <1>3, <2>1, PartFacts
<1> HIDE DEF s
<1>5. s \in Seq(C)
  BY <1>4 DEF CellOf
<1>6. Zero \in C /\ IsBuf(pread, C)
  BY <1>2, ReadFacts DEF CellOf
<1> HIDE DEF C
<1>7. /\ IsBuf(pread', C) /\ Written(pread', pread, s)
      /\ Roomy(pread) /\ readable(pread) + Len(s) <= 2 * BUFFER_SIZE =>
           Roomy(pread') /\ Keeps(pread', pread)
  BY <1>1, <1>5, <1>6, WriteStep
<1>8. readable(pread') = readable(pread) + n
  BY <1>4, <1>7 DEF Written
<1>9. /\ Gone' = Gone /\ received' = Gone + readable(pread) + n
  <2>1. Gone' = received' - readable(pread')
    BY DEF Gone
  <2> QED
    BY <1>1, <1>2, <1>3, <1>8, <2>1, ReadFacts
<1>10. /\ held' \in Nat /\ held <= held' /\ readable(pread') <= held'
  <2>1. held \in Nat /\ readable(pread) \in Nat
    BY <1>2, ReadFacts
  <2>2. readable(pread') \in Nat
    BY <1>3, <1>8, <2>1
  <2> QED
    BY <1>1, <2>1, <2>2 DEF Most
<1>11. Small' => Small /\ readable(pread) + n <= 2 * BUFFER_SIZE
  <2>1. /\ held \in Nat /\ readable(pread) \in Nat /\ 2 * BUFFER_SIZE \in Nat
    <3>1. held \in Nat /\ readable(pread) \in Nat
      BY <1>2, ReadFacts
    <3> QED
      BY <3>1, MsgStreamAssumption
  <2> QED
    BY <1>3, <1>8, <1>10, <2>1 DEF Small
<1>12. ReadTypes'
  <2>1. UNCHANGED <<lens, input, msg, handled>>
    BY <1>1 DEF peerVars
  <2>2. received' \in 0 .. Len(input) /\ readable(pread') <= received'
    <3>1. received \in Nat /\ readable(pread) \in Nat /\ readable(pread) <= received
      BY <1>2, ReadFacts
    <3> QED
      BY <1>1, <1>2, <1>3, <1>8, <3>1
  <2> QED
    BY <1>2, <1>7, <1>10, <2>1, <2>2 DEF ReadInv, ReadTypes, C
<1>13. ReadsAll'
  BY <1>1 DEF ReadsAll
<1>14. PreadKeeps'
  <2>1. ASSUME Small', NEW i \in 1 .. readable(pread')
        PROVE  pread'.date[pread'.start_idx + i] = input'[Gone' + i]
    <3>1. input' = input
      BY <1>1 DEF peerVars
    <3>2. CASE i \in 1 .. readable(pread)
      <4>1. pread'.date[pread'.start_idx + i] = pread.date[pread.start_idx + i]
        BY <1>2, <1>4, <1>7, <1>11, <2>1, <3>2 DEF Keeps, ReadInv, PreadKeeps
      <4> QED
        BY <1>2, <1>9, <1>11, <2>1, <3>1, <3>2, <4>1 DEF ReadInv, PreadKeeps
    <3>3. CASE i \in readable(pread) + 1 .. readable(pread) + n
      <4> DEFINE r == readable(pread)
                 j == i - r
      <4>1. /\ r \in Nat /\ received \in Nat /\ Gone \in Nat
            /\ Gone + r = received /\ i \in r + 1 .. r + n
        BY <1>2, <3>3, ReadFacts
      <4>2. pread'.start_idx \in Nat
        BY <1>7, BufTypes
      <4> HIDE DEF r
      <4>3. /\ j \in 1 .. n /\ received + j = Gone + i
            /\ pread'.start_idx + r + j = pread'.start_idx + i
        BY <1>3, <4>1, <4>2
      <4> HIDE DEF j
      <4>4. pread'.date[pread'.start_idx + r + j] = s[j]
        BY <1>4, <1>7, <4>3 DEF Written, r
      <4>5. s[j] = input[received + j]
        BY <1>4, <4>3
      <4> QED
        BY <1>9, <3>1, <4>3, <4>4, <4>5
    <3> QED
      BY <1>2, <1>3, <1>8, <2>1, <3>2, <3>3, ReadFacts
  <2>2. Small' => Roomy(pread')
    BY <1>2, <1>4, <1>7, <1>11 DEF ReadInv, PreadKeeps
  <2> QED
    BY <2>1, <2>2 DEF PreadKeeps
<1>15. Position' /\ HandledIsSent'
  <2>1. UNCHANGED <<lens, input, msg, handled, whole>>
    BY <1>1 DEF peerVars, lostVars
  <2> QED
    BY <1>2, <1>9, <1>11, <2>1
    DEF ReadInv, Position, HandledIsSent, AtBoundary, WithinMessage, EndOf,
        DataOf
<1>16. PeerInv'
  BY <1>1, <1>2, PeerSame
<1>17. ReadInv'
  BY <1>12, <1>13, <1>14, <1>15 DEF ReadInv
<1>18. WriteInv'
  BY <1>1, WriteSame DEF Inv, writeVars, sendVars
<1>19. Bounds'
  BY <1>1, BoundsSame DEF Inv, peerVars, writeVars, lostVars
<1> QED
  BY <1>16, <1>17, <1>18, <1>19 DEF Inv

-----------------------------------------------------------------------------
(* What is read of it. *)

(* n bytes of pread_buf are read: they are the next of the input. *)
LEMMA ReadSome ==
  ASSUME PeerInv, ReadInv, NEW n \in 0 .. readable(pread),
         pread' = Buffers!has_read(pread, n),
         UNCHANGED <<lens, input, received, held>>
  PROVE  /\ IsBuf(pread', CellOf(Len(lens))) /\ readable(pread') = readable(pread) - n
         /\ Gone' = Gone + n /\ readable(pread') <= received
         /\ PreadKeeps'
<1>1. /\ IsBuf(pread', CellOf(Len(lens))) /\ readable(pread') = readable(pread) - n
      /\ pread'.date = pread.date /\ pread'.start_idx = pread.start_idx + n
      /\ Roomy(pread) => Roomy(pread')
  <2>1. IsBuf(pread, CellOf(Len(lens)))
    BY ReadFacts
  <2> QED
    BY <2>1, HasReadStep
<1>2. /\ readable(pread) \in Nat /\ n \in Nat /\ n <= readable(pread)
      /\ pread.start_idx \in Nat /\ Gone \in Nat /\ received \in Nat
      /\ readable(pread) <= received
  BY ReadFacts
<1>3. Gone' = Gone + n /\ readable(pread') <= received
  <2>1. Gone' = received - readable(pread')
    BY DEF Gone
  <2> QED
    BY <1>1, <1>2, <2>1 DEF Gone
<1>4. ASSUME Small, NEW i \in 1 .. readable(pread')
      PROVE  pread'.date[pread'.start_idx + i] = input[Gone' + i]
  <2>1. n + i \in 1 .. readable(pread)
    BY <1>1, <1>2
  <2>2. pread.date[pread.start_idx + (n + i)] = input[Gone + (n + i)]
    BY <1>4, <2>1 DEF ReadInv, PreadKeeps
  <2>3. /\ pread.start_idx + (n + i) = pread'.start_idx + i
        /\ Gone + (n + i) = Gone' + i
    BY <1>1, <1>2, <1>3
  <2> QED
    BY <1>1, <2>2, <2>3
<1>5. PreadKeeps'
  BY <1>1, <1>4 DEF ReadInv, PreadKeeps, Small
<1> QED
  BY <1>1, <1>3, <1>5

LEMMA NextCells ==
  ASSUME PeerInv, ReadInv, NEW n \in 0 .. readable(pread)
  PROVE  LET s == Buffers!Cells(pread, pread.start_idx, n)
         IN /\ s \in Seq(CellOf(Len(lens))) /\ Len(s) = n
            /\ Small => \A j \in 1 .. n : s[j] = input[Gone + j]
<1> DEFINE C == CellOf(Len(lens))
           i == pread.start_idx
           s == Buffers!Cells(pread, i, n)
<1>1. IsBuf(pread, C) /\ i \in Nat /\ n \in Nat /\ i + n <= Len(pread.date)
  <2>1. /\ IsBuf(pread, C) /\ i \in Nat /\ i + readable(pread) <= Len(pread.date)
        /\ readable(pread) \in Nat
    BY ReadFacts
  <2>2. Len(pread.date) \in Nat
    BY <2>1, BufTypes
  <2> QED
    BY <2>1, <2>2
<1> HIDE DEF C, i
<1>2. s \in Seq(C) /\ Len(s) = n /\ \A j \in 1 .. n : s[j] = pread.date[i + j]
  BY <1>1, CellsFacts
<1>3. Small => \A j \in 1 .. n : s[j] = input[Gone + j]
  <2>1. ASSUME Small, NEW j \in 1 .. n
        PROVE  pread.date[i + j] = input[Gone + j]
    <3>1. j \in 1 .. readable(pread)
      BY ReadFacts
    <3> QED
      BY <2>1, <3>1 DEF ReadInv, PreadKeeps, i
  <2> QED
    BY <1>2, <2>1
<1> QED
  BY <1>2, <1>3 DEF C, i

(* Bytes of the input that are of the same message. *)
LEMMA SameMessage ==
  ASSUME PeerInv, NEW i \in 1 .. Len(input), NEW n \in Nat, i + n <= Len(input),
         input[i][2] + n <= EndOf(lens, input[i][1])
  PROVE  \A j \in 0 .. n : input[i + j] = <<input[i][1], input[i][2] + j>>
<1> DEFINE m == input[i][1]
           k == input[i][2]
           e == EndOf(lens, m)
<1>1. k \in Nat /\ e \in Nat /\ Len(input) \in Nat /\ k + n <= e
  BY InputFacts DEF PeerInv, Byte
<1>2. \A a \in i .. Len(input) :
        k + (a - i) <= e => input[a] = <<m, k + (a - i)>>
  BY DEF PeerInv, BytesFollow
<1> HIDE DEF m, k, e
<1>3. ASSUME NEW j \in 0 .. n
      PROVE  input[i + j] = <<m, k + j>>
  <2>1. i + j \in i .. Len(input) /\ (i + j) - i = j /\ k + j <= e
    BY <1>1
  <2> QED
    BY <1>2, <2>1
<1> QED
  BY <1>3 DEF m, k

(* The length that is read is that of the message that comes next. *)
LEMMA NextLength ==
  ASSUME PeerInv, ReadInv, msg.len = 0, readable(pread) >= HeaderSize, Small, whole
  PROVE  LET m == Len(handled) + 1
         IN /\ m \in 1 .. Len(lens) /\ Gone + HeaderSize <= Len(input)
            /\ \A j \in 1 .. HeaderSize : input[Gone + j] = <<m, j>>
<1> DEFINE m == Len(handled) + 1
<1>1. /\ HeaderSize \in Nat /\ HeaderSize >= 1 /\ Gone \in Nat /\ Len(handled) \in Nat
      /\ Len(input) \in Nat /\ Gone + HeaderSize <= Len(input)
  <2>1. HeaderSize \in Nat /\ HeaderSize >= 1
    BY MsgStreamAssumption
  <2>2. Len(input) \in Nat
    BY DEF PeerInv, PeerTypes
  <2> QED
    BY <2>1, <2>2, ReadFacts
<1>2. AtBoundary
  BY DEF ReadInv, Position
<1>3. input[Gone + 1] = <<m, 1>>
  <2>1. CASE handled = <<>>
    <3>1. Gone = 0 /\ Len(handled) = 0
      BY <1>2, <2>1 DEF AtBoundary
    <3>2. input # <<>>
      BY <1>1
    <3> QED
      BY <1>1, <3>1, <3>2 DEF PeerInv, PeerTypes
  <2>2. CASE handled # <<>>
    <3>1. Gone > 0 /\ input[Gone] = <<Len(handled), EndOf(lens, Len(handled))>>
      BY <1>2, <2>2 DEF AtBoundary
    <3>2. Gone \in 1 .. Len(input) - 1
      BY <1>1, <3>1
    <3> QED
      BY <3>1, <3>2 DEF PeerInv, MessagesFollow
  <2> QED
    BY <2>1, <2>2
<1>4. m \in 1 .. Len(lens)
  <2>1. Gone + 1 \in 1 .. Len(input)
    BY <1>1
  <2> QED
    BY <1>3, <2>1, InputFacts DEF PeerInv
<1>5. 1 + (HeaderSize - 1) <= EndOf(lens, m)
  <2>1. lens[m] \in Nat
    BY <1>4, InputFacts DEF PeerInv, Byte
  <2> QED
    BY <1>1, <2>1 DEF EndOf
<1>6. ASSUME NEW j \in 1 .. HeaderSize
      PROVE  input[Gone + j] = <<m, j>>
  <2> DEFINE i == Gone + 1
             n == HeaderSize - 1
             k == 1
  <2>1. /\ i \in 1 .. Len(input) /\ n \in Nat /\ i + n <= Len(input)
        /\ k + n <= EndOf(lens, m) /\ input[i][1] = m /\ input[i][2] = k
    BY <1>1, <1>3, <1>5
  <2>2. j - 1 \in 0 .. n /\ i + (j - 1) = Gone + j /\ k + (j - 1) = j
    BY <1>1
  <2> HIDE DEF i, n, m, k
  <2>3. \A a \in 0 .. n : input[i + a] = <<input[i][1], input[i][2] + a>>
    BY <2>1, SameMessage
  <2> QED
    BY <2>1, <2>2, <2>3
<1> QED
  BY <1>1, <1>4, <1>6

(* A length that is not the one of an abort is a length. *)
LEMMA AnyLength ==
  ASSUME PeerInv, ReadInv, NEW s \in Seq(CellOf(Len(lens))), Len(s) = HeaderSize,
         NEW n \in Ints(s), n > 0
  PROVE  n \in Nat
<1>1. 1 \in DOMAIN s
  BY MsgStreamAssumption
<1>2. s[1] \in CellOf(Len(lens))
  BY <1>1
<1>3. CASE \A i \in DOMAIN s : s[i] = Zero
  BY <1>3 DEF Ints
<1>4. CASE /\ ~\A i \in DOMAIN s : s[i] = Zero
           /\ \A i \in DOMAIN s : s[i] = <<s[1][1], i>>
  <2>1. s[1] = <<s[1][1], 1>>
    BY <1>1, <1>4
  <2>2. s[1][2] = 1
    BY <2>1
  <2>3. s[1] # Zero
    BY <2>2 DEF Zero
  <2>4. s[1][1] \in 1 .. Len(lens)
    BY <1>2, <2>3 DEF CellOf, BytesOf
  <2>5. n = lens[s[1][1]]
    BY <1>4 DEF Ints
  <2> QED
    BY <2>4, <2>5, InputFacts DEF PeerInv, Byte
<1>5. CASE /\ ~\A i \in DOMAIN s : s[i] = Zero
           /\ ~\A i \in DOMAIN s : s[i] = <<s[1][1], i>>
  BY <1>5, MsgStreamAssumption DEF Ints
<1> QED
  BY <1>3, <1>4, <1>5

LEMMA ReadLengthStep ==
  ASSUME Inv, ReadLength
  PROVE  Inv'
<1> DEFINE s == Buffers!Cells(pread, pread.start_idx, HeaderSize)
           m == Len(handled) + 1
<1>1. /\ pc = "length" /\ msg.len = 0 /\ readable(pread) >= HeaderSize
      /\ pread' = Buffers!has_read(pread, HeaderSize)
      /\ UNCHANGED <<received, handled, held, peerVars, writeVars, sendVars, sndq,
                     lostVars>>
  BY DEF ReadLength, NeedsLength, readable
<1>2. PICK n \in Ints(s) : IF n > 0 THEN msg' = [len |-> n, data |-> <<>>] /\ pc' = "data"
                           ELSE pc' = "abort" /\ UNCHANGED msg
  BY DEF ReadLength
<1>3. /\ PeerInv /\ ReadInv /\ UNCHANGED <<lens, input, whole>>
      /\ HeaderSize \in 0 .. readable(pread) /\ HeaderSize \in Nat
  <2>1. PeerInv /\ ReadInv
    BY DEF Inv
  <2>2. readable(pread) \in Nat
    BY <2>1, ReadFacts
  <2> QED
    BY <1>1, <2>1, <2>2, MsgStreamAssumption DEF peerVars, lostVars
<1>4. /\ IsBuf(pread', CellOf(Len(lens))) /\ readable(pread') = readable(pread) - HeaderSize
      /\ Gone' = Gone + HeaderSize /\ readable(pread') <= received
      /\ PreadKeeps'
  BY <1>1, <1>3, ReadSome
<1>5. /\ s \in Seq(CellOf(Len(lens))) /\ Len(s) = HeaderSize
      /\ Small => \A j \in 1 .. HeaderSize : s[j] = input[Gone + j]
  BY <1>3, NextCells
<1>6. Small /\ whole => /\ m \in 1 .. Len(lens)
                        /\ \A j \in 1 .. HeaderSize : input[Gone + j] = <<m, j>>
  BY <1>1, <1>3, NextLength
<1> HIDE DEF s
<1>7. n > 0 => n \in Nat
  BY <1>3, <1>5, AnyLength
<1>8. ASSUME Small, whole
      PROVE  n = lens[m] /\ n > 0 /\ input[Gone + HeaderSize] = <<m, HeaderSize>>
  <2>1. /\ DOMAIN s = 1 .. HeaderSize /\ HeaderSize >= 1
        /\ \A j \in DOMAIN s : s[j] = <<m, j>>
    <3>1. DOMAIN s = 1 .. HeaderSize
      BY <1>5
    <3>2. \A j \in 1 .. HeaderSize : s[j] = input[Gone + j] /\ input[Gone + j] = <<m, j>>
      BY <1>5, <1>6, <1>8
    <3> QED
      BY <3>1, <3>2, MsgStreamAssumption
  <2>2. s[1] = <<m, 1>>
    BY <2>1
  <2>3. s[1][1] = m /\ s[1] # Zero
    BY <2>2 DEF Zero
  <2>4. n = lens[m]
    <3>1. 1 \in DOMAIN s
      BY <2>1
    <3> QED
      BY <2>1, <2>3, <3>1 DEF Ints
  <2>5. lens[m] \in Byte
    BY <1>3, <1>6, <1>8, InputFacts DEF PeerInv
  <2> QED
    BY <1>3, <1>6, <1>8, <2>1, <2>4, <2>5 DEF Byte
<1>9. \/ n > 0 /\ msg' = [len |-> n, data |-> <<>>] /\ pc' = "data"
      \/ ~(n > 0) /\ pc' = "abort" /\ msg' = msg
  BY <1>2
<1>10. ReadTypes'
  <2>1. msg' \in [len : Nat, data : Seq(Nat \X Nat)]
    <3>1. msg \in [len : Nat, data : Seq(Nat \X Nat)]
      BY <1>3 DEF ReadInv, ReadTypes
    <3>2. n > 0 => [len |-> n, data |-> <<>>] \in [len : Nat, data : Seq(Nat \X Nat)]
      BY <1>7
    <3> QED
      BY <1>9, <3>1, <3>2
  <2>2. msg'.len = 0 => msg'.data = <<>>
    BY <1>3, <1>9 DEF ReadInv, ReadTypes
  <2>3. msg'.len > 0 => Len(msg'.data) < msg'.len
    <3>1. CASE n > 0 /\ msg' = [len |-> n, data |-> <<>>]
      <4>1. msg'.len = n /\ Len(msg'.data) = 0
        BY <3>1
      <4> QED
        BY <3>1, <4>1
    <3>2. CASE msg' = msg
      BY <1>1, <3>2
    <3> QED
      BY <1>9, <3>1, <3>2
  <2> QED
    BY <1>1, <1>3, <1>4, <2>1, <2>2, <2>3 DEF ReadInv, ReadTypes
<1>11. ReadsAll'
  BY <1>7, <1>9 DEF ReadsAll
<1>12. Position'
  <2> SUFFICES ASSUME Small, whole
               PROVE  /\ msg'.len = 0 => AtBoundary'
                      /\ msg'.len > 0 => WithinMessage'
    BY <1>1, <1>3 DEF Position, Small
  <2>1. msg' = [len |-> n, data |-> <<>>] /\ n = lens[m] /\ n > 0 /\ n \in Nat
    BY <1>7, <1>8, <1>9
  <2>2. msg'.len = n /\ msg'.data = <<>> /\ Len(msg'.data) = 0
    BY <2>1
  <2>3. Gone' > 0 /\ input[Gone'] = <<m, HeaderSize + 0>>
    <3>1. Gone \in Nat
      BY <1>3, ReadFacts
    <3>2. HeaderSize >= 1 /\ HeaderSize + 0 = HeaderSize
      BY MsgStreamAssumption
    <3> QED
      BY <1>3, <1>4, <1>8, <3>1, <3>2
  <2>4. WithinMessage'
    BY <1>1, <1>3, <2>1, <2>2, <2>3 DEF WithinMessage
  <2> QED
    BY <2>1, <2>2, <2>4
<1>13. HandledIsSent'
  BY <1>1, <1>3 DEF ReadInv, HandledIsSent, Small, DataOf
<1>14. PeerInv'
  BY <1>1, <1>3, PeerSame
<1>15. ReadInv'
  BY <1>4, <1>10, <1>11, <1>12, <1>13 DEF ReadInv
<1>16. WriteInv'
  BY <1>1, <1>9, WriteSame DEF Inv, writeVars, sendVars
<1>17. Bounds'
  BY <1>1, <1>3, <1>9, BoundsSame DEF Inv, writeVars, lostVars
<1> QED
  BY <1>14, <1>15, <1>16, <1>17 DEF Inv

LEMMA HasLengthStep ==
  ASSUME Inv, HasLength
  PROVE  Inv'
<1>1. PeerInv'
  BY PeerSame DEF HasLength, Inv
<1>2. ReadInv'
  <2>1. msg.len = 0 => readable(pread) < HeaderSize
    <3>1. readable(pread) \in Nat
      BY ReadFacts DEF Inv
    <3>2. msg.len = 0 => ~(readable(pread) >= HeaderSize)
      BY DEF HasLength, NeedsLength, readable
    <3> QED
      BY <3>1, <3>2, MsgStreamAssumption
  <2> QED
    BY <2>1, ReadSame DEF HasLength, Inv, lostVars
<1>3. WriteInv'
  BY WriteSame DEF HasLength, Inv, writeVars, sendVars
<1>4. Bounds'
  BY BoundsSame DEF HasLength, Inv, peerVars, writeVars, lostVars
<1> QED
  BY <1>1, <1>2, <1>3, <1>4 DEF Inv

(* Two sequences, one after the other. *)
LEMMA ConcatFacts ==
  ASSUME NEW C, NEW s \in Seq(C), NEW t \in Seq(C)
  PROVE  /\ s \o t \in Seq(C) /\ Len(s \o t) = Len(s) + Len(t)
         /\ \A i \in 1 .. Len(s) : (s \o t)[i] = s[i]
         /\ \A i \in 1 .. Len(t) : (s \o t)[Len(s) + i] = t[i]
  OBVIOUS

(* What read_data() moves from pread_buf to the Msg. *)
LEMMA TakeFacts ==
  ASSUME PeerInv, ReadInv
  PROVE  /\ Takes \in 0 .. readable(pread)
         /\ Takes = readable(pread) \/ Takes = msg.len - Len(msg.data)
         /\ Taken \in Seq(Nat \X Nat) /\ Len(Taken) = Len(msg.data) + Takes
         /\ Len(Taken) <= msg.len
         /\ \A i \in 1 .. Len(msg.data) : Taken[i] = msg.data[i]
         /\ Small => \A i \in 1 .. Takes : Taken[Len(msg.data) + i] = input[Gone + i]
<1> DEFINE s == Buffers!Cells(pread, pread.start_idx, Takes)
           t == msg.data
           k == Takes
<1>1. /\ k \in 0 .. readable(pread) /\ Len(t) + k <= msg.len /\ Len(t) \in Nat
      /\ k = readable(pread) \/ k = msg.len - Len(t)
  <2>1. /\ readable(pread) \in Nat /\ msg.len \in Nat /\ Len(t) \in Nat
        /\ Len(t) <= msg.len
    BY ReadFacts
  <2>2. k = IF msg.len - Len(t) < readable(pread) THEN msg.len - Len(t)
            ELSE readable(pread)
    BY DEF Takes, Least, readable
  <2> HIDE DEF k, t
  <2> QED
    BY <2>1, <2>2
<1>2. /\ s \in Seq(CellOf(Len(lens))) /\ Len(s) = k
      /\ Small => \A j \in 1 .. k : s[j] = input[Gone + j]
  BY <1>1, NextCells
<1>3. s \in Seq(Nat \X Nat)
  <2>1. CellOf(Len(lens)) \subseteq Nat \X Nat
    BY DEF CellOf, BytesOf, Byte, Zero
  <2> HIDE DEF s
  <2> QED
    BY <1>2, <2>1
<1>4. t \in Seq(Nat \X Nat) /\ Taken = t \o s
  BY ReadFacts DEF Taken
<1> HIDE DEF s, t, k
<1>5. /\ t \o s \in Seq(Nat \X Nat) /\ Len(t \o s) = Len(t) + k
      /\ \A i \in 1 .. Len(t) : (t \o s)[i] = t[i]
      /\ \A i \in 1 .. k : (t \o s)[Len(t) + i] = s[i]
  <2>1. /\ t \o s \in Seq(Nat \X Nat) /\ Len(t \o s) = Len(t) + Len(s)
        /\ \A i \in 1 .. Len(t) : (t \o s)[i] = t[i]
        /\ \A i \in 1 .. Len(s) : (t \o s)[Len(t) + i] = s[i]
    BY <1>3, <1>4, ConcatFacts
  <2> QED
    BY <1>2, <2>1
<1> QED
  BY <1>1, <1>2, <1>4, <1>5 DEF t, k

(* They are the bytes of the message that are next. *)
LEMMA TakeNext ==
  ASSUME PeerInv, ReadInv, Small, whole, msg.len > 0
  PROVE  LET m == Len(handled) + 1
         IN /\ m \in 1 .. Len(lens) /\ msg.len = lens[m] /\ Gone > 0
            /\ input[Gone + Takes] = <<m, HeaderSize + Len(Taken)>>
            /\ \A i \in 1 .. Len(Taken) : Taken[i] = <<m, HeaderSize + i>>
<1> DEFINE m == Len(handled) + 1
           k == Takes
           l == Len(msg.data)
<1>1. /\ Gone > 0 /\ input[Gone] = <<m, HeaderSize + l>> /\ msg.len = lens[m]
      /\ \A i \in 1 .. l : msg.data[i] = <<m, HeaderSize + i>>
  BY DEF ReadInv, Position, WithinMessage
<1>2. m \in 1 .. Len(lens)
  BY HandledAreBegun
<1>3. /\ k \in 0 .. readable(pread) /\ Len(Taken) = l + k /\ l + k <= lens[m]
      /\ \A i \in 1 .. l : Taken[i] = msg.data[i]
      /\ \A i \in 1 .. k : Taken[l + i] = input[Gone + i]
  BY <1>1, TakeFacts
<1>4. /\ Gone \in Nat /\ l \in Nat /\ k \in Nat /\ Gone + k <= Len(input)
      /\ Len(input) \in Nat /\ HeaderSize \in Nat
  <2>1. /\ Gone \in Nat /\ l \in Nat /\ readable(pread) \in Nat
        /\ Gone + readable(pread) <= Len(input)
    BY ReadFacts
  <2>2. Len(input) \in Nat
    BY DEF PeerInv, PeerTypes
  <2>3. HeaderSize \in Nat
    BY MsgStreamAssumption
  <2> HIDE DEF k, l
  <2> QED
    BY <1>3, <2>1, <2>2, <2>3
<1>5. \A j \in 0 .. k : input[Gone + j] = <<m, HeaderSize + l + j>>
  <2>1. input[Gone][1] = m /\ input[Gone][2] = HeaderSize + l
    BY <1>1
  <2>2. lens[m] \in Nat
    BY <1>2, InputFacts DEF PeerInv, Byte
  <2> HIDE DEF m, k, l
  <2>3. HeaderSize + l + k <= EndOf(lens, m) /\ Gone \in 1 .. Len(input)
    BY <1>1, <1>3, <1>4, <2>2 DEF EndOf
  <2>4. input[Gone][2] + k <= EndOf(lens, input[Gone][1])
    BY <2>1, <2>3
  <2>5. \A j \in 0 .. k : input[Gone + j] = <<input[Gone][1], input[Gone][2] + j>>
    BY <1>4, <2>3, <2>4, SameMessage
  <2> QED
    BY <2>1, <2>5
<1> HIDE DEF m, k, l
<1>6. input[Gone + k] = <<m, HeaderSize + Len(Taken)>>
  <2>1. k \in 0 .. k /\ HeaderSize + l + k = HeaderSize + (l + k)
    BY <1>4
  <2> QED
    BY <1>3, <1>5, <2>1
<1>7. ASSUME NEW i \in 1 .. l + k
      PROVE  Taken[i] = <<m, HeaderSize + i>>
  <2>1. CASE i \in 1 .. l
    BY <1>1, <1>3, <2>1
  <2>2. CASE i \in l + 1 .. l + k
    <3>1. /\ i - l \in 1 .. k /\ i - l \in 0 .. k /\ l + (i - l) = i
          /\ HeaderSize + l + (i - l) = HeaderSize + i
      BY <1>4, <2>2
    <3>2. Taken[l + (i - l)] = input[Gone + (i - l)]
      BY <1>3, <3>1
    <3>3. input[Gone + (i - l)] = <<m, HeaderSize + l + (i - l)>>
      BY <1>5, <3>1
    <3> QED
      BY <3>1, <3>2, <3>3
  <2> QED
    BY <1>4, <2>1, <2>2
<1> QED
  BY <1>1, <1>2, <1>3, <1>6, <1>7 DEF m, k

LEMMA ReadPartStep ==
  ASSUME Inv, ReadPart
  PROVE  Inv'
<1>1. /\ pc = "data" /\ (Takes = 0 \/ Len(Taken) # msg.len)
      /\ msg' = [msg EXCEPT !.data = Taken]
      /\ pread' = Buffers!has_read(pread, Takes)
      /\ pc' = "select"
      /\ UNCHANGED <<received, handled, held, peerVars, writeVars, sendVars, sndq,
                     lostVars>>
  BY DEF ReadPart
<1>2. PeerInv /\ ReadInv /\ UNCHANGED <<lens, input, whole>>
  BY <1>1 DEF Inv, peerVars, lostVars
<1>3. /\ Takes \in 0 .. readable(pread)
      /\ Takes = readable(pread) \/ Takes = msg.len - Len(msg.data)
      /\ Taken \in Seq(Nat \X Nat) /\ Len(Taken) = Len(msg.data) + Takes
      /\ Len(Taken) <= msg.len
  BY <1>2, TakeFacts
<1>4. /\ IsBuf(pread', CellOf(Len(lens))) /\ readable(pread') = readable(pread) - Takes
      /\ Gone' = Gone + Takes /\ readable(pread') <= received
      /\ PreadKeeps'
  BY <1>1, <1>2, <1>3, ReadSome
<1>5. msg' = [len |-> msg.len, data |-> Taken] /\ msg'.len = msg.len /\ msg'.data = Taken
  <2>1. msg \in [len : Nat, data : Seq(Nat \X Nat)]
    BY <1>2 DEF ReadInv, ReadTypes
  <2> QED
    BY <1>1, <2>1
<1>6. /\ msg.len \in Nat /\ Len(msg.data) \in Nat /\ readable(pread) \in Nat
      /\ msg.len > 0 => Len(msg.data) < msg.len
      /\ msg.len = 0 => readable(pread) < HeaderSize
  <2>1. msg.len \in Nat /\ Len(msg.data) \in Nat /\ readable(pread) \in Nat
    BY <1>2, ReadFacts
  <2> QED
    BY <1>1, <1>2, <2>1 DEF ReadInv, ReadTypes, ReadsAll
<1>7. msg.len > 0 => Len(Taken) < msg.len /\ readable(pread') = 0
  <2> DEFINE k == Takes
             l == Len(msg.data)
             r == readable(pread)
  <2>1. /\ k \in 0 .. r
        /\ k = r \/ k = msg.len - l
        /\ Len(Taken) = l + k /\ Len(Taken) <= msg.len
        /\ k = 0 \/ Len(Taken) # msg.len
        /\ msg.len \in Nat /\ l \in Nat /\ r \in Nat
        /\ msg.len > 0 => l < msg.len
        /\ readable(pread') = r - k
    BY <1>1, <1>3, <1>4, <1>6
  <2> HIDE DEF k, l, r
  <2> QED
    BY <2>1
<1>8. msg.len = 0 => Taken = <<>> /\ readable(pread') < HeaderSize
  <2>1. ASSUME msg.len = 0
        PROVE  Len(Taken) = 0 /\ Takes = 0
    BY <1>3, <1>6, <2>1
  <2> QED
    BY <1>3, <1>4, <1>6, <2>1
<1>9. ReadTypes'
  <2>1. msg' \in [len : Nat, data : Seq(Nat \X Nat)]
    BY <1>3, <1>5, <1>6
  <2> QED
    BY <1>1, <1>2, <1>4, <1>5, <1>7, <1>8, <2>1 DEF ReadInv, ReadTypes
<1>10. ReadsAll'
  <2>1. AllRead'
    BY <1>5, <1>6, <1>7, <1>8 DEF AllRead
  <2> QED
    BY <1>1, <2>1 DEF ReadsAll
<1>11. Position'
  <2> SUFFICES ASSUME Small, whole
               PROVE  /\ msg'.len = 0 => AtBoundary'
                      /\ msg'.len > 0 => WithinMessage'
    BY <1>1, <1>2 DEF Position, Small
  <2>1. ASSUME msg.len = 0 PROVE AtBoundary'
    <3>1. AtBoundary
      BY <1>2, <2>1 DEF ReadInv, Position
    <3>2. Gone' = Gone
      <4>1. Takes = 0 /\ Gone \in Nat
        BY <1>2, <1>3, <1>6, <2>1, ReadFacts
      <4> QED
        BY <1>4, <4>1
    <3> QED
      BY <1>1, <1>2, <3>1, <3>2 DEF AtBoundary
  <2>2. ASSUME msg.len > 0 PROVE WithinMessage'
    <3> DEFINE m == Len(handled) + 1
    <3>1. /\ msg.len = lens[m] /\ Gone > 0
          /\ input[Gone + Takes] = <<m, HeaderSize + Len(Taken)>>
          /\ \A i \in 1 .. Len(Taken) : Taken[i] = <<m, HeaderSize + i>>
      BY <1>2, <2>2, TakeNext
    <3>2. Gone' > 0
      <4>1. Gone \in Nat /\ readable(pread) \in Nat
        BY <1>2, ReadFacts
      <4>2. Gone > 0 /\ Gone' = Gone + Takes
        BY <1>4, <3>1
      <4> QED
        BY <1>3, <4>1, <4>2
    <3> QED
      BY <1>1, <1>2, <1>4, <1>5, <3>1, <3>2 DEF WithinMessage
  <2> QED
    BY <1>5, <2>1, <2>2
<1>12. HandledIsSent'
  BY <1>1, <1>2 DEF ReadInv, HandledIsSent, Small, DataOf
<1>13. PeerInv'
  BY <1>1, <1>2, PeerSame
<1>14. ReadInv'
  BY <1>4, <1>9, <1>10, <1>11, <1>12 DEF ReadInv
<1>15. WriteInv'
  BY <1>1, WriteSame DEF Inv, writeVars, sendVars
<1>16. Bounds'
  BY <1>1, <1>2, BoundsSame DEF Inv, writeVars, lostVars
<1> QED
  BY <1>13, <1>14, <1>15, <1>16 DEF Inv

(* What ReadLast does besides the handler. *)
LEMMA ReadLastRead ==
  ASSUME Inv, ReadLast
  PROVE  PeerInv' /\ ReadInv'
<1> DEFINE m == Len(handled) + 1
<1>1. /\ pc = "data" /\ Takes > 0 /\ Len(Taken) = msg.len
      /\ handled' = Append(handled, Taken) /\ msg' = NoMsg
      /\ pread' = Buffers!has_read(pread, Takes)
      /\ pc' = IF readable(pread') >= HeaderSize THEN "length" ELSE "select"
      /\ UNCHANGED <<received, held, lens, input, whole>>
  BY DEF ReadLast, AfterMessage, readable, peerVars, lostVars
<1>2. PeerInv /\ ReadInv
  BY DEF Inv
<1>3. /\ Takes \in 0 .. readable(pread) /\ Taken \in Seq(Nat \X Nat)
      /\ Len(Taken) = Len(msg.data) + Takes
  BY <1>2, TakeFacts
<1>4. /\ IsBuf(pread', CellOf(Len(lens))) /\ readable(pread') = readable(pread) - Takes
      /\ Gone' = Gone + Takes /\ readable(pread') <= received
      /\ PreadKeeps'
  BY <1>1, <1>2, <1>3, ReadSome
<1>5. /\ handled \in Seq(Seq(Nat \X Nat)) /\ Len(handled) \in Nat
      /\ handled' \in Seq(Seq(Nat \X Nat)) /\ Len(handled') = m
      /\ handled'[m] = Taken /\ handled' # <<>>
      /\ \A i \in 1 .. Len(handled) : handled'[i] = handled[i]
  <2>1. handled \in Seq(Seq(Nat \X Nat))
    BY <1>2 DEF ReadInv, ReadTypes
  <2>2. Append(handled, Taken) \in Seq(Seq(Nat \X Nat)) /\ Len(handled) \in Nat
    BY <1>3, <2>1
  <2>3. /\ Len(Append(handled, Taken)) = m /\ Append(handled, Taken)[m] = Taken
        /\ \A i \in 1 .. Len(handled) : Append(handled, Taken)[i] = handled[i]
    BY <1>3, <2>1, <2>2
  <2>4. Append(handled, Taken) # <<>>
    <3>1. m # 0
      BY <2>2
    <3> QED
      BY <2>3, <3>1
  <2> HIDE DEF m
  <2> QED
    BY <1>1, <2>1, <2>2, <2>3, <2>4
<1>6. /\ msg' \in [len : Nat, data : Seq(Nat \X Nat)]
      /\ msg'.len = 0 /\ msg'.data = <<>>
  BY <1>1 DEF NoMsg
<1>7. /\ msg.len \in Nat /\ msg.len > 0 /\ Gone \in Nat /\ readable(pread) \in Nat
      /\ HeaderSize \in Nat
  <2>1. /\ msg.len \in Nat /\ Len(msg.data) \in Nat /\ Gone \in Nat
        /\ readable(pread) \in Nat
    BY <1>2, ReadFacts
  <2> QED
    BY <1>1, <1>3, <2>1, MsgStreamAssumption
<1>8. ReadTypes'
  BY <1>1, <1>2, <1>4, <1>5, <1>6 DEF ReadInv, ReadTypes
<1>9. ReadsAll'
  <2>1. pc' = "select" => readable(pread') < HeaderSize
    <3>1. readable(pread') \in Nat
      BY <1>3, <1>4, <1>7
    <3> QED
      BY <1>1, <1>7, <3>1
  <2> QED
    BY <1>1, <1>6, <2>1 DEF ReadsAll, AllRead
<1>10. ASSUME Small, whole
       PROVE  /\ Gone' > 0 /\ input[Gone'] = <<m, EndOf(lens, m)>>
              /\ Taken = DataOf(m)
  <2>1. /\ m \in 1 .. Len(lens) /\ msg.len = lens[m]
        /\ input[Gone + Takes] = <<m, HeaderSize + Len(Taken)>>
        /\ \A i \in 1 .. Len(Taken) : Taken[i] = <<m, HeaderSize + i>>
    BY <1>2, <1>7, <1>10, TakeNext
  <2> HIDE DEF m
  <2>2. Taken = [i \in 1 .. lens[m] |-> <<m, HeaderSize + i>>]
    <3>1. DOMAIN Taken = 1 .. lens[m] /\ Taken = [i \in DOMAIN Taken |-> Taken[i]]
      <4>1. DOMAIN Taken = 1 .. Len(Taken) /\ Taken = [i \in DOMAIN Taken |-> Taken[i]]
        BY <1>3
      <4> QED
        BY <1>1, <2>1, <4>1
    <3>2. \A i \in 1 .. lens[m] : Taken[i] = <<m, HeaderSize + i>>
      BY <1>1, <2>1
    <3> QED
      BY <3>1, <3>2
  <2>3. Gone' > 0
    BY <1>1, <1>3, <1>4, <1>7
  <2> QED
    BY <1>1, <1>4, <2>1, <2>2, <2>3 DEF DataOf, EndOf
<1>11. Position'
  <2>1. msg'.len = 0 /\ UNCHANGED <<held, lens, input, whole>>
    BY <1>1, <1>6
  <2>2. ASSUME Small, whole PROVE AtBoundary'
    BY <1>5, <1>10, <2>1, <2>2 DEF AtBoundary, EndOf
  <2> QED
    BY <2>1, <2>2 DEF Position, Small
<1>12. HandledIsSent'
  <2>1. ASSUME Small, whole, NEW i \in 1 .. m
        PROVE  handled'[i] = DataOf(i)
    <3>1. CASE i \in 1 .. Len(handled)
      BY <1>2, <1>5, <2>1, <3>1 DEF ReadInv, HandledIsSent
    <3>2. CASE i = m
      BY <1>5, <1>10, <2>1, <3>2
    <3> QED
      BY <1>5, <3>1, <3>2
  <2> QED
    BY <1>1, <1>5, <2>1 DEF HandledIsSent, Small, DataOf
<1>13. PeerInv'
  BY <1>1, <1>2, PeerSame DEF peerVars
<1> QED
  BY <1>4, <1>8, <1>9, <1>11, <1>12, <1>13 DEF ReadInv

-----------------------------------------------------------------------------
(* What is written. *)

(* The handler of a message may send a reply. *)
LEMMA OnMsgStep ==
  ASSUME WriteInv, Bounds, OnMsg, pc # "send", pc' # "send", UNCHANGED <<size, input>>,
         UNCHANGED <<sndq, closes, gone>>,
         pc' \in {"select", "recv", "length", "data", "send", "abort"}
  PROVE  WriteInv' /\ Bounds'
<1>1. CASE UNCHANGED writeVars
  BY <1>1, WriteSame, BoundsSame DEF writeVars
<1>2. CASE \E n \in Replies : replies < MaxReplies /\ Send(n)
  <2>1. PICK n \in Replies : replies < MaxReplies /\ Send(n)
    BY <1>2
  <2> DEFINE s == [i \in 1 .. n |-> <<0, written + i>>]
             r == readable(pwrite)
  <2>2. /\ pwrite' = Buffers!write(pwrite, s) /\ written' = written + n
        /\ replies' = replies + 1
        /\ heldOut' = Most(heldOut, readable(pwrite'))
    BY <2>1 DEF Send, readable
  <2>3. n \in Nat /\ written \in Nat /\ heldOut \in Nat /\ IsBuf(pwrite, OutCell)
    BY <2>1, MsgStreamAssumption DEF WriteInv, WriteTypes
  <2>4. s \in Seq(OutCell) /\ Len(s) = n /\ \A i \in 1 .. n : s[i] = <<0, written + i>>
    <3>1. s \in [1 .. n -> OutCell]
      BY <2>3 DEF OutCell
    <3> QED
      BY <2>3, <3>1, SeqFrom
  <2> HIDE DEF s
  <2>5. Zero \in OutCell
    BY DEF Zero, OutCell
  <2>6. /\ IsBuf(pwrite', OutCell) /\ Written(pwrite', pwrite, s)
        /\ Roomy(pwrite) /\ readable(pwrite) + Len(s) <= 2 * BUFFER_SIZE =>
             Roomy(pwrite') /\ Keeps(pwrite', pwrite)
    BY <2>2, <2>3, <2>4, <2>5, WriteStep
  <2>7. r \in Nat /\ pwrite'.start_idx \in Nat
    BY <2>3, <2>6, HeadFacts
  <2>8. readable(pwrite') = r + n
    BY <2>4, <2>6 DEF Written
  <2> HIDE DEF r
  <2>9. heldOut' \in Nat /\ heldOut <= heldOut' /\ r + n <= heldOut'
    BY <2>2, <2>3, <2>7, <2>8 DEF Most
  <2>10. heldOut' <= 2 * BUFFER_SIZE =>
           heldOut <= 2 * BUFFER_SIZE /\ r + n <= 2 * BUFFER_SIZE
    <3>1. 2 * BUFFER_SIZE \in Nat
      BY MsgStreamAssumption
    <3> QED
      BY <2>3, <2>7, <2>9, <3>1
  <2>11. ASSUME heldOut' <= 2 * BUFFER_SIZE
         PROVE  Roomy(pwrite) /\ Roomy(pwrite') /\ Keeps(pwrite', pwrite)
    BY <2>4, <2>6, <2>10, <2>11 DEF WriteInv, PwriteKeeps, r
  <2>12. ASSUME heldOut' <= 2 * BUFFER_SIZE, NEW i \in 1 .. r + n
         PROVE  pwrite'.date[pwrite'.start_idx + i] = <<0, (written + n) - (r + n) + i>>
    <3>1. CASE i \in 1 .. r
      <4>1. pwrite'.date[pwrite'.start_idx + i] = pwrite.date[pwrite.start_idx + i]
        BY <2>11, <2>12, <3>1 DEF Keeps, r
      <4>2. pwrite.date[pwrite.start_idx + i] = <<0, written - r + i>>
        BY <2>10, <2>12, <3>1 DEF WriteInv, PwriteKeeps, r
      <4>3. (written + n) - (r + n) + i = written - r + i
        BY <2>3, <2>7
      <4> QED
        BY <4>1, <4>2, <4>3
    <3>2. CASE i \in r + 1 .. r + n
      <4> DEFINE j == i - r
      <4>1. /\ j \in 1 .. n /\ pwrite'.start_idx + i = pwrite'.start_idx + r + j
            /\ written + j = (written + n) - (r + n) + i
        BY <2>3, <2>7, <3>2
      <4> HIDE DEF j
      <4>2. pwrite'.date[pwrite'.start_idx + r + j] = s[j]
        BY <2>4, <2>6, <4>1 DEF Written, r
      <4> QED
        BY <2>4, <4>1, <4>2
    <3> QED
      BY <2>3, <2>7, <3>1, <3>2
  <2>13. PwriteKeeps'
    BY <2>2, <2>8, <2>11, <2>12 DEF PwriteKeeps
  <2>14. WriteTypes'
    BY <2>2, <2>3, <2>6, <2>9 DEF WriteInv, WriteTypes
  <2>15. Bounds'
    BY <2>1, <2>2, MsgStreamAssumption DEF Bounds
  <2> QED
    BY <2>13, <2>14, <2>15 DEF WriteInv
<1> QED
  BY <1>1, <1>2 DEF OnMsg

LEMMA ReadLastStep ==
  ASSUME Inv, ReadLast
  PROVE  Inv'
<1>1. PeerInv' /\ ReadInv'
  BY ReadLastRead
<1>2. WriteInv' /\ Bounds'
  <2>1. /\ OnMsg /\ pc # "send" /\ pc' \in {"length", "select"}
        /\ UNCHANGED <<size, input, sndq, closes, gone>>
    BY DEF ReadLast, AfterMessage, peerVars, sendVars, lostVars
  <2> QED
    BY <2>1, OnMsgStep DEF Inv
<1> QED
  BY <1>1, <1>2 DEF Inv

LEMMA WriteEventStep ==
  ASSUME Inv, WriteEvent
  PROVE  Inv'
<1>1. PeerInv'
  BY PeerSame DEF WriteEvent, Inv
<1>2. ReadInv'
  BY ReadSame DEF WriteEvent, Inv, ReadInv, ReadsAll, lostVars
<1>3. WriteInv'
  BY DEF WriteEvent, Inv, WriteInv, WriteTypes, PwriteKeeps, readable,
      writeVars
<1>4. Bounds'
  BY BoundsSame DEF WriteEvent, Inv, peerVars, writeVars, lostVars
<1> QED
  BY <1>1, <1>2, <1>3, <1>4 DEF Inv

LEMMA SendPieceStep ==
  ASSUME Inv, SendPiece
  PROVE  Inv'
<1> DEFINE n == Least(Room, Least(BUFFER_SIZE, size))
           r == readable(pwrite)
<1>1. /\ pc = "send" /\ size > 0 /\ Room > 0
      /\ sndq' = sndq + n /\ size' = size - n
      /\ pwrite' = Buffers!has_read(pwrite, n)
      /\ UNCHANGED <<written, replies, heldOut, pc, peerVars, readVars, lostVars>>
  BY DEF SendPiece
<1>2. /\ IsBuf(pwrite, OutCell) /\ written \in Nat /\ size = r
  BY <1>1 DEF Inv, WriteInv, WriteTypes
<1>3. r \in Nat /\ pwrite.start_idx \in Nat
  BY <1>2, HeadFacts
<1>4. sndq \in 0 .. SndCap /\ SndCap \in Nat /\ BUFFER_SIZE \in Nat
  BY MsgStreamAssumption DEF Inv, Bounds
<1>5. n \in 0 .. r /\ sndq + n \in 0 .. SndCap
  BY <1>1, <1>2, <1>3, <1>4 DEF Room, Least
<1> HIDE DEF n
<1>6. /\ IsBuf(pwrite', OutCell) /\ readable(pwrite') = r - n
      /\ pwrite'.date = pwrite.date /\ pwrite'.start_idx = pwrite.start_idx + n
      /\ Roomy(pwrite) => Roomy(pwrite')
  BY <1>1, <1>2, <1>5, HasReadStep
<1>7. PwriteKeeps'
  <2>1. ASSUME heldOut <= 2 * BUFFER_SIZE, NEW i \in 1 .. r - n
        PROVE  pwrite'.date[pwrite'.start_idx + i] = <<0, written - (r - n) + i>>
    <3>1. /\ n + i \in 1 .. r /\ written - r + (n + i) = written - (r - n) + i
          /\ pwrite.start_idx + n + i = pwrite.start_idx + (n + i)
      BY <1>2, <1>3, <1>5
    <3>2. pwrite.date[pwrite.start_idx + (n + i)] = <<0, written - r + (n + i)>>
      BY <2>1, <3>1 DEF Inv, WriteInv, PwriteKeeps
    <3> QED
      BY <1>6, <3>1, <3>2
  <2> QED
    BY <1>1, <1>6, <2>1 DEF Inv, WriteInv, PwriteKeeps
<1>8. WriteInv'
  BY <1>1, <1>2, <1>6, <1>7 DEF Inv, WriteInv, WriteTypes
<1>9. PeerInv'
  BY <1>1, PeerSame DEF Inv
<1>10. ReadInv'
  BY <1>1, ReadSame DEF Inv, ReadInv, ReadsAll, lostVars
<1>11. Bounds'
  BY <1>1, <1>5 DEF Inv, Bounds, peerVars, lostVars
<1> QED
  BY <1>8, <1>9, <1>10, <1>11 DEF Inv

LEMMA SentStep ==
  ASSUME Inv, Sent
  PROVE  Inv'
<1>1. PeerInv'
  BY PeerSame DEF Sent, Inv
<1>2. ReadInv'
  BY ReadSame DEF Sent, Inv, ReadInv, ReadsAll, lostVars
<1>3. WriteInv'
  BY DEF Sent, Inv, WriteInv, WriteTypes, PwriteKeeps
<1>4. Bounds'
  BY BoundsSame DEF Sent, Inv, peerVars, lostVars
<1> QED
  BY <1>1, <1>2, <1>3, <1>4 DEF Inv

(* A new connection: only what is left in the Msg stays. *)
LEMMA ReconnectsStep ==
  ASSUME Inv, Reconnects
  PROVE  Inv'
<1>1. /\ lens' = <<>> /\ input' = <<>> /\ received' = 0 /\ held' = 0 /\ handled' = <<>>
      /\ pread' = Buffers!NewBuffer /\ pwrite' = Buffers!NewBuffer
      /\ written' = 0 /\ heldOut' = 0 /\ sndq' = 0 /\ pc' = "select"
      /\ closes < MaxCloses /\ closes' = closes + 1 /\ gone' = gone + Len(input)
      /\ whole' = (whole /\ msg = NoMsg)
      /\ pc # "send" /\ UNCHANGED <<msg, replies, size>>
  BY DEF Reconnects, FreshBuffer
<1>2. /\ IsBuf(pread', CellOf(Len(lens'))) /\ readable(pread') = 0 /\ Roomy(pread')
      /\ IsBuf(pwrite', OutCell) /\ readable(pwrite') = 0 /\ Roomy(pwrite')
  BY <1>1, NewStep DEF CellOf, OutCell, Zero
<1>3. PeerInv'
  BY <1>1 DEF PeerInv, PeerTypes, BytesFollow, MessagesFollow
<1>4. ReadTypes'
  BY <1>1, <1>2 DEF Inv, ReadInv, ReadTypes
<1>5. ReadsAll' /\ PreadKeeps'
  BY <1>1, <1>2, MsgStreamAssumption DEF ReadsAll, AllRead, PreadKeeps
<1>6. Position' /\ HandledIsSent'
  <2>1. whole' => msg'.len = 0
    <3>1. whole' => msg = NoMsg
      BY <1>1
    <3>2. msg' = msg /\ NoMsg.len = 0
      BY <1>1 DEF NoMsg
    <3> QED
      BY <3>1, <3>2
  <2>2. AtBoundary'
    BY <1>1, <1>2 DEF AtBoundary, Gone
  <2> QED
    BY <1>1, <2>1, <2>2 DEF Position, HandledIsSent
<1>7. WriteInv'
  BY <1>1, <1>2 DEF Inv, WriteInv, WriteTypes, PwriteKeeps
<1>8. Bounds'
  BY <1>1, MsgStreamAssumption DEF Inv, PeerInv, PeerTypes, Bounds
<1> QED
  BY <1>3, <1>4, <1>5, <1>6, <1>7, <1>8 DEF Inv, ReadInv

-----------------------------------------------------------------------------
(* The theorems. *)

LEMMA NextInv ==
  ASSUME Inv, [Next]_vars
  PROVE  Inv'
<1>1. CASE Next
  BY <1>1, ReconnectsStep, PeerBeginsStep, PeerGoesOnStep, PeerReadsStep,
      ReadEventStep, ReceiveStep, ReceivedStep, ReadLengthStep, HasLengthStep,
      ReadPartStep, ReadLastStep, WriteEventStep, SendPieceStep, SentStep
  DEF Next
<1>2. CASE UNCHANGED vars
  <2>1. UNCHANGED <<peerVars, readVars, writeVars, sendVars, sndq, lostVars, pc>>
    BY <1>2 DEF vars
  <2>2. PeerInv'
    BY <2>1, PeerSame DEF Inv
  <2>3. ReadInv'
    BY <2>1, ReadSame DEF Inv, ReadInv, ReadsAll, lostVars
  <2>4. WriteInv'
    BY <2>1, WriteSame DEF Inv, writeVars, sendVars
  <2>5. Bounds'
    BY <2>1, BoundsSame DEF Inv, Bounds, peerVars, writeVars, lostVars
  <2> QED
    BY <2>2, <2>3, <2>4, <2>5 DEF Inv
<1> QED
  BY <1>1, <1>2

(* The inductive invariant holds in every reachable state. *)
THEOREM Invariance == Spec => []Inv
  BY InitInv, NextInv, PTL DEF Spec

(* The variables keep their types: both buffers are buffers of bytes that were
   sent, with their indices in order, nothing is taken that was not sent, and the
   Msg never has more than its length. *)
THEOREM TypeCorrect == Spec => []TypeOK
<1>1. Inv => TypeOK
  <2> SUFFICES ASSUME Inv PROVE TypeOK
    OBVIOUS
  <2>1. PeerInv /\ ReadInv /\ WriteInv /\ Bounds
    BY DEF Inv
  <2>2. Buffers!IsBuffer(pread, (0 .. Len(lens)) \X Nat)
    <3>1. CellOf(Len(lens)) \subseteq (0 .. Len(lens)) \X Nat
      <4>1. Len(lens) \in Nat
        BY <2>1, InputFacts DEF PeerInv
      <4> QED
        BY <4>1 DEF CellOf, BytesOf, Byte, Zero
    <3>2. IsBuf(pread, (0 .. Len(lens)) \X Nat)
      BY <2>1, <3>1, ReadFacts, MoreCells
    <3> QED
      BY <3>2 DEF IsBuf
  <2>3. Buffers!IsBuffer(pwrite, {0} \X Nat)
    BY <2>1 DEF WriteInv, WriteTypes, IsBuf, OutCell
  <2>4. Len(msg.data) <= msg.len
    BY <2>1, ReadFacts
  <2>5. size >= 0
    BY <2>1, HeadFacts DEF WriteInv, WriteTypes
  <2> QED
    BY <2>1, <2>2, <2>3, <2>4, <2>5
    DEF PeerInv, PeerTypes, ReadInv, ReadTypes, Bounds, TypeOK
<1> QED
  BY <1>1, Invariance, PTL

(* Sequences are the same when their elements are. *)
LEMMA SameSeq ==
  ASSUME NEW C, NEW D, NEW s \in Seq(C), NEW t \in Seq(D), Len(s) = Len(t),
         \A i \in 1 .. Len(s) : s[i] = t[i]
  PROVE  s = t
  OBVIOUS

(* A buffer that has not held more than twice BUFFER_SIZE has lost nothing: it
   holds the bytes that were written and not yet read, in their order, through
   every MoveToFront and the one resize() that there can be. *)
THEOREM BuffersKeepBytes == Spec => []BufferKeepsBytes
<1>1. Inv => BufferKeepsBytes
  <2> SUFFICES ASSUME Inv PROVE BufferKeepsBytes
    OBVIOUS
  <2>1. PeerInv /\ ReadInv /\ WriteInv
    BY DEF Inv
  <2>2. ASSUME Small
        PROVE  Buffers!Contents(pread) =
                 SubSeq(input, received - readable(pread) + 1, received)
    <3> DEFINE C == CellOf(Len(lens))
               D == BytesOf(Len(lens))
               n == readable(pread)
               s == Buffers!Contents(pread)
               t == SubSeq(input, Gone + 1, Gone + n)
    <3>1. /\ n \in Nat /\ Gone \in Nat /\ Gone + n = received
          /\ received <= Len(input) /\ IsBuf(pread, C)
      BY <2>1, ReadFacts
    <3>2. s \in Seq(C) /\ Len(s) = n /\ \A i \in 1 .. n : s[i] = pread.date[pread.start_idx + i]
      BY <3>1, ContentsFacts
    <3>3. input \in Seq(D)
      BY <2>1 DEF PeerInv, PeerTypes
    <3> HIDE DEF C, D, n, s
    <3>4. t \in Seq(D) /\ Len(t) = n /\ \A i \in 1 .. n : t[i] = input[Gone + i]
      BY <3>1, <3>3, PartFacts
    <3> HIDE DEF t
    <3>5. \A i \in 1 .. n : s[i] = t[i]
      BY <2>1, <2>2, <3>2, <3>4 DEF ReadInv, PreadKeeps, n
    <3>6. s = t
      BY <3>2, <3>4, <3>5, SameSeq
    <3>7. received - readable(pread) + 1 = Gone + 1
      BY DEF Gone
    <3> QED
      BY <3>1, <3>6, <3>7 DEF s, t
  <2>3. ASSUME heldOut <= 2 * BUFFER_SIZE
        PROVE  Buffers!Contents(pwrite) =
                 [i \in 1 .. readable(pwrite) |-> <<0, written - readable(pwrite) + i>>]
    <3> DEFINE n == readable(pwrite)
               s == Buffers!Contents(pwrite)
    <3>1. s \in Seq(OutCell) /\ Len(s) = n
          /\ \A i \in 1 .. n : s[i] = pwrite.date[pwrite.start_idx + i]
      BY <2>1, ContentsFacts DEF WriteInv, WriteTypes
    <3>2. \A i \in 1 .. n : pwrite.date[pwrite.start_idx + i] = <<0, written - n + i>>
      BY <2>1, <2>3 DEF WriteInv, PwriteKeeps
    <3> HIDE DEF s, n
    <3>3. DOMAIN s = 1 .. n /\ s = [i \in DOMAIN s |-> s[i]]
      BY <3>1
    <3>4. s = [i \in 1 .. n |-> <<0, written - n + i>>]
      BY <3>1, <3>2, <3>3
    <3> QED
      BY <3>4 DEF s, n
  <2> QED
    BY <2>2, <2>3 DEF BufferKeepsBytes, Small, readable
<1> QED
  BY <1>1, Invariance, PTL

(* While pread_buf has not held more than twice BUFFER_SIZE, and no connection of
   a Client ended within the data of a message, the messages handled are those
   the peer sent, whole and in order. *)
THEOREM MessagesAlwaysArrive == Spec => []MessagesArrive
<1>1. Inv => MessagesArrive
  <2>1. Inv => DOMAIN handled = 1 .. Len(handled)
    BY DEF Inv, ReadInv, ReadTypes
  <2> QED
    BY <2>1 DEF Inv, ReadInv, HandledIsSent, Small, MessagesArrive
<1> QED
  BY <1>1, Invariance, PTL

(* The loop never waits with a length, or a part of the message that is read, in
   pread_buf. *)
THEOREM NothingIsLeftBehind == Spec => []NothingLeftBehind
<1>1. Inv => NothingLeftBehind
  BY DEF Inv, ReadInv, ReadsAll, AllRead, readable, NothingLeftBehind
<1> QED
  BY <1>1, Invariance, PTL
-----------------------------------------------------------------------------
(* MsgStream implements Channel.  The bytes of the input are in the order of
   their messages, and of their places in them. *)

Precedes(a, b) == a[1] < b[1] \/ (a[1] = b[1] /\ a[2] < b[2])

Ordered ==
  \A i, j \in 1 .. Len(input) : i < j => Precedes(input[i], input[j])

(* A byte that comes after the last one keeps the order. *)
LEMMA OneMoreOrdered ==
  ASSUME PeerTypes, Ordered, NEW x, NEW C, input \in Seq(C),
         x \in C, input' = Append(input, x),
         \A i \in 1 .. Len(input) : Precedes(input[i], x)
  PROVE  Ordered'
<1> DEFINE n == Len(input)
<1>1. /\ n \in Nat /\ Len(input') = n + 1 /\ input'[n + 1] = x
      /\ \A i \in 1 .. n : input'[i] = input[i]
  OBVIOUS
<1>2. \A i, j \in 1 .. n : i < j => Precedes(input'[i], input'[j])
  BY <1>1 DEF Ordered
<1>3. \A i \in 1 .. n : Precedes(input'[i], input'[n + 1])
  BY <1>1
<1> HIDE DEF n
<1>4. \A i, j \in 1 .. n + 1 : i < j => Precedes(input'[i], input'[j])
  <2> SUFFICES ASSUME NEW i \in 1 .. n + 1, NEW j \in 1 .. n + 1, i < j
               PROVE  Precedes(input'[i], input'[j])
    OBVIOUS
  <2>1. i \in 1 .. n /\ (j \in 1 .. n \/ j = n + 1)
    BY <1>1
  <2> QED
    BY <1>2, <1>3, <2>1
<1> QED
  BY <1>1, <1>4 DEF Ordered

LEMMA OrderedStep ==
  ASSUME Inv, Ordered, [Next]_vars
  PROVE  Ordered'
<1> DEFINE n == Len(input)
           m == Len(lens)
<1>1. /\ n \in Nat /\ m \in Nat /\ input \in Seq(BytesOf(m)) /\ PeerTypes
      /\ \A i \in 1 .. n : input[i][1] \in 1 .. m /\ input[i][2] \in Byte
  BY InputFacts DEF Inv, PeerInv, PeerTypes
<1>2. CASE PeerBegins
  <2> DEFINE x == <<m + 1, 1>>
  <2>1. input' = Append(input, x)
    BY <1>2 DEF PeerBegins
  <2>2. x \in BytesOf(m + 1) /\ input \in Seq(BytesOf(m + 1))
    <3>1. BytesOf(m) \subseteq BytesOf(m + 1) /\ x \in BytesOf(m + 1)
      BY <1>1 DEF BytesOf, Byte
    <3> QED
      BY <1>1, <3>1
  <2>3. ASSUME NEW i \in 1 .. n PROVE Precedes(input[i], x)
    <3>1. input[i][1] < x[1]
      BY <1>1
    <3> QED
      BY <3>1 DEF Precedes
  <2> HIDE DEF x
  <2> QED
    BY <1>1, <2>1, <2>2, <2>3, OneMoreOrdered
<1>3. CASE PeerGoesOn
  <2> DEFINE k == input[n][2]
             x == <<m, k + 1>>
  <2>1. input # <<>> /\ input' = Append(input, <<m, Last(input)[2] + 1>>)
    BY <1>3 DEF PeerGoesOn, AtMessageEnd
  <2>2. n \in 1 .. n /\ Last(input) = input[n] /\ input[n][1] = m /\ k \in Nat
    BY <1>1, <2>1 DEF Last, PeerTypes, Byte
  <2>3. input' = Append(input, x)
    BY <2>1, <2>2
  <2>4. x \in BytesOf(m)
    BY <1>1, <2>2 DEF BytesOf, Byte
  <2> HIDE DEF k
  <2>5. Precedes(input[n], x)
    <3>1. input[n][1] = x[1] /\ input[n][2] = k /\ x[2] = k + 1
      BY <2>2 DEF k
    <3> QED
      BY <2>2, <3>1 DEF Precedes
  <2>6. ASSUME NEW i \in 1 .. n PROVE Precedes(input[i], x)
    <3>1. CASE i < n
      <4>1. Precedes(input[i], input[n])
        BY <2>2, <3>1 DEF Ordered
      <4>2. input[i][1] < m \/ (input[i][1] = m /\ input[i][2] < k)
        BY <2>2, <4>1 DEF Precedes, k
      <4>3. input[i][2] \in Nat
        BY <1>1 DEF Byte
      <4>4. input[i][2] < k => input[i][2] < k + 1
        BY <2>2, <4>3
      <4> QED
        BY <4>2, <4>4 DEF Precedes
    <3>2. CASE i = n
      BY <2>5, <3>2
    <3> QED
      BY <1>1, <3>1, <3>2
  <2> HIDE DEF x
  <2> QED
    BY <1>1, <2>3, <2>4, <2>6, OneMoreOrdered
<1>4. CASE Reconnects
  <2>1. Len(input') = 0
    BY <1>4 DEF Reconnects
  <2> QED
    BY <2>1 DEF Ordered
<1>5. CASE input' = input
  BY <1>5 DEF Ordered
<1> QED
  BY <1>2, <1>3, <1>4, <1>5
  DEF Next, PeerReads, ReadEvent, Receive, Received, ReadLength, HasLength,
      ReadPart, ReadLast, WriteEvent, SendPiece, Sent, vars, peerVars

-----------------------------------------------------------------------------
(* The messages that have come. *)

LEMMA EndedType ==
  ASSUME PeerInv, NEW n \in 0 .. Len(input)
  PROVE  EndedBy(n) \in Nat /\ EndedBy(n) <= Len(lens)
<1>1. CASE n = 0
  BY <1>1, InputFacts DEF EndedBy, PeerInv
<1>2. CASE n # 0
  <2>1. input[n][1] \in 1 .. Len(lens) /\ Len(lens) \in Nat
    BY <1>2, InputFacts DEF PeerInv
  <2> QED
    BY <1>2, <2>1 DEF EndedBy
<1> QED
  BY <1>1, <1>2

(* More bytes end no fewer messages. *)
LEMMA EndedGrows ==
  ASSUME PeerInv, Ordered, NEW a \in 0 .. Len(input), NEW b \in 0 .. Len(input), a <= b
  PROVE  EndedBy(a) <= EndedBy(b)
<1>1. EndedBy(a) \in Nat /\ EndedBy(b) \in Nat
  BY EndedType
<1>2. CASE a = 0
  BY <1>1, <1>2 DEF EndedBy
<1>3. CASE a = b
  BY <1>1, <1>3
<1>4. CASE a # 0 /\ a < b
  <2> DEFINE m == input[a][1]
             i == input[a][2]
             l == input[b][1]
             j == input[b][2]
  <2>1. a \in 1 .. Len(input) /\ b \in 1 .. Len(input)
    BY <1>4, InputFacts DEF PeerInv
  <2>2. /\ m \in Nat /\ l \in Nat /\ i \in Nat /\ j \in Nat
        /\ EndOf(lens, l) \in Nat /\ j <= EndOf(lens, l)
    BY <2>1, InputFacts DEF PeerInv, BytesFollow, Byte
  <2>3. m < l \/ (m = l /\ i < j)
    BY <1>4, <2>1 DEF Ordered, Precedes
  <2>4. /\ EndedBy(a) = IF i = EndOf(lens, m) THEN m ELSE m - 1
        /\ EndedBy(b) = IF j = EndOf(lens, l) THEN l ELSE l - 1
    BY <1>4, <2>1 DEF EndedBy, EndOf
  <2> HIDE DEF m, i, l, j
  <2> QED
    BY <2>2, <2>3, <2>4
<1> QED
  BY <1>2, <1>3, <1>4

LEMMA ComeBy ==
  ASSUME PeerInv, NEW a \in 0 .. Len(input)
  PROVE  LET n == EndedBy(a)
             c == [m \in 1 .. n |-> DataOf(m)]
         IN n \in Nat /\ c \in Seq(Seq(Nat \X Nat)) /\ Len(c) = n
<1> DEFINE n == EndedBy(a)
           c == [m \in 1 .. n |-> DataOf(m)]
<1>1. n \in Nat /\ n <= Len(lens)
  BY EndedType
<1>2. ASSUME NEW m \in 1 .. n PROVE DataOf(m) \in Seq(Nat \X Nat)
  <2> DEFINE l == lens[m]
  <2>1. m \in 1 .. Len(lens) /\ Len(lens) \in Nat
    BY <1>1, InputFacts DEF PeerInv
  <2>2. l \in Nat /\ m \in Nat /\ HeaderSize \in Nat
    BY <2>1, InputFacts, MsgStreamAssumption DEF PeerInv, Byte
  <2> HIDE DEF l
  <2>3. [i \in 1 .. l |-> <<m, HeaderSize + i>>] \in [1 .. l -> Nat \X Nat]
    BY <2>2
  <2> QED
    BY <2>2, <2>3, SeqFrom DEF DataOf, l
<1> HIDE DEF n
<1>3. c \in [1 .. n -> Seq(Nat \X Nat)]
  BY <1>2
<1> HIDE DEF c
<1>4. c \in Seq(Seq(Nat \X Nat)) /\ Len(c) = n
  BY <1>1, <1>3, SeqFrom
<1> QED
  BY <1>1, <1>4 DEF n, c

LEMMA ComeForm ==
  ASSUME PeerInv, ReadInv
  PROVE  /\ Come \in Seq(Seq(Nat \X Nat)) /\ Len(Come) = EndedBy(received)
         /\ EndedBy(received) \in Nat
         /\ \A m \in 1 .. EndedBy(received) : Come[m] = DataOf(m)
<1>1. received \in 0 .. Len(input)
  BY DEF ReadInv, ReadTypes
<1> QED
  BY <1>1, ComeBy DEF Come

LEMMA SameCome ==
  ASSUME UNCHANGED <<received, input, lens>>
  PROVE  Come' = Come
  BY DEF Come, EndedBy, DataOf

(* What has come does not change when the peer sends more. *)
LEMMA ComeOfMore ==
  ASSUME PeerInv, ReadInv, UNCHANGED received,
         \A m \in 1 .. Len(lens) : lens'[m] = lens[m],
         \A i \in 1 .. Len(input) : input'[i] = input[i]
  PROVE  Come' = Come
<1> DEFINE n == EndedBy(received)
<1>1. received \in 0 .. Len(input)
  BY DEF ReadInv, ReadTypes
<1>2. n \in Nat /\ n <= Len(lens) /\ Len(lens) \in Nat
  BY <1>1, EndedType, InputFacts DEF PeerInv
<1>3. n' = n
  <2>1. CASE received = 0
    BY <2>1 DEF EndedBy
  <2>2. CASE received # 0
    <3>1. received \in 1 .. Len(input)
      BY <1>1, <2>2, InputFacts DEF PeerInv
    <3>2. input'[received] = input[received] /\ input[received][1] \in 1 .. Len(lens)
      BY <3>1, InputFacts DEF PeerInv
    <3>3. lens'[input[received][1]] = lens[input[received][1]]
      BY <3>2
    <3> QED
      BY <3>2, <3>3 DEF EndedBy
  <2> QED
    BY <2>1, <2>2
<1>4. \A m \in 1 .. n : DataOf(m)' = DataOf(m)
  <2>1. ASSUME NEW m \in 1 .. n PROVE lens'[m] = lens[m]
    BY <1>2
  <2> QED
    BY <2>1 DEF DataOf
<1> HIDE DEF n
<1>5. /\ Come = [m \in 1 .. n |-> DataOf(m)]
      /\ Come' = [m \in 1 .. n' |-> DataOf(m)']
  BY DEF Come, n
<1> QED
  BY <1>3, <1>4, <1>5

(* Nothing is handed over before it has come, and when the loop waits nothing
   that has come is left. *)
LEMMA HandledCame ==
  ASSUME Inv, Ordered, Reliable
  PROVE  /\ Len(handled) \in Nat /\ Len(handled) <= EndedBy(received)
         /\ Waiting => Len(handled) = EndedBy(received)
<1> DEFINE h == Len(handled)
           r == readable(pread)
<1>1. /\ PeerInv /\ ReadInv /\ Small /\ whole
      /\ h \in Nat /\ r \in Nat /\ Gone \in Nat /\ Gone + r = received
      /\ received <= Len(input) /\ Len(input) \in Nat
      /\ Len(msg.data) \in Nat /\ msg.len \in Nat
      /\ HeaderSize \in Nat
      /\ msg.len > 0 => Len(msg.data) < msg.len
  BY ReadFacts, InputFacts, MsgStreamAssumption
  DEF Inv, PeerInv, Reliable, Small, ReadInv, ReadTypes
<1>2. Gone \in 0 .. Len(input) /\ received \in 0 .. Len(input) /\ Gone <= received
  BY <1>1
<1>3. EndedBy(Gone) = h
  <2>1. CASE msg.len = 0
    <3>1. AtBoundary
      BY <1>1, <2>1 DEF ReadInv, Position
    <3>2. CASE handled = <<>>
      BY <3>1, <3>2 DEF AtBoundary, EndedBy
    <3>3. CASE handled # <<>>
      <4>1. Gone > 0 /\ input[Gone] = <<h, EndOf(lens, h)>>
        BY <3>1, <3>3 DEF AtBoundary
      <4> QED
        BY <4>1 DEF EndedBy, EndOf
    <3> QED
      BY <3>2, <3>3
  <2>2. CASE msg.len > 0
    <3>1. /\ Gone > 0 /\ input[Gone] = <<h + 1, HeaderSize + Len(msg.data)>>
          /\ msg.len = lens[h + 1]
      BY <1>1, <2>2 DEF ReadInv, Position, WithinMessage
    <3>2. HeaderSize + Len(msg.data) # HeaderSize + msg.len
      BY <1>1, <2>2
    <3>3. EndedBy(Gone) = (h + 1) - 1
      BY <3>1, <3>2 DEF EndedBy
    <3> QED
      BY <1>1, <3>3
  <2> QED
    BY <1>1, <2>1, <2>2
<1>4. h <= EndedBy(received)
  BY <1>1, <1>2, <1>3, EndedGrows
<1>5. ASSUME Waiting PROVE h = EndedBy(received)
  <2>1. IF msg.len = 0 THEN r < HeaderSize ELSE r = 0
    BY <1>1, <1>5 DEF Waiting, ReadInv, ReadsAll, AllRead
  <2>2. CASE r = 0
    BY <1>1, <1>3, <2>2
  <2>3. CASE r # 0
    <3> DEFINE g == Gone
    <3>1. msg.len = 0 /\ 0 < r /\ r < HeaderSize /\ AtBoundary
      BY <1>1, <2>1, <2>3 DEF ReadInv, Position
    <3>2. g + 1 \in 1 .. Len(input) /\ (g + 1) + (r - 1) = received /\ r - 1 \in Nat
      BY <1>1, <3>1
    <3>3. input[g + 1] = <<h + 1, 1>>
      <4>1. CASE handled = <<>>
        <5>1. g = 0 /\ h = 0
          BY <3>1, <4>1 DEF AtBoundary
        <5>2. input # <<>> /\ input[1] = <<1, 1>>
          BY <3>2, <5>1 DEF Inv, PeerInv, PeerTypes
        <5> QED
          BY <5>1, <5>2
      <4>2. CASE handled # <<>>
        <5>1. g > 0 /\ input[g] = <<h, EndOf(lens, h)>>
          BY <3>1, <4>2 DEF AtBoundary
        <5>2. g \in 1 .. Len(input) - 1
          BY <1>1, <3>2, <5>1
        <5>3. input[g][1] = h /\ input[g][2] = EndOf(lens, input[g][1])
          BY <5>1
        <5> QED
          BY <1>1, <5>2, <5>3 DEF PeerInv, MessagesFollow
      <4> QED
        BY <4>1, <4>2
    <3>4. /\ h + 1 \in 1 .. Len(lens) /\ lens[h + 1] \in Nat
          /\ EndOf(lens, h + 1) = HeaderSize + lens[h + 1]
      <4>1. h + 1 \in 1 .. Len(lens)
        BY <1>1, <3>2, <3>3, InputFacts DEF PeerInv
      <4>2. lens[h + 1] \in Nat
        BY <1>1, <4>1, InputFacts DEF PeerInv, Byte
      <4> QED
        BY <4>1, <4>2 DEF EndOf
    <3> HIDE DEF g, r, h
    <3>5. 1 + (r - 1) <= EndOf(lens, h + 1)
      BY <1>1, <3>1, <3>2, <3>4
    <3>6. input[(g + 1) + (r - 1)] = <<h + 1, 1 + (r - 1)>>
      <4>1. (g + 1) + (r - 1) <= Len(input) /\ r - 1 \in 0 .. r - 1
        BY <1>1, <3>2
      <4>2. input[g + 1][1] = h + 1 /\ input[g + 1][2] = 1
        BY <3>3
      <4>3. input[g + 1][2] + (r - 1) <= EndOf(lens, input[g + 1][1])
        BY <3>5, <4>2
      <4>4. \A j \in 0 .. r - 1 :
              input[(g + 1) + j] = <<input[g + 1][1], input[g + 1][2] + j>>
        BY <1>1, <3>2, <4>1, <4>3, SameMessage
      <4> QED
        BY <4>1, <4>2, <4>4
    <3>7. input[received] = <<h + 1, r>> /\ received # 0
      <4>1. 1 + (r - 1) = r /\ received # 0
        BY <1>1, <3>1, <3>2
      <4> QED
        BY <3>2, <3>6, <4>1
    <3>8. EndedBy(received) = (h + 1) - 1
      <4>1. r # HeaderSize + lens[h + 1]
        BY <1>1, <3>1, <3>4
      <4> QED
        BY <3>7, <4>1 DEF EndedBy
    <3> QED
      BY <1>1, <3>8
  <2> QED
    BY <2>2, <2>3
<1> QED
  BY <1>1, <1>4, <1>5

(* While the promise is kept, what was handed over is the first that came. *)
HandedFirst ==
  /\ handled \in Seq(Seq(Nat \X Nat))
  /\ Len(handled) \in Nat /\ Len(handled) <= Len(Come)
  /\ \A m \in 1 .. Len(handled) : handled[m] = Come[m]
  /\ Waiting => handled = Come

LEMMA HandedIs == Inv /\ Ordered /\ Reliable => HandedFirst
<1> SUFFICES ASSUME Inv, Ordered, Reliable PROVE HandedFirst
  OBVIOUS
<1>1. /\ PeerInv /\ ReadInv /\ Small /\ whole
      /\ handled \in Seq(Seq(Nat \X Nat))
  BY DEF Inv, Reliable, Small, ReadInv, ReadTypes
<1>2. /\ Len(handled) \in Nat /\ Len(handled) <= Len(Come) /\ Len(Come) \in Nat
      /\ Waiting => Len(handled) = Len(Come)
  BY <1>1, HandledCame, ComeForm
<1>3. \A m \in 1 .. Len(handled) : handled[m] = Come[m]
  <2> SUFFICES ASSUME NEW m \in 1 .. Len(handled) PROVE handled[m] = Come[m]
    OBVIOUS
  <2>1. handled[m] = DataOf(m)
    BY <1>1 DEF ReadInv, HandledIsSent
  <2>2. m \in 1 .. EndedBy(received)
    BY <1>1, <1>2, ComeForm
  <2> QED
    BY <1>1, <2>1, <2>2, ComeForm
<1>4. ASSUME Waiting PROVE handled = Come
  <2>1. Come \in Seq(Seq(Nat \X Nat)) /\ Len(handled) = Len(Come)
    BY <1>1, <1>2, <1>4, ComeForm
  <2> QED
    BY <1>1, <1>3, <2>1, SameSeq
<1> QED
  BY <1>1, <1>2, <1>3, <1>4 DEF HandedFirst

LEMMA HandedIsNext == Inv' /\ Ordered' /\ Reliable' => HandedFirst'
  BY HandedIs, PTL

-----------------------------------------------------------------------------
(* The steps of Channel. *)

Channelled == [Abstract!Next]_Abstract!channelVars

(* A step that changes none of Channel's variables. *)
LEMMA Unseen ==
  ASSUME UNCHANGED <<Come, handled, Waiting, Reliable>>
  PROVE  Channelled
  BY DEF Channelled, Abstract!channelVars

LEMMA PeerChannelled ==
  ASSUME Inv, Inv', PeerBegins \/ PeerGoesOn
  PROVE  Channelled
<1>1. /\ UNCHANGED <<received, handled, held, whole, pc>>
      /\ \E x : input' = Append(input, x)
      /\ lens' = lens \/ \E l : lens' = Append(lens, l)
  BY DEF PeerBegins, PeerGoesOn, readVars, lostVars
<1>2. lens \in Seq(Lengths) /\ input \in Seq(BytesOf(Len(lens)))
  BY DEF Inv, PeerInv, PeerTypes
<1>3. /\ \A m \in 1 .. Len(lens) : lens'[m] = lens[m]
      /\ \A i \in 1 .. Len(input) : input'[i] = input[i]
  BY <1>1, <1>2
<1>4. Come' = Come
  BY <1>1, <1>3, ComeOfMore DEF Inv
<1> QED
  BY <1>1, <1>4, Unseen DEF Waiting, Reliable

LEMMA ReceiveChannelled ==
  ASSUME Inv, Inv', Ordered, Receive
  PROVE  Channelled
<1>1. /\ pc = "recv" /\ UNCHANGED <<handled, pc, lens, input, whole>>
      /\ received' = received + Least(BUFFER_SIZE, Len(input) - received)
      /\ held' = Most(held, readable(pread'))
  BY DEF Receive, peerVars, lostVars, readable
<1>2. /\ received \in Nat /\ received' \in Nat /\ received <= received'
      /\ received' <= Len(input) /\ Len(input) \in Nat
      /\ held \in Nat /\ held' \in Nat
  BY <1>1, MsgStreamAssumption
  DEF Inv, PeerInv, PeerTypes, ReadInv, ReadTypes, Least
<1>3. Reliable' => Reliable
  <2>1. held <= held'
    <3>1. held' = held \/ (held' = readable(pread') /\ ~(held > readable(pread')))
      BY <1>1 DEF Most
    <3> QED
      BY <1>2, <3>1
  <2>2. 2 * BUFFER_SIZE \in Nat
    BY MsgStreamAssumption
  <2> QED
    BY <1>1, <1>2, <2>1, <2>2 DEF Reliable
<1> DEFINE a == EndedBy(received)
           b == EndedBy(received')
<1>4. a \in Nat /\ b \in Nat /\ a <= b
  BY <1>2, EndedType, EndedGrows DEF Inv
<1>5. Come = [m \in 1 .. a |-> DataOf(m)] /\ Come' = [m \in 1 .. b |-> DataOf(m)]
  BY <1>1 DEF Come, EndedBy, DataOf
<1>6. /\ Len(Come) = a /\ Come \in Seq(Seq(Nat \X Nat))
      /\ Come' \in Seq(Seq(Nat \X Nat)) /\ Len(Come') = b
  <2>1. received \in 0 .. Len(input) /\ received' \in 0 .. Len(input) /\ PeerInv
    BY <1>2 DEF Inv
  <2> QED
    BY <1>5, <2>1, ComeBy
<1> HIDE DEF a, b
<1>7. Come = SubSeq(Come', 1, a)
  <2> DEFINE s == SubSeq(Come', 1, a)
  <2>1. /\ s \in Seq(Seq(Nat \X Nat)) /\ Len(s) = a
        /\ \A i \in 1 .. a : s[i] = Come'[i]
    BY <1>4, <1>6
  <2>2. \A i \in 1 .. a : Come'[i] = Come[i]
    BY <1>4, <1>5
  <2> HIDE DEF s
  <2>3. Come = s
    BY <1>6, <2>1, <2>2, SameSeq
  <2> QED
    BY <2>3 DEF s
<1>8. ~Waiting /\ UNCHANGED <<handled, Waiting>>
  BY <1>1 DEF Waiting
<1>9. Abstract!Brings
  BY <1>3, <1>4, <1>6, <1>7, <1>8 DEF Abstract!Brings
<1> QED
  BY <1>9 DEF Channelled, Abstract!Next

(* The next message is handed over, and handle_read may return. *)
LEMMA ReadLastChannelled ==
  ASSUME Inv, Inv', Ordered, Ordered', ReadLast
  PROVE  Channelled
<1>1. /\ pc = "data" /\ handled' = Append(handled, Taken)
      /\ UNCHANGED <<received, held, lens, input, whole>>
  BY DEF ReadLast, peerVars, lostVars
<1>2. Come' = Come /\ Reliable' = Reliable /\ ~Waiting
  BY <1>1, SameCome DEF Reliable, Waiting
<1>3. CASE Reliable
  <2>1. handled \in Seq(Seq(Nat \X Nat)) /\ Taken \in Seq(Nat \X Nat)
    BY <1>3, HandedIs, TakeFacts DEF Inv, HandedFirst
  <2>2. /\ Len(handled) \in Nat /\ Len(handled') = Len(handled) + 1
        /\ handled'[Len(handled) + 1] = Taken
    BY <1>1, <2>1
  <2>3. /\ Len(handled') <= Len(Come)
        /\ \A m \in 1 .. Len(handled') : handled'[m] = Come[m]
        /\ Waiting' => handled' = Come
    <3>1. Reliable'
      BY <1>2, <1>3
    <3>2. HandedFirst'
      BY <3>1, HandedIsNext
    <3> QED
      BY <1>2, <3>2 DEF HandedFirst
  <2>4. Taken = Come[Len(handled) + 1] /\ Len(handled) < Len(Come)
    <3>1. Len(Come) \in Nat
      BY ComeForm DEF Inv
    <3> QED
      BY <2>2, <2>3, <3>1
  <2>5. Abstract!Hands
    BY <1>1, <1>2, <1>3, <2>3, <2>4 DEF Abstract!Hands
  <2> QED
    BY <2>5 DEF Channelled, Abstract!Next
<1>4. CASE ~Reliable
  <2>1. Abstract!Fails
    BY <1>2, <1>4 DEF Abstract!Fails
  <2> QED
    BY <2>1 DEF Channelled, Abstract!Next
<1> QED
  BY <1>3, <1>4

(* handle_read returns with all that has come handed over. *)
LEMMA ReadPartChannelled ==
  ASSUME Inv, Inv', Ordered, Ordered', ReadPart
  PROVE  Channelled
<1>1. /\ pc = "data" /\ pc' = "select"
      /\ UNCHANGED <<received, handled, held, lens, input, whole>>
  BY DEF ReadPart, peerVars, lostVars
<1>2. Come' = Come /\ Reliable' = Reliable /\ ~Waiting /\ Waiting' = TRUE
  BY <1>1, SameCome DEF Reliable, Waiting
<1>3. CASE Reliable
  <2>1. handled' = Come'
    BY <1>2, <1>3, HandedIsNext DEF HandedFirst
  <2>2. Abstract!Waits
    BY <1>1, <1>2, <1>3, <2>1 DEF Abstract!Waits
  <2> QED
    BY <2>2 DEF Channelled, Abstract!Next
<1>4. CASE ~Reliable
  <2>1. Abstract!Fails
    BY <1>2, <1>4 DEF Abstract!Fails
  <2> QED
    BY <2>1 DEF Channelled, Abstract!Next
<1> QED
  BY <1>3, <1>4

LEMMA ReconnectsChannelled ==
  ASSUME Reconnects
  PROVE  Channelled
<1>1. received' = 0 /\ handled' = <<>> /\ pc' = "select"
  BY DEF Reconnects
<1>2. Come' = <<>>
  <2>1. EndedBy(received)' = 0
    BY <1>1 DEF EndedBy
  <2> QED
    BY <2>1 DEF Come
<1>3. Waiting' = TRUE /\ Reliable' \in BOOLEAN
  BY <1>1 DEF Waiting, Reliable
<1>4. Abstract!Renews
  BY <1>1, <1>2, <1>3 DEF Abstract!Renews
<1> QED
  BY <1>4 DEF Channelled, Abstract!Next

LEMMA ReadEventChannelled ==
  ASSUME ReadEvent
  PROVE  Channelled
<1>1. /\ pc = "select" /\ pc' = "recv"
      /\ UNCHANGED <<received, handled, held, lens, input, whole>>
  BY DEF ReadEvent, peerVars, readVars, lostVars
<1>2. Come' = Come /\ Reliable' = Reliable /\ Waiting /\ Waiting' = FALSE
  BY <1>1, SameCome DEF Reliable, Waiting
<1>3. Abstract!Wakes
  BY <1>1, <1>2 DEF Abstract!Wakes
<1> QED
  BY <1>3 DEF Channelled, Abstract!Next

(* The other steps are within handle_read, or of the output. *)
LEMMA OthersChannelled ==
  ASSUME \/ PeerReads \/ Received \/ ReadLength \/ HasLength
         \/ WriteEvent \/ SendPiece \/ Sent \/ UNCHANGED vars
  PROVE  Channelled
<1>1. UNCHANGED <<received, handled, held, lens, input, whole>>
  BY DEF PeerReads, Received, ReadLength, HasLength, WriteEvent, SendPiece, Sent,
         vars, peerVars, readVars, lostVars
<1>2. Waiting' = Waiting
  BY DEF PeerReads, Received, ReadLength, HasLength, WriteEvent, SendPiece, Sent,
         vars, Waiting
<1> QED
  BY <1>1, <1>2, SameCome, Unseen DEF Reliable

LEMMA NextChannelled ==
  ASSUME Inv, Inv', Ordered, Ordered', [Next]_vars
  PROVE  Channelled
  BY PeerChannelled, ReceiveChannelled, ReadLastChannelled, ReadPartChannelled,
     ReconnectsChannelled, ReadEventChannelled, OthersChannelled
  DEF Next

(* MsgStream implements Channel: for any sizes of buffers, headers and messages
   and any cuts, the handler gets each message once, whole, in order and not
   before it has come, and handle_read returns only when it got all that have;
   while pread_buf has not held more than twice BUFFER_SIZE and no connection of
   a Client ended within the data of a message. *)
THEOREM ChannelIsKept == Spec => ChannelKept
<1>1. Init => Ordered /\ Abstract!Init
  <2> SUFFICES ASSUME Init PROVE Ordered /\ Abstract!Init
    OBVIOUS
  <2>1. Len(input) = 0 /\ received = 0 /\ handled = <<>> /\ pc = "select" /\ whole = TRUE
        /\ held = 0
    BY DEF Init
  <2>2. Come = <<>>
    BY <2>1 DEF Come, EndedBy
  <2>3. Waiting = TRUE /\ Reliable = TRUE
    BY <2>1, MsgStreamAssumption DEF Waiting, Reliable
  <2> QED
    BY <2>1, <2>2, <2>3 DEF Ordered, Abstract!Init
<1>2. Inv /\ Ordered /\ [Next]_vars => Ordered'
  BY OrderedStep
<1>3. Inv /\ Inv' /\ Ordered /\ Ordered' /\ [Next]_vars
        => [Abstract!Next]_Abstract!channelVars
  BY NextChannelled DEF Channelled
<1>4. Spec => []Inv
  BY Invariance
<1> QED
  BY <1>1, <1>2, <1>3, <1>4, PTL DEF Spec, ChannelKept, Abstract!Spec
=============================================================================

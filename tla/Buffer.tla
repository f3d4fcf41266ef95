------------------------------- MODULE Buffer -------------------------------
(***************************************************************************)
(* Buffer (net/buffer.cpp, include/buffer.hpp): a std::vector<char> with   *)
(* the unread bytes between start_idx and end_idx.  A write first uses the *)
(* vector's capacity, then moves the unread bytes to the front, and only   *)
(* then calls resize(), which copies the vector's size, not its capacity,  *)
(* to the new memory.                                                      *)
(*                                                                         *)
(* date holds a cell per byte of capacity, from index 1.  The operators    *)
(* take and return whole buffers.                                          *)
(***************************************************************************)
EXTENDS Integers, Sequences

CONSTANTS BUFFER_SIZE,  \* 4096 in the code
          Zero          \* the cell of a byte that resize() made

Buffers(Cell) == [date : Seq(Cell), size : Nat, start_idx : Nat, end_idx : Nat]

IsBuffer(b, Cell) ==
  /\ b \in Buffers(Cell)
  /\ b.start_idx <= b.end_idx
  /\ b.end_idx <= Len(b.date)
  /\ b.size <= Len(b.date)

NewBuffer == [date |-> [i \in 1 .. BUFFER_SIZE |-> Zero],
              size |-> BUFFER_SIZE, start_idx |-> 0, end_idx |-> 0]

readable_size(b)  == b.end_idx - b.start_idx
writeable_size(b) == Len(b.date) - b.end_idx
Contents(b)       == SubSeq(b.date, b.start_idx + 1, b.end_idx)

\* The n cells from index i on, which need not be unread ones.
Cells(b, i, n) == SubSeq(b.date, i + 1, i + n)

has_read(b, n) == [b EXCEPT !.start_idx = @ + n]

-----------------------------------------------------------------------------

\* Faulty: the unread bytes are not moved.
MoveNothing(b) ==
  [b EXCEPT !.start_idx = 0, !.end_idx = readable_size(b)]

MoveToFront(b) ==
  [b EXCEPT !.date = [i \in DOMAIN b.date |->
                        IF i <= readable_size(b) THEN b.date[b.start_idx + i]
                        ELSE b.date[i]],
            !.start_idx = 0,
            !.end_idx = readable_size(b)]

\* resize(n), for n above the capacity: the capacity at least doubles the size.
\* What it does not copy is 0, or left to chance and written before it is read.
Grow(b, n) ==
  LET capacity == IF n > 2 * b.size THEN n ELSE 2 * b.size
  IN [b EXCEPT !.date = [i \in 1 .. capacity |->
                           IF i <= b.size THEN b.date[i] ELSE Zero],
               !.size = n]

make_write_space(b, len) ==
  IF writeable_size(b) >= len THEN b
  ELSE IF b.start_idx + writeable_size(b) >= len THEN MoveToFront(b)
  ELSE Grow(b, b.end_idx + len)

\* std::copy to the free end of the buffer.
Put(b, s) ==
  [b EXCEPT !.date = [i \in DOMAIN b.date |->
                        IF i \in b.end_idx + 1 .. b.end_idx + Len(s)
                        THEN s[i - b.end_idx] ELSE b.date[i]],
            !.end_idx = @ + Len(s)]

write(b, s) == Put(make_write_space(b, Len(s)), s)
=============================================================================

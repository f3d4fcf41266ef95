------------------------------- MODULE Wire -------------------------------
(***************************************************************************)
(* The four messages of proto/gen_proto/pbs/test.proto as protoc's classes *)
(* encode them (proto/gen_proto/cpp/test.pb.cc).  Every class has the      *)
(* optional numbers service_id = 1 and command_id = 2 and its required     *)
(* fields from 3 on; so a class is its default ids, how many required      *)
(* fields it has and whether they are strings, and the methods, which are  *)
(* the same in each class, are operators: a class and an operator together *)
(* are the class's own copy of the method.                                 *)
(*                                                                         *)
(* Bytes are numbers.  A number that is negative is sign-extended to       *)
(* LongBits before it is written.  What is left out is what no sender of   *)
(* these four messages does: unknown fields, and tags of a wrong type.     *)
(***************************************************************************)
EXTENDS Integers, Sequences

CONSTANTS IntBits,   \* the width of an int32
          LongBits   \* the width of an int64

ASSUME WireAssumption ==
  /\ IntBits \in Nat \ {0}
  /\ LongBits \in Nat /\ LongBits >= IntBits

\* 2 ^ n.
Pow2[n \in Nat] == IF n = 0 THEN 1 ELSE 2 * Pow2[n - 1]

Int32 == -Pow2[IntBits - 1] .. Pow2[IntBits - 1] - 1

-----------------------------------------------------------------------------
(* The classes *)

Class(c_id, count, text) ==
  [service_id |-> 1000, command_id |-> c_id, required |-> 3 .. 2 + count,
   text |-> text]

Echo   == Class(1, 1, TRUE)
C_Echo == Class(2, 1, TRUE)
Add    == Class(1001, 2, FALSE)
AddRet == Class(1002, 1, FALSE)

Fields(T) == {1, 2} \cup T.required
IsText(T, f) == T.text /\ f \in T.required

\* A message: the values of its fields, and its has-bits.
New(T) ==
  [type |-> T, has |-> {},
   value |-> [f \in Fields(T) |-> IF f = 1 THEN T.service_id
                                  ELSE IF f = 2 THEN T.command_id
                                  ELSE IF IsText(T, f) THEN <<>> ELSE 0]]

Set(m, f, v) == [m EXCEPT !.has = @ \cup {f}, !.value[f] = v]

IsInitialized(m) == m.type.required \subseteq m.has

service_id(m) == m.value[1]
command_id(m) == m.value[2]

-----------------------------------------------------------------------------
(* WireFormatLite: base 128, the low digits first, 128 added to every byte *)
(* but the last.                                                           *)

Varint[n \in Nat] ==
  IF n < 128 THEN <<n>> ELSE <<128 + (n % 128)>> \o Varint[n \div 128]

\* Faulty: a negative number is written as 32 bits.
ShortInt(n) == Varint[n % Pow2[IntBits]]

WriteInt(n) == Varint[IF n < 0 THEN n + Pow2[LongBits] ELSE n]

\* Where the varint that begins at place p of s ends; 0 if s ends before it.
VarintEnd(s, p) ==
  LET ends == {i \in p .. Len(s) : s[i] < 128}
  IN IF ends = {} THEN 0 ELSE CHOOSE i \in ends : \A j \in ends : i <= j

Unsigned(s, p, e) ==
  LET v[i \in 1 .. e + 1] == IF i > e THEN 0 ELSE (s[i] % 128) + 128 * v[i + 1]
  IN v[p]

\* The low bits, as a signed number.
ReadInt(s, p, e) ==
  LET n == Unsigned(s, p, e) % Pow2[IntBits]
  IN IF n >= Pow2[IntBits - 1] THEN n - Pow2[IntBits] ELSE n

-----------------------------------------------------------------------------
(* Writing *)

\* Wire type 2, length-delimited, of a string; 0 of a number.
Tag(T, f) == 8 * f + (IF IsText(T, f) THEN 2 ELSE 0)

WriteField(m, f) ==
  IF f \notin m.has THEN <<>>
  ELSE <<Tag(m.type, f)>>
       \o (IF IsText(m.type, f)
           THEN WriteInt(Len(m.value[f])) \o m.value[f]
           ELSE WriteInt(m.value[f]))

Serialize(m) ==
  WriteField(m, 1) \o WriteField(m, 2) \o WriteField(m, 3)
  \o (IF 4 \in Fields(m.type) THEN WriteField(m, 4) ELSE <<>>)

\* WireFormatLite::Int32Size: ten bytes if negative, else one for every 7 bits.
IntSize(n) ==
  IF n < 0 THEN (LongBits + 6) \div 7
  ELSE CHOOSE k \in 1 .. LongBits :
         n < Pow2[7 * k] /\ (k > 1 => n >= Pow2[7 * (k - 1)])

FieldSize(m, f) ==
  IF f \notin m.has THEN 0
  ELSE 1 + (IF IsText(m.type, f)
            THEN IntSize(Len(m.value[f])) + Len(m.value[f])
            ELSE IntSize(m.value[f]))

ByteSize(m) ==
  FieldSize(m, 1) + FieldSize(m, 2) + FieldSize(m, 3)
  + (IF 4 \in Fields(m.type) THEN FieldSize(m, 4) ELSE 0)

-----------------------------------------------------------------------------
(* Reading *)

\* The field at place p of s: its number and value, and where the next is;
\* next = 0 if s ends before it does.
ReadField(T, s, p) ==
  LET f    == s[p] \div 8
      e    == VarintEnd(s, p + 1)
      last == IF e # 0 /\ IsText(T, f) THEN e + Unsigned(s, p + 1, e) ELSE e
  IN IF e = 0 \/ last > Len(s) THEN [field |-> f, value |-> 0, next |-> 0]
     ELSE [field |-> f, next |-> last + 1,
           value |-> IF IsText(T, f) THEN SubSeq(s, e + 1, last)
                     ELSE ReadInt(s, p + 1, e)]

\* MergePartialFromCodedStream of a cleared message, from place p to the end:
\* the loop over the tags, read from its end, so that of two values of a field
\* the later one stays.  ok is its result.
Merge(T, s) ==
  LET merge[p \in 1 .. Len(s) + 1] ==
        IF p = Len(s) + 1 THEN [ok |-> TRUE, fields |-> <<>>]
        ELSE LET r    == ReadField(T, s, p)
                 rest == merge[r.next]
             IN IF r.next = 0 THEN [ok |-> FALSE, fields |-> <<>>]
                ELSE [ok |-> rest.ok, fields |-> <<r>> \o rest.fields]
  IN merge

Parse(T, s) ==
  LET read == Merge(T, s)[1].fields
      Latest(f) == CHOOSE i \in DOMAIN read :
                     /\ read[i].field = f
                     /\ \A j \in DOMAIN read : read[j].field = f => j <= i
      seen == {read[i].field : i \in DOMAIN read}
  IN [ok |-> Merge(T, s)[1].ok,
      message |-> [New(T) EXCEPT
                     !.has = seen,
                     !.value = [f \in DOMAIN @ |->
                                  IF f \in seen THEN read[Latest(f)].value
                                  ELSE @[f]]]]
=============================================================================

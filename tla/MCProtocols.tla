---------------------------- MODULE MCProtocols ----------------------------
(***************************************************************************)
(* Values for the constants of Protocols.                                  *)
(***************************************************************************)
EXTENDS Protocols

\* Nothing, plain text, text with a zero byte, text longer than one digit of a
\* varint counts.
MCTexts   == {<<>>, <<7, 8>>, <<1, 0, 2>>, [i \in 1 .. 130 |-> 1 + (i % 100)]}
\* The limits of an int32, numbers of one byte and two, and negative ones.
MCNumbers == {-Pow2[IntBits - 1], -1, 0, 1, 200, Pow2[IntBits - 1] - 1}
MCPrefix  == <<5, 6>>

Content(n) == [i \in 1 .. n |-> i % (2 * Half)]

\* Lengths of each class, and such that the answer is in the next one; keys
\* with and without zeros; frames without a key and without data.
MCFrames ==
  [opcode : {1}, key : {<<1, 3, 5, 9>>, <<1, 0, 0, 2>>, <<0, 3, 0, 6>>},
   data : {Content(n) : n \in {1, 3, 5, 6, 14, 16}}]
  \cup [opcode : {1}, key : {<<0, 0, 0, 0>>}, data : {Content(3), Content(6)}]
  \cup [opcode : {1}, key : {<<>>}, data : {Content(n) : n \in {0, 3, 6}}]
  \cup [opcode : {1}, key : {<<1, 3, 5, 9>>}, data : {<<>>}]
  \cup [opcode : {8}, key : {<<>>, <<7, 7, 7, 7>>}, data : {<<>>, Content(2)}]
MCLead == <<11, 12, 13>>
=============================================================================

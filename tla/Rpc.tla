-------------------------------- MODULE Rpc --------------------------------
(***************************************************************************)
(* Requests and answers between a client (client/) and the MsgServer whose *)
(* services are in Python (script/services/Test.py): messages are encoded, *)
(* given ids and a length, sent, told apart by their ids and given to a    *)
(* handler in C++ or through the interpreter to one in Python, which       *)
(* answers through _engine.send.  Both ends run Proto::on_msg.             *)
(*                                                                         *)
(* A stream is a sequence of bytes, and of packed ints: a packed int is    *)
(* the number and fillers, SizeofInt places in all.  That messages arrive  *)
(* whole whatever a read cuts or joins is MsgStream's subject: here each   *)
(* message is there at once.  The text of an echo is ASCII.                *)
(***************************************************************************)
EXTENDS Wire, SequencesExt

CONSTANTS SizeofInt,    \* sizeof(int)
          Texts,        \* the texts the client may ask to echo
          Numbers,      \* the numbers it may ask to add
          Prefix,       \* "echo :"
          MaxRequests   \* bound: requests of the client

ASSUME RpcAssumption ==
  /\ SizeofInt \in Nat \ {0} /\ MaxRequests \in Nat
  /\ Texts \subseteq Seq(0 .. 127) /\ Numbers \subseteq Int32
  /\ Prefix \in Seq(1 .. 127)
  \* protobuf writes no longer string
  /\ \A t \in Texts : Len(Prefix) + Len(t) \in Int32

VARIABLES asked,       \* history: the requests the client has sent
          up,          \* what is on its way to the server
          handled,     \* history: of each request, what the service was given
          down,        \* what is on its way to the client
          told,        \* history: what the client's handlers were given
          overwritten, \* the programs whose heap read_ids has written to
          fault        \* of each program, why it has stopped

vars == <<asked, up, handled, down, told, overwritten, fault>>

Programs == {"client", "server"}
Runs(p) == fault[p] = "none"

\* What a request or an answer says: its class and required fields, a number
\* as a sequence of one.
Said(m) == [type |-> m.type,
            fields |-> [f \in m.type.required |->
                          IF IsText(m.type, f) THEN m.value[f]
                          ELSE <<m.value[f]>>]]
Nothing == [type |-> Class(0, 0, FALSE), fields |-> <<>>]

Init ==
  /\ asked = <<>> /\ up = <<>> /\ handled = <<>> /\ down = <<>> /\ told = <<>>
  /\ overwritten = {}
  /\ fault = [p \in Programs |-> "none"]

-----------------------------------------------------------------------------
(* ProtoMsg *)

pack_int(n) == <<n>> \o [i \in 1 .. SizeofInt - 1 |-> 0]

get_raw(s_id, c_id, data) ==
  pack_int(Len(data) + 2 * SizeofInt)
  \o pack_int(s_id) \o pack_int(c_id) \o data

\* Msg: the first message of a stream, and the stream after it.
FirstMsg(stream) == SubSeq(stream, SizeofInt + 1, SizeofInt + stream[1])

AfterFirst(stream) == SubSeq(stream, SizeofInt + stream[1] + 1, Len(stream))

\* read_ids, of a msg that its assertion accepts.
Key(msg)     == <<msg[1], msg[SizeofInt + 1]>>
Payload(msg) == SubSeq(msg, 2 * SizeofInt + 1, Len(msg))

\* c_str(): what is before the first zero byte.
CString(s) ==
  LET zeros == {i \in DOMAIN s : s[i] = 0}
  IN IF zeros = {} THEN s
     ELSE SubSeq(s, 1, (CHOOSE i \in zeros : \A j \in zeros : i <= j) - 1)

-----------------------------------------------------------------------------
(* The handlers each end has registered, and what they do *)

ClientProtos == [k \in {<<1000, 1002>>, <<1000, 2>>} |->
                   IF k = <<1000, 2>> THEN C_Echo ELSE AddRet]

\* Of the server; on_addret prints.
ServerProtos == [k \in {<<1000, 1002>>} |-> AddRet]

\* Faulty: a service is left out.
PyProtosOfEcho == [k \in {<<1000, 1>>} |-> Echo]

PyProtos     == [k \in {<<1000, 1>>, <<1000, 1001>>} |->
                   IF k = <<1000, 1>> THEN Echo ELSE Add]

\* The answer, as a sequence of one message, or of none when the handler
\* raises: protobuf takes no number that is not an int32.
on_echo(m) == <<Set(New(C_Echo), 3, Prefix \o m.value[3])>>
on_add(m)  == LET sum == m.value[3] + m.value[4]
              IN IF sum \in Int32 THEN <<Set(New(AddRet), 3, sum)>> ELSE <<>>

\* Faulty: what could be read of a message is handled.
HandleAnyMsg(key, s) ==
  IF key \notin DOMAIN PyProtos THEN [given |-> Nothing, answer |-> <<>>]
  ELSE LET m == Parse(PyProtos[key], s).message
       IN [given |-> Said(m),
           answer |-> IF m.type = Echo THEN on_echo(m) ELSE on_add(m)]

\* proto.HandleMsg: a message that does not parse raises before its handler.
HandleMsg(key, s) ==
  IF key \notin DOMAIN PyProtos \/ ~Parse(PyProtos[key], s).ok
  THEN [given |-> Nothing, answer |-> <<>>]
  ELSE LET m == Parse(PyProtos[key], s).message
       IN [given |-> Said(m),
           answer |-> IF m.type = Echo THEN on_echo(m) ELSE on_add(m)]

\* MsgHanle::get_ptmessage: what ParseFromString returns is not looked at.
Given(T, s) == Said(Parse(T, s).message)

\* Proto::on_msg on the server: what C++ has no handler for goes to Python
\* (handle_pb_msg), as a C string.
OnMsg(msg) ==
  IF Key(msg) \in DOMAIN ServerProtos
  THEN [given |-> Given(ServerProtos[Key(msg)], Payload(msg)), answer |-> <<>>]
  ELSE HandleMsg(Key(msg), CString(Payload(msg)))

-----------------------------------------------------------------------------
(* The client *)

\* send_echo and send_add, make_proto_msg and Client::send_msg.
\* SerializeToString stops the program when the bytes are not as many as it
\* made room for.
Ask(m) ==
  /\ Runs("client") /\ Len(asked) < MaxRequests
  /\ asked' = Append(asked, Said(m))
  /\ IF Len(Serialize(m)) = ByteSize(m)
     THEN /\ up' = up \o get_raw(service_id(m), command_id(m), Serialize(m))
          /\ UNCHANGED fault
     ELSE /\ fault' = [fault EXCEPT !["client"] = "size"]
          /\ UNCHANGED up
  /\ UNCHANGED <<handled, down, told, overwritten>>

send_echo == \E t \in Texts : Ask(Set(New(Echo), 3, t))
send_add  == \E a, b \in Numbers : Ask(Set(Set(New(Add), 3, a), 4, b))

\* Client::on_msg, Proto::on_msg and the handler, which prints.  A message
\* without a handler goes to handle_pb_msg, and without an interpreter no
\* further.
ClientReads ==
  /\ Runs("client") /\ down # <<>>
  /\ LET msg == FirstMsg(down)
     IN IF Len(msg) <= 2 * SizeofInt
        THEN /\ fault' = [fault EXCEPT !["client"] = "read_ids"]
             /\ UNCHANGED <<down, told, overwritten>>
        ELSE /\ down' = AfterFirst(down)
             /\ overwritten' = overwritten \cup {"client"}
             /\ told' = IF Key(msg) \notin DOMAIN ClientProtos THEN told
                        ELSE Append(told, Given(ClientProtos[Key(msg)],
                                                Payload(msg)))
             /\ UNCHANGED fault
  /\ UNCHANGED <<asked, up, handled>>

-----------------------------------------------------------------------------
(* The server *)

\* proto.send_msg, _engine.send with its assertion that the string has no zero
\* byte, and MsgServer::send_msg.
send(m) ==
  \E s \in {Serialize(m)} :
    IF Len(CString(s)) # Len(s)
    THEN /\ fault' = [fault EXCEPT !["server"] = "strlen"]
         /\ UNCHANGED down
    ELSE /\ down' = down \o get_raw(service_id(m), command_id(m), s)
         /\ UNCHANGED fault

\* MsgServer::handle_msg.
ServerReads ==
  /\ Runs("server") /\ up # <<>>
  /\ LET msg == FirstMsg(up)
     IN IF Len(msg) <= 2 * SizeofInt
        THEN /\ fault' = [fault EXCEPT !["server"] = "read_ids"]
             /\ UNCHANGED <<up, handled, down, overwritten>>
        ELSE /\ up' = AfterFirst(up)
             /\ overwritten' = overwritten \cup {"server"}
             /\ \E outcome \in {OnMsg(msg)} :
                  /\ handled' = Append(handled, outcome.given)
                  /\ IF outcome.answer = <<>> THEN UNCHANGED <<down, fault>>
                     ELSE send(outcome.answer[1])
  /\ UNCHANGED <<asked, told>>

\* on_msg casts the Msg to a ProtoMsg, which it is not: command_id lies beyond
\* it, and read_ids writes there what malloc keeps between two blocks.  The
\* program may run on, or stop at any later moment.
HeapFails(p) ==
  /\ Runs(p) /\ p \in overwritten
  /\ fault' = [fault EXCEPT ![p] = "heap"]
  /\ UNCHANGED <<asked, up, handled, down, told, overwritten>>

Next == \/ send_echo \/ send_add \/ ClientReads \/ ServerReads
        \/ \E p \in Programs : HeapFails(p)

\* Both loops go on and no handler blocks: what has come is taken.  Nobody need
\* ask anything.
ServerTakes == Runs("server") /\ up # <<>> /\ up' = AfterFirst(up)
ClientTakes == Runs("client") /\ down # <<>> /\ down' = AfterFirst(down)

Spec     == Init /\ [][Next]_vars
FairSpec == Spec /\ WF_up(ServerTakes) /\ WF_down(ClientTakes)

-----------------------------------------------------------------------------
(* Properties *)

Sum(request) == request.fields[3][1] + request.fields[4][1]

\* What the encoding of a request cannot hide: a zero byte.
HasZero(request) ==
  IF request.type = Echo
  THEN request.fields[3] = <<>> \/ \E i \in DOMAIN request.fields[3] :
                                      request.fields[3][i] = 0
  ELSE \E f \in {3, 4} : request.fields[f] = <<0>>

\* A request to which an answer can come.
Plain(request) ==
  /\ ~HasZero(request)
  /\ request.type = Add => Sum(request) \in Int32 \ {0}

AnswerTo(request) ==
  IF request.type = Echo
  THEN [type |-> C_Echo,
        fields |-> [f \in {3} |-> Prefix \o request.fields[3]]]
  ELSE [type |-> AddRet, fields |-> [f \in {3} |-> <<Sum(request)>>]]

\* The answers to the requests that have one, in their order.
Answers(requests) ==
  LET due[k \in 0 .. Len(requests)] ==
        IF k = 0 THEN <<>>
        ELSE IF Plain(requests[k])
        THEN Append(due[k - 1], AnswerTo(requests[k])) ELSE due[k - 1]
  IN due[Len(requests)]

\* Those to the requests that the server has handled.
Due == Answers(SubSeq(asked, 1, Len(handled)))

\* Through encoding, framing, the C string, both registries and the answer's
\* way back: a service is given what was asked or nothing, and the client is
\* told the answers to what it asked, in that order, with none changed, left
\* out or invented (Proto::on_msg, Test.py, _engine.send).
AnswersMatch ==
  /\ Len(handled) <= Len(asked)
  /\ \A i \in DOMAIN handled : handled[i] \in {asked[i], Nothing}
  /\ IsPrefix(told, Due)
  /\ down = <<>> => told = Due

\* proto.cpp:39 and _engine.cpp:38: a request reaches its service exactly if
\* its encoding has no zero byte, and the server aborts for nothing else than
\* an answer of zero.
OnlyZerosAreRefused ==
  /\ \A i \in DOMAIN handled : handled[i] = Nothing <=> HasZero(asked[i])
  /\ fault["client"] \in {"none", "heap"}
  /\ fault["server"] \in {"none", "heap", "strlen"}
  /\ fault["server"] = "strlen" =>
       LET last == asked[Len(handled)]
       IN last.type = Add /\ ~HasZero(last) /\ Sum(last) = 0

\* Every request that can be answered is, in the end, unless a program stops:
\* those before it that are refused do not hold it up.
AnsweredInTheEnd ==
  \A n \in 1 .. MaxRequests :
    Len(asked) >= n
      ~> \/ \E p \in Programs : ~Runs(p)
         \/ /\ Len(asked) >= n
            /\ Len(told) >= Len(Answers(SubSeq(asked, 1, n)))
=============================================================================

# mixServer in TLA+

mixServer is a small network server in C++ with Python 2.7 embedded in it: a
single-threaded reactor over epoll, kqueue, poll or select, TCP servers and a
client on top of it, HTTP and WebSocket handlers written in Python, and a
hot-reload of the Python scripts driven by inotify. This directory holds
models of it in TLA+, configurations that check them with TLC, and proofs that
TLAPS checks. Source paths below are relative to the repository.

Run everything from this directory: `tlc -config X.cfg M` for a run of the
table in section 5, `tlapm M.tla` for the proofs.

## 1. Inventory

One thread runs everything. `EventLoop::do_loop` repeats `update`: `do_select`
(one call of the selector, then `handle_event` of each descriptor in the
batch), the timers, `on_update`. All interaction between components is by
calls on that thread. The concurrency of the system is with the outside: peers
that send, end or reset at any moment between two system calls, the kernel
that answers a connect, editors that change files, a clock, a signal.

| component | source | state | operations | what makes it correct |
|---|---|---|---|---|
| EventLoop, Handle | net/eventloop.cpp, net/handle.cpp | `handles` (fd to handle), `active_handles` (the batch), `is_start`, `revents` of the handle being run | register, unregister, update, do_select, handle_event, clear | the batch stays true while its handlers register and unregister; a closed handle gets no more events |
| selectors | net/epoll.cpp, kqueue.cpp, poll.cpp, select.cpp | the kernel's interest, and each class's own arrays, index maps and counts | add, update, remove, select | exactly the registered descriptors and the events asked for last are watched and reported; the arrays hold what the kernel writes |
| Socket | net/socket.cpp | the descriptor | accept, recv to EAGAIN, send until full, connect | bytes are sent once and in order |
| Acceptor, TcpStream | server/handles.cpp | `closing`, `closed`, `pread_buf`, `pwrite_buf` | handle_read, handle_write, send, close | output leaves before the close; a close that was asked for happens once |
| TcpServer | server/tcpserver.cpp | `streams`, `max_connect_id` | new_connect, close_connect, shutdown | agrees with the loop on what exists |
| HttpServer, httpHandle, pySender | server/httpserver.cpp, pyengine/pyhttphandle.cpp | `handles` (id to httpHandle), `reading_line` | handle_read, new_connect, close_connect; write and close of pySender | every stream with a handler has one, and no other has |
| HttpHandle, WSHandle, WSFrame | script/httphandle.py | the `handles` dictionary, `cur_frame`, the request being read | handle_line, handle_message, handle_frame, handle_close | the mode of a connection is the one C++ believes |
| Timer, Pri_queue | timer.cpp, include/timer.hpp | a heap of timers, expiry in a u32 | start_timer, update, close | no timer early, late, twice, out of order or lost |
| Buffer | net/buffer.cpp, include/buffer.hpp | a vector, `start_idx`, `end_idx` | write, read, make_write_space | what is written is what is read |
| MsgServer, Msg | server/msgserver.cpp, net/msg.cpp | one `Msg` per stream, partly read | handle_read, handle_msg, send_msg; Msg::try_write | messages arrive whole, in order, none left waiting |
| ProtoMsg, Proto, services | include/proto.hpp, proto/proto.cpp, pyengine/pyinit.cpp, script/proto.py, script/services, client/services | the registries of handlers, one in C++ and one in Python | get_raw, read_ids, on_msg, HandleMsg; on_echo, on_add; _engine.send | an answer is the answer to what was asked; what cannot be handled is refused and holds nothing up |
| generated protobuf classes | proto/gen_proto/cpp/test.pb.cc, test.pb.h | the fields of a message and which are set | accessors, SerializeToString, ByteSizeLong, ParseFromString | what is parsed is what was set |
| Client, Connector | client/client.cpp, client/connector.cpp | a status each, `retry_count`, the retry timer | start_connect, _re_connect, handle_read, handle_write, on_connected, on_close, close | the statuses agree, an attempt ends, and a client that is not connected tries again or gives up |
| iNotifyHandle, PyFileHandle | include/epoll.hpp, pyengine/_engine.cpp | `watchs`, `handles` | add_watch, handle_read, handle_event | watches follow the files |
| reload_mgr | script/reload_mgr.py | `old_mods`, weak references to replaced classes | init, regist_file_handle, handle_file_modify, reload_mod | living instances of every older class get the new methods that update_dict and copy_dict are meant to give them |
| logging, errors, debug memory, build | utils/, include/mem.hpp, SConstruct, proto/gen_proto/gen_pb.py | none that the above depends on | | not modelled |

How they interact: the loop calls Acceptor, whose `on_accept` makes a
TcpStream in TcpServer; TcpStream calls the server's `handle_read`, which
calls a Python handler through httpHandle; the handler calls back through
pySender (`write`, `close`, `reading_line`), which changes the TcpStream
that is being handled and, when it closes, TcpServer, HttpServer and loop in
the middle of the handler. That re-entrance, and the reuse of descriptor
numbers by the kernel, is what the reactor's bookkeeping must survive.

The hard behaviours, each at its line, are the `hazards` of `PROJECT.json`;
each names the properties that watch it.

## 2. Modules

| module | models | extends or instantiates |
|---|---|---|
| Sockets | the connections of the listening socket: backlog, received data, FIN, RST, the send buffer. The kernel and the peers | |
| EventLoop | register, unregister, the batch, bits of `revents`, the shutdown by a signal | |
| TcpServer | Acceptor, TcpStream and TcpServer | Sockets, EventLoop |
| HttpServer | the whole server of main.cpp: HttpServer, httpHandle, pySender, the Python handlers; its properties | TcpServer, Connections |
| Connections | the abstract specification of a server: what it promises of each connection | |
| HttpServerProofs | the proofs about HttpServer, and that it implements Connections | HttpServer |
| SelectorProofs | the proofs about the four selectors | MCSelectors |
| MsgStreamProofs | those about MsgStream and Buffer, and that MsgStream implements Channel | MsgStream |
| ClientProofs, TimerProofs | those about Client and about Timer | Client, Timer |
| FileWatchProofs | those about FileWatch and Reload | FileWatch |
| RpcProofs | those about Rpc, and about the encoding of Wire | Rpc |
| WSFrameProofs | those about WSFrame | Protocols, RpcProofs (for recursion and induction) |
| Selector | the abstract selector EventLoop relies on: level-triggered, edge-triggered, and one that guesses when its call failed | |
| Epoll, Poll, Select, Kqueue | the four classes with their own bookkeeping | Selector |
| Timer | the heap of timers with the clock and its wrap | |
| Buffer | operators on a buffer: write, read, make space | |
| MsgStream | one connection of a MsgServer, or those of a Client in a row, byte by byte, both directions | Buffer, Channel |
| Channel | the abstract specification of a reader of messages: what it promises its handler | |
| Wire | protobuf's encoding of the four messages | |
| Rpc | client, MsgServer, Proto, the Python bridge and the services: what requests and answers say | Wire |
| WSFrame | a WebSocket: WSHandle and WSFrame reading the frames of a peer byte by byte | |
| Client | Client, Connector, the retry timer and the kernel's answers | |
| Reload | reload_mod, update_dict and copy_dict, and the list of old classes; its properties | |
| FileWatch | inotify, iNotifyHandle, PyFileHandle, init of reload_mgr, the editors | Reload |
| MCSelectors | the four selectors side by side, under any calls of EventLoop | Epoll, Poll, Select, Kqueue |
| Protocols | Rpc and WSFrame: a behaviour has the one or the other | Rpc, WSFrame |
| MCTimerReload | Timer and Reload, each by itself: a behaviour has the one or the other | Timer, Reload |
| MCHttpServer, MCProtocols | what TLC is given for HttpServer and Protocols | HttpServer, Protocols |

### How the state corresponds to the code

*A handler is several steps.* Peers act between two system calls and the code
re-reads state, so a handler is not one step. In HttpServer `pc` is the
place: `select` (in `Epoll::select`), `batch` (the loop over
`active_handles`), `event` (`Handle::handle_event`, with `revents` the bits
it has still to test), `lines` and `message` (the loops of
`HttpServer::handle_read`, one line or message per step), `clear`, `exit` and
`abort` (an assertion failed; `fault` says which). A step includes every call
the code makes in it: `Accept` is accept, the Socket constructor, new_connect
and the registration; `ReadEnd` is recv, TcpStream::close, close_connect,
the call into Python and unregistration.

*Data.* HTTP needs only to tell lines from parts of lines, so a read buffer is
a number of lines and whether a part follows, and a write buffer a count of
replies. What a line or message makes Python do depends on its text; each
outcome (`LineHeld`, `LineGet`, `LineRefused`, `LineUpgrade`,
`LineBadUpgrade`, `LineRaises`, `MessagePart`, `MessageEcho`,
`MessageClose`, `MessageRaises`) is an action, so every order of outcomes is
explored. The bytes themselves are in MsgStream, where losing or repeating
one is the question, in Rpc, where it is what they say, and in WSFrame, where
it is where a frame ends.

*Three views of a message.* MsgStream has messages whose bytes mean nothing
and reads that cut them anywhere. Rpc has messages that mean something and are
read whole: what MsgStream shows of the reader is what it rests on. A packed
int is one place that holds the number and fillers up to `sizeof(int)`, so
lengths are those of the code while a length of four digits need not be
spelled out. Protobuf's fields are encoded byte by byte, because a zero byte
among them decides what happens: the way into Python is a C string
(`OnMsg`, proto.cpp:39 and pyinit.cpp:127), and the way out asserts that there
is none (`send`, _engine.cpp:38). The four generated classes have the same
methods, so Wire has each method once, with the class as a parameter.

*Connections in a row.* A Client that loses its connection gets a new
Connector with new buffers and goes on with the old `pmsg`
(`MsgStream.Reconnects`). When a client reconnects is module Client's subject.

*Frames.* WSFrame.on_read is one recursive function of the frame and of what
came, as the method calls itself, with an operator for each of its branches. Its
domain (`Reading`) says which frames there can be: before the header is read
remain_len is 2, so that no value waits on itself. A byte is a number below 2 * Half, so that the three ways to
write a length are reached by frames of a few bytes. The parser goes wrong
outside `Tame` frames, and the model with it; no read is made once
`remain_len` is negative, from when on every read only adds to the payload.

*Lifetimes.* A closed TcpStream may live on: WSHandle and WSFrame refer to
each other (httphandle.py:252), and `sys.last_traceback` keeps the handler
that raised. Its descriptor stays open until then. `Live` is the set of
streams some object still refers to, `Collect` is Python's collector.

*Undefined behaviour.* `EventLoop::clear` erases from the map it iterates
over when a stream closes at once. The three outcomes a build can produce
(a crash, an early end, going on) are the disjuncts of `ClearErases`; no
property is stated of it, since nothing in the repository says what the exit
should look like.

*Files.* A watch descriptor stands for an inode; FileWatch numbers inodes and
lets several names have one. Contents of files, an overflow of the kernel's
queue and changes in place (which the mask of epoll.hpp:99 does not tell
of) are left out.

*Timers.* The heap is a set and its top; any timer that expires first may be
the top after a pop, which is all std::pop_heap promises. `turn` is what the
clock has gone on since update() was last called; that it stays within MaxTurn
is the one assumption about how fast the loop is.

*Classes.* Python's reload() runs a module's source again, which makes a new
object for each class; instances keep the one they were made from. A class
object is the class and the run that made it, and of its dictionary the model
has the functions, each the run that made it. What a run defines is any of
`Sources`, so functions come and go between runs. update_dict reaches the class
objects that the run replaces and skips names that begin with `__`
(reload_mgr.py:40) or that the old class has not (42); copy_dict reaches those
of earlier runs and skips only the latter (65). The dictionary of a new-style
class is a dictproxy: for update_dict it is no dict (38), and copy_dict's
assignment to it raises (72), which ends reload_mod in the middle
(`ReloadStuck`).

*Failed calls.* epoll_wait, kevent, poll and select may fail in any call
(`Fails`). Epoll and Kqueue take EINTR for the signal that ends the loop; Poll
reports nothing; Select scans the sets that select() has not changed and
reports all of them.

## 3. Fairness

Safety runs have none. For liveness:

- HttpServer `FairSpec`: weak fairness of `Thread` (the loop always goes on:
  `EventLoop::do_loop` is a `while` and no handler blocks) and of each peer
  reading what was sent to it. Peers are not assumed to send, end or reset.
  `Thread` is one action: that one of several ready connections is not passed
  over follows from the batch, not from an assumption per connection.
- Client: weak fairness of the thread, of the expiry of timers, of the
  kernel's answer to a connect (TCP gives up by itself) and of the server's
  reading.
- Timer has none. That timers fire is stated as a bound (`NeverLate`), under the
  assumption of MaxTurn: the clock does not go on by more than that between two
  calls of update(), callbacks included.
- FileWatch: weak fairness of the thread.
- Rpc: weak fairness of each end taking the next message that has come, while
  the program runs: both loops go on and no handler waits for anything. It is
  stated of the queues alone (`WF_up`, `WF_down`): that the client asks, and
  that a program does not stop, is not assumed.

## 4. What the checks showed: where code and claims disagree

Each is a run of its own that expects TLC to find the property violated.

| run | property | source | what happens |
|---|---|---|---|
| http_close | CloseFindsHandle | server/httpserver.cpp:266 | A peer that connects and ends before any of its data was handled makes `assert(it!=handles.end())` fail: the httpHandle is made by the first data, the close looks it up. |
| http_reset | ResetCloses | server/handles.cpp:99 | A fatal send error calls close(), which only marks a stream that has output left. It is never closed, and its WRITE event comes for ever. |
| msg_length | LengthIsPositive | net/buffer.cpp:15 | writeable_size counts the vector's capacity; resize copies its size. Bytes between are lost, and a lost header is read as length 0: `assert(_len>0)`. |
| msg_send | SendsWhatWasWritten | net/socket.cpp:129 | The pointer is not advanced after a piece was sent: the next piece starts at the same byte. |

The properties of the passing runs hold although these steps are in their
models: an abort is a state like any other, and the invariants are checked up
to it and in it.

More weaknesses are in the models and not runs of their own, because a
line shows them or no text of the repository claims otherwise:

- a connection reset in the backlog is still accepted, getpeername fails and
  `assert(n==0)` aborts the server (socket.cpp:72, `HttpServer.AcceptReset`);
- accept at the descriptor limit aborts it too (socket.cpp:98, `AcceptFails`);
- connect() that succeeds at once returns 0, which `_connect` takes neither for
  success (`n>0`) nor for EINPROGRESS (connector.cpp:30-40), and
  `_start_connect` not for a failure (`n<0`, 191): the Connector stays CLOSED, is
  registered, and its first event makes the assertion at connector.cpp:45 or 86
  abort the client (`Client.ConnectsAtOnce`, `Aborts`). Linux does not answer so
  for TCP sockets that do not block; other systems may for an address of the
  host itself;
- an Add of two numbers whose sum is 0 aborts the server: the answer has a
  zero byte (_engine.cpp:38); an Add of a 0, or an empty Echo, is refused
  (`Rpc.OnlyZerosAreRefused` says that these are the only ones);
- `Proto::on_msg` casts a Msg to a ProtoMsg and writes beyond it
  (proto.cpp:22): `Rpc.HeapFails` may stop either program at any moment after
  its first message;
- half a message on a connection is continued by the bytes of the next
  (connector.cpp:256): `MsgStream.whole` is the condition under which messages
  arrive;
- WSFrame reads wrongly what is not `Tame`: frames without a key or without
  data, a key that begins with a zero byte (httphandle.py:200), two frames in
  one read. Browsers mask what they send; about one key in 256 begins with
  zero;
- Select reports every registered descriptor after a select() that failed
  (select.cpp:18-22, `Select.Fails`): handlers run for what is not ready, and
  `assert(fd!=-1)` of socket.cpp:98 would fail. It cannot happen in the program
  as it is: EventLoop is built with Epoll, Kqueue or Poll (eventloop.hpp:63-69);
- with as many descriptors as the array of Kqueue has places, ten at first,
  kevent() may write one event behind it, since it is told of one place more and
  a descriptor may have two filters (kqueue.cpp:65, 149;
  `Kqueue.EventsAlmostFit`). Epoll is told of one more too, but has one event
  per descriptor;
- a reload leaves older classes without the methods that are added to them, and
  those of new-style classes without any; a reload after that of a new-style
  class raises, and older classes are forgotten (reload_mgr.py:42, 72;
  `Reload.IsUpdated`, `ReloadStuck`);
- a timer due within the last turn before the u32 wraps may wait for another 497
  days, if the next update() reads a clock that has wrapped; and a timer that a
  callback starts while the clock wraps may be popped in the place of the one
  that ran (timer.cpp:126-133, `Timer.NeverLate`, `BeforeWrap`).

## 5. Runs, and why their bounds are enough

| run | instance | what the bounds allow |
|---|---|---|
| http_safety | MaxConn 2, MaxFd 2, MaxSend 3, SndCap 1 (1.0 million states) | Two connections in one batch, one of which closes or upgrades while the other waits; a descriptor number given out again while the first stream lives on; accept at the limit; three pieces of data, so that a line, a switch to WebSocket and a message can follow one another; a send buffer that fills. |
| http_live | MaxConn 2, MaxFd 1, MaxSend 2, SndCap 1 (48 thousand) | One descriptor for two connections: the second waits for the first to close, and the limit is met. Under FairSpec. |
| http_close, http_reset | 1, 1, 1, 1 | One connection is enough for each counterexample. http_reset runs under FairSpec, without which the server might just stop. |
| selectors | three descriptors, two events, Places 1 (103 thousand) | Removal of the first, middle and last of three, which is where the arrays of Poll and Select move; the arrays of Epoll and Kqueue grow from their initial size while epoll_wait and kevent have one place more than descriptors, so that kevent can write behind its array; filters of Kqueue left behind; a call that fails at any moment. What select() may find ready (`Ready`) is, for TLC, all or nothing of each descriptor or one event (`MCReady`); the proofs are of any. |
| msgstream | BUFFER_SIZE 3, HeaderSize 2, Lengths {1,3}, Replies {1,4}, SndCap 2, 9 bytes, 2 replies, 1 close (2.5 million) | A message shorter than, equal to and longer than the buffer with its header; a reply longer than the buffer and than the kernel's room; moves to the front, one and two growths. Nine bytes are two messages or more, and a read that joins them; or half a message, or half a header, and whole ones on the next connection. |
| msg_length, msg_send | as msgstream, one connection; no replies; one reply | Each has only the direction it is about. |
| protocols | Rpc: int32 of 15 bits, int64 of 28, sizeof(int) 2, four texts, six numbers, 2 requests; WSFrame: Half 8, lengths of 1 and 2 bytes, 2 frames (54 thousand) | Ids and defaults fit 15 bits; numbers of one, two and four digits, the limits of an int32, negative ones sign-extended, sums that overflow or are 0; texts that are empty, have a zero byte, or whose length takes two digits; a second request behind one that is refused. Frames of lengths in each of the three classes and such that their echo is in the next one, with no key and keys with zeros at the beginning, inside, everywhere and nowhere; every cut of two frames, joined ones too. |
| client | MaxRetry 2, MaxFailures 2 (4.4 thousand) | All attempts and the one after the last; attempts that connect() answers at once, with success or with failure. The code never counts the latter (the bound stands for the patience of the machine). |
| filewatch | one module in two watched files, three names, three inodes, one class, three runs of the source, queue of 2, reads of 2 (451 thousand) | A file replaced twice while events of the first replacement wait; two watched paths on one inode; a read that takes two events; reloads of every outcome in between. The class is a new-style one, so that reloads raise too. |
| timer_reload | timers: Modulus 8, delays 0, 1 and 6, turns of at most 2, clock to 13, three timers; scripts: one module, an old-style and a new-style class, two methods, one of them special, four runs (1.3 million) | Timers: the clock wraps and goes on for most of a second period; a delay that wraps from any time but the first two, so that timers with wrapped times come before others; a callback that starts a timer expiring now, and later; equal expiries; a turn that reads the clock on the other side of the wrap. Without MaxTurn in the condition of NeverLate, or with a tick less in its bound, TLC finds it violated. Scripts: four generations of class objects, any of which may be gone; a dictionary of old_mods before the one that raises; methods that are added, removed and added again; runs that raise after some of the classes. The new-style class has no special method (`MCSources`), which would only repeat what the other one shows. |

Deadlock is checked for the server, the client and the selectors. It is not
for msgstream, protocols, filewatch and timer_reload, where a bound (bytes,
requests, inodes, the clock, runs) ends the run, as it would an idle program with no more
input.

What each property says is in the comment above it. The ones that carry the
most: `RegistryAgrees` (loop, selector, TcpServer, HttpServer and Python know
the same connections, in the middle of handlers too), `BatchStaysReady` (an
event reported stays true until it is dispatched), `KeepsPromises` (the server
implements Connections: a connection is never closed with a reply unsent and
nothing happens to it afterwards), the four `...Selects` (each selector class
implements Selector), `BufferKeepsBytes` (bytes through every move and growth
of a buffer), `ChannelKept` (MsgStream implements Channel: through every split
and join the messages are handed over whole and in order, none before its last
byte has come, and the loop does not wait while one that has come is not
handed over), `NeverForgotten` (a client that is not connected will try
again), `FiresOnce` (the timer popped after a callback is the one that ran),
`NeverLate` (no timer is skipped, also not by what happens around the wrap),
`KernelAgrees` and `WatchFollowsPath` (watches and files),
`InstancesAreUpdated` (reload reaches every living generation, as far as it
means to), `AnswersMatch`
(from the client's call through both encodings, registries and the interpreter
to the client's handler, an answer is that to the request, and none is lost)
and `FramesArrive` (a WebSocket frame is echoed right by the read that
completes it, and not before, whatever the cuts).

Some of them carry a condition, which is the boundary the code really has:

- `BufferKeepsBytes` holds and `ChannelKept` promises something while a buffer
  never held more than twice BUFFER_SIZE (beyond that see msg_length), and
  `ChannelKept` only while no connection ended in the middle of a message's data
  (Channel's `kept`);
- `FramesArrive` is about `Tame` frames (section 4);
- `AnsweredInTheEnd` is about requests that can be answered, by programs that
  run;
- `SelectSelects` lets a failed call report all that was asked for, and
  `EventsFit` lets kevent write one place behind its array while there are as
  many descriptors as places;
- `StatusesAgree` has the attempt that connect() answers at once as its
  exception, and says that it is the only one; `AttemptsEnd` lets the program
  abort for it;
- `NeverForgotten` excludes the client whose timer lapsed while it was connected
  (connector.cpp:218), which is indeed not tried again;
- `InstancesAreUpdated` is about old-style classes, the methods a class had from
  the first and has still, and reloads that ended well; a special method may be
  one reload behind;
- `NeverEarly`, `FiresInOrder` and `FiresOnce` hold until the u32 wraps, and
  `NeverLate` of timers due more than a turn before that, also after it.

## 6. What is proved

Every safety property that a run checks is proved for every value of the
constants. Each component has one inductive invariant, `Inv` (for the
selectors, one per class; `WSFrameInv` for WSFrame), which is its safety
invariants and what they rest on; there is a lemma per action, `NextInv` collects them along the disjunction
of Next, `Invariance` is the temporal conclusion, and the theorems about the
single properties follow from it.

| module | from | theorems |
|---|---|---|
| HttpServerProofs | SocketsAssumption, EventLoopAssumption: MaxConn, SndCap and MaxFd positive naturals, MaxSend a natural | Invariance; TypeCorrect, RegistriesAgree, DescriptorsAreNotShared, EventsAreTrue, CloseIsFinal, OutputIsNeverStuck, ModesAgree; PromisesKept: the server implements Connections |
| SelectorProofs | SelectorsAssumption: descriptors and Places are naturals; any set of descriptors and of events, anything ready | EpollIsASelector, PollIsASelector, SelectIsASelector, KqueueIsASelector: each implements its form of Selector; EventsAlwaysFit, KeventAlwaysSucceeds |
| MsgStreamProofs | MsgStreamAssumption: BUFFER_SIZE, HeaderSize, SndCap and all lengths positive | Invariance; TypeCorrect, BuffersKeepBytes, MessagesAlwaysArrive, NothingIsLeftBehind; ChannelIsKept: MsgStream implements Channel (MessagesAlwaysArrive is its state form, of which there is no run) |
| ClientProofs | ClientAssumption: the two limits are naturals | Invariance; TypeCorrect, ClientAndLoopAgree, ClientIsNotForgotten |
| FileWatchProofs | FileWatchAssumption, ReloadAssumption: sizes are naturals, a read takes at least one event, a module is a watched file and has a class, and there are as many inodes as watched paths to begin with | Invariance; TypeCorrect, EventsAreAlwaysKnown, KernelAndWatchsAgree, PathsStayWatched, InstancesGetNewMethods; ReloadUpdates, which is of Reload by itself |
| TimerProofs | TimerAssumption: the modulus is positive, delays and MaxTurn are naturals | Invariance; TypeCorrect, TimersAreNotEarly, TimersFireInOrder, TimersFireOnce, TimersAreNotLate |
| RpcProofs | WireAssumption, RpcAssumption: widths are positive and an int64 is no shorter than an int32; texts are ASCII and no longer, with the prefix, than an int32 counts (protobuf writes no longer string); numbers are int32s | IntReads, IntSizes, RoundTrip, Framing, RequestHandled; Invariance; AnswersAlwaysMatch, ZerosAloneAreRefused |
| WSFrameProofs | WSFrameAssumption: a byte has 4 to 8 bits, the long length has more bytes than the short one, which has at least one, and a frame's data fits it | FramesAreAnswered |

The bounds of section 5 (MaxConn, MaxBytes, MaxTimers, MaxLoads and so on) are
constants of the theorems too: a proof for every bound is a proof for runs of
any length.

### The server

The invariants a reader wants are not inductive by themselves:

- that a batch stays true needs to know that the handle being run has no
  second entry in the batch (`Undispatched`), or closing it would leave one;
- that a descriptor has one owner needs that ids are given out in order and
  that an accepted stream has a descriptor (`Numbered`), and that nothing
  refers to a stream not yet accepted (`Unborn`), so that the kernel's choice
  of a free number is free of all living streams;
- that no event follows a close needs to know where the thread may be and what
  it holds there (`Control`);
- that a stream with output can be closed through Python needs a handler
  behind that output (`OutputHasHandler`): only Python writes.

In the lemma of an action the first step treats the parts of Inv that mention
no variable the action changes, and one step treats each other part. Actions
that close a stream either at once or later have one lemma for each case, and
`CloseLater` says what they share.

The refinement looks at four variables only: lemmas `Opens`, `Replies`,
`RepliesAndMarks`, `Marks`, `Closes`, `Delivers` and `DeliversLast` say which
step of Connections each way of changing them is, and `StreamRefines` and
`ThreadRefines` find the way each action has.

### The selectors

Selector sees one function, from the descriptors that are registered to the
events that were asked for. Each class keeps that in a structure of its own,
and its invariant says how the structure hangs together:

- Epoll: `n_events` counts what the kernel watches and the array has a place
  for each (`EpollInv`). That the array is long enough for a report is a fact
  about cardinalities (`EventsCount`).
- Poll and Select: the array and the map from a descriptor to its place are
  inverse to each other (`Indexed`). Registration appends; removal moves the
  last entry into the gap. `IndexAdd` and `IndexRemove` say so once, for both
  arrays.
- Select: `max_fds` is at least every registered descriptor, and is looked for
  again when the largest one goes. That there is a largest one to find is
  carried along with each registration (`HasLargest`), so no induction over
  finite sets is needed.
- Select: what a failed call reports is what the sets say of the descriptors in
  the array (`SelectScan`), the same scan that follows a call that succeeded.
- Kqueue: a filter is on exactly if it is asked for, one that is disabled
  stays in the kernel, and a closed descriptor has none on (`KqueueInv`). That
  kevent writes one place too many at most needs only that `n_events` is never
  above the capacity (`PlacesInv`).

### Messages

`Buffer::resize` copies fewer bytes than the buffer may hold (run msg_length).
The conditions of the properties say how far it is harmless, and the proof
why: as long as no more than twice BUFFER_SIZE was ever held, it is called
once, when the vector's size is its capacity, and from then on there is room
(`Roomy`). Lemmas about the operators of Buffer (`MoveStep`, `GrowStep`,
`SpaceStep`, `PutStep`, `WriteStep`, `HasReadStep`) say which bytes are left
where; they are stated for any contents and used for both directions.

Above the buffers, the peer's bytes are described without recursion: from any
byte on, those up to the end of its message are the ones that come next
(`BytesFollow`), and the first of the next message follows the last of this
one (`MessagesFollow`). What the reader has gone through so far ends in the
last byte it handled or put into its Msg (`Position`: `AtBoundary` or
`WithinMessage`), and which bytes come next is then a consequence. That
nothing is left behind needs that handle_read goes on until the buffer has no
length or none of the data (`ReadsAll`).

Channel has no bytes, only the messages that have come, those handed over, and
whether the reader waits. The first is a function of the byte received last
(`EndedBy`), so the proof needs besides Inv only that the bytes of the input are
in order (`Ordered`, kept by every step, `OrderedStep`): then more bytes end no
fewer messages (`EndedGrows`), none is handed over before it has come, and when
handle_read returns, fewer bytes are left than a length has, so the byte received
last ends the message handled last or none (`HandledCame`). There is a lemma for
each step of Channel (`ReceiveChannelled`, `ReadLastChannelled` and so on).

### The client

That a client which is not connected has a timer that will try again needs to
know what holds while it is connected (`Connected`): the retry timer is still
armed or has lapsed, and `retry_count` is 0, so that the close does not end the
program. It also needs that the failure of the last attempt does
(`LastFailureEnds`) and that nothing is sent on a connection which is not
there (`NoEarlyOutput`). An attempt that connect() answers at once never becomes
the `CONNECTED` of `Connected`: it ends in the abort or in the timer's close.

### Files and reloading

inotify watches inodes, watchs has paths. An inode that has lost its name never
gets one again, so its IGNORED is sure to come (`IgnoredAreNameless`); until
that has been handled, watchs still has the path under the old inode
(`PathsAreKept`), and handling it watches the inode the path has by then.
For reload_mod, the class objects that instances still use are the module's
own, or in a dictionary of old_mods, or lost in a reload that raised
(`NoneIsForgotten`); and after a reload that ended well those of old-style
classes have the newest methods (`AreUpdated`), which each reload makes true
again for all of them. The invariant is one of each module (`ModuleInv`), so the
lemmas about reloads are about one module, and FileWatch, which calls reload_mod
for the module of an event, inherits it.

### Timers

Until the u32 wraps the count of centiseconds is the time (`CountsAreTimes`),
and what has fired was due when update() last read the clock
(`FiredWereDue`). A timer that a callback starts counts from a later time, so
it cannot come before the one that runs: the top of the heap stays the top
until the callback returns (`TopIsFirst`), and pop() takes the right one.
Once wrapped, always wrapped (`WrapIsForGood`), so each of these is needed
only of runs that have not (`EarlyInv`).

That no timer is late has to be shown through the wrap, where the top may change
in a callback and pop() may drop the wrong timer (`LateInv`). Three facts hold
all the time: the heap is in order (`HeapOrder`); while a callback runs the top
has expired and is the timer that runs, or was started since for a time after
the wrap (`TopHasExpired`); and a timer due a turn before the wrap and not called
is in the heap under its own time, while the last update() that ended came no
later than that (`WaitsInTime`). So what pop() may lose was due after the wrap.

### Requests and answers

Here the data decides, so the proof goes from the bytes up.

*Recursion.* tlapm knows nothing of a recursive function but that it is some
value that satisfies its equation, if there is one. `Recursion` says that there
is one where every value rests on values of a lower rank, and gives the
equation for `Pow2`, `Varint`, `Unsigned`, `Merge` and `Answers`. What they
compute is shown by induction on sets of numbers (`NatInd`): a set of naturals
with 0 and with each number the next is all of Nat. The library's induction
theorem cannot be used (it takes an operator); NatInd is proved from its
pigeonhole theorem instead.

*The codec.* A varint's bytes but the last are 128 or more (`VarintForm`), so
its end is found wherever it stands (`VarintEnds`), and reading it gives the
number back (`UnsignedReads`, `IntReads`), sign extension included. A message
is one field or two, and Parse finds each of them and no other (`TextReads`,
`SumReads`, `PairReads`; together `RoundTrip`). ByteSizeLong counts what
SerializeToString writes (`IntSizes`), so the check on it never stops a program.

*The C string.* An encoding is cut at its first zero byte (`CStringCuts`). Of
what is left, Parse could make something else than was asked, and does not:
where the cut falls within a text or a varint the field ends too late
(`VarintCutOff`), a tag is never zero, and a number that is a zero byte leaves
its tag without a value (`ParseFails`). So a request is handled as it was made
or not at all (`RequestHandled`), and which of both is `HasZero`.

*The streams.* `Framing` says that a message taken is the one put there first,
and `Inv` that `up` is the frames of the requests not handled yet (`Stream` of
`asked` beyond `handled`), `down` those of the answers that are due and not told
(`InTransit`), that each request handled was given as asked or refused
(`Histories`), and why a program may have stopped (`Stops`). AnswersMatch and
OnlyZerosAreRefused follow from it.

### Frames

FramesArrive is about what a sequence of reads makes of a frame, and on_read is
one function that calls itself. The proof goes from its branches up.

*on_read.* Each call of on_read by itself goes on with fewer bytes in `buf`, so
`Recursion` gives its equation (`OnReadDef`); which calls those are is `Onward`.

*Bytes.* What a peer writes are header, length, key and masked data at their
places (`BytesForm`, `SpokenBytes`). Unpack gives back what Pack wrote
(`PackReads`), for any width; masking twice with one key is no masking
(`XorTwice`, `MaskedTwice`), by induction on the sum of the two numbers.

*One frame.* `StateAt` is the frame being read when p of its bytes have come: one
form before the header, one while a length is missing, one after it. `ReadsSome`
says that a read which brings the bytes from p to q makes of StateAt(p) StateAt(q),
or completes the frame with the data that was sent if q is its end, for every p
and q: `ReadsHeader`, `ReadsLength` and `ReadsAll` each do their part and leave
the rest to the call after. `ReadsClose` is the same of a close, which is one as
soon as its header is there.

*All frames.* The ends of the frames are increasing (`EndsRise`), and a read that
crosses none of them lies within one frame (`ReadWithin`). So the inductive
invariant is: some k frames have been read, none of them a close; cur_frame is
the next one as far as it has come (`Follows`); and output is the k echoes
(`AnswerBytes`: make_frame_data writes what the RFC asks for). A peer that sends
another frame changes no end before it (`FollowsMore`). FramesArrive counts
the frames that have arrived, and `ArrivedIs` says that those are the first k.

The invariant was checked by TLC on the instance of run protocols before it was
proved.

### Only model-checked

- Liveness (BacklogServed, ClosingCloses, AttemptsEnd, OutputLeaves,
  TouchIsTold, AnsweredInTheEnd): out of the prover's reach,
  fairness and ENABLED are.

## 7. What is not modelled

- Protobuf beyond the four messages as they are sent here: unknown fields,
  wire types that do not fit a field, CopyFrom, MergeFrom, Swap. A text is
  ASCII: Python's conversion of others, which may raise, is not modelled.
- The text of HTTP requests and `HttpHandle.rbuf`, which is rewound and not
  emptied after a request (httphandle.py:319), so that a second request on one
  connection is read behind the text of the first: HttpServer has the outcomes
  a line can have, in any order.
- The C++ services on_echo and on_add of the server (services/test.cpp), which
  nothing registers, and PyTimerCb, which no script uses.
- `bind` and `listen`, at which main.cpp stops or goes on once.
- EchoServer, which main.cpp does not start; the C++ request parser of
  httpserver.cpp and `Pri_queue::remove`, which nothing calls; FileHandle,
  which nothing creates.
- Reference counts of Py_True and Py_False (pyhttphandle.cpp:105,108) and
  other details of the Python API.
- In a reload: functions and dicts of the module itself, dicts of a class
  (reload_mgr.py:53), nested and imported classes, and a name that is a class in
  one run of the source and something else in another, of which the assertion at
  reload_mgr.py:84 would fail.
- How long a callback takes: a chain of timers of delay 0 (timer.cpp:128) is in
  Timer up to MaxTimers, and ends when the count of centiseconds goes on.
- What the memory behind the array of Kqueue is: an event written there is taken
  to be read back.
- The ERROR bit, whose handlers write to the log; the MODIFY bit of Kqueue.
- The class and module wrappers of pybase.hpp, which register methods once.
- Logging, debug memory (compiled only with DEBUG_MEM), the build and the code
  generator.

## 8. Plan

Done: the models of every component section 7 does not except, and the proofs
of section 6.

Next: Rpc over two Channels in the place of its own streams, which would make
the step from messages to bytes, section 2's *Three views of a message*, a
theorem too.

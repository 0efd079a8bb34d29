# spdnet in TLA+

A model of spdnet (C++, `src/src/spdnet/`): the IO threads with their task
lists, a TCP session from `send` to the last `writev` and from the peer's FIN to
the release of its memory, the connector and the acceptor, the buffers, the HTTP
and websocket layer, and the sends of the Windows build. The modules are checked
with TLC on small instances; most of their invariants and three refinements are
proved with TLAPS for every value of the constants.

Paths below are relative to `src/src/spdnet/`.

1. [The system](#1-the-system)
2. [The modules](#2-the-modules)
3. [How state and actions correspond to the code](#3-how-state-and-actions-correspond-to-the-code)
4. [The runs](#4-the-runs)
5. [Fairness](#5-fairness)
6. [Findings and observations](#6-findings-and-observations)
7. [What is proved](#7-what-is-proved)
8. [What is not modelled](#8-what-is-not-modelled)

## 1. The system

| Component | State | Operations | Hard because |
|---|---|---|---|
| `service_thread`, `task_executor`, wakeup channel (`net/service_thread.*`, `net/task_executor.h`, `epoll_wakeup_channel.h`) | the loop; `async_tasks`/`sync_tasks` and the `tmp_` lists they are swapped with; `wakeup_flag_`; an eventfd; the map of sessions | `run`, `post`, `wakeup`, `is_in_io_thread` | any thread posts while the loop runs the list it took; posts wake `epoll_wait` (or fail to) |
| `tcp_session`, `socket_data` (`net/tcp_session.*`, `net/socket_data.h`) | two packet lists under a spin lock, `has_closed_`, `is_post_flush_`, `is_can_write_`, the channel pointer, the buffers, the user's callbacks | `send`, `post_shutdown`, the callbacks, `close` | flags are tested and set by several threads; the lifetime hangs on five kinds of owner |
| `epoll_impl`, `epoll_socket_channel` (`net/detail/impl_linux/`) | the epoll set, the interest mask of each socket | `run_once`, `on_recv`, `on_send`, `on_close`, `flush_buffer`, `do_recv`, `close_socket`, `shutdown_socket`, `post_flush`, `on_socket_enter` | edge-triggered events, several calls for one event, short writes, EAGAIN, errors in the middle |
| `channel_collector` (`net/channel_collector.h`) | channels to delete | `put_channel`, `release_channel` | decides when a closed channel, and what it owns, dies |
| `event_service` (`net/event_service.*`) | the threads, the shared `is_run` flag | `run_thread`, `stop`, `add_tcp_session` | stop joins loops that still work |
| `connector` (`net/connector.*`, `connect_context.h`) | the contexts by descriptor, a cancel token | `async_connect`, the two results, the destructor | results race with each other and with the destructor; descriptor numbers are reused |
| `acceptor` (`net/acceptor.*`, `epoll_accept_channel.h`) | its own thread and listen socket, a descriptor in reserve | `start`, `stop`, `on_recv`, the destructor | the table of descriptors is full; stop while the thread accepts |
| `buffer`, `buffer_pool` (`base/`) | the positions of a block; lock-free stacks of buffers | `write`, `grow`, `alloc_buffer`, `recycle_buffer` | wrap-around of positions; ABA |
| `http_parser` (`net/http/http_parser.h`) | `struct http_parser`, marks into the piece that is parsed | `http_parser_execute`, `http_parser_parse_url` | bytes are cut anywhere; limits; a state machine of 60 states |
| `http_parser_api` (`net/http/`) | the message under construction | the parser's callbacks, `try_parse`, `to_string` | a callback comes several times for one item; the switch to the websocket parser |
| `http_session`, server, connector (`net/http/`) | the session, completion callbacks | `send_request`, `send_response`, `send_ws_frame`, `start_ws_handshake` | answers later than their request; callbacks that look at a parser already reused |
| `websocket_parser` (`net/http/`) | keys, the frame under construction | `try_ws_parse`, `try_parse_frame`, `to_string` | lengths at their limits, fragments, several frames in one buffer |
| IOCP build (`net/detail/impl_win/`) | overlapped operations | as epoll | another flag protocol for sends; completions after the close |

How they interact. A user's thread calls `send`: the packet goes into
`send_packet_list_`; unless `is_post_flush_` is up, the flag is raised and a
lambda with a *raw* `socket_data` pointer is posted to the session's IO thread.
The IO thread goes round a loop: `run_once` (`epoll_wait`, then for each ready
channel `on_recv`, `on_send`, `on_close`), clear the wakeup flag,
`task_executor::run` (swap and run `async_tasks`, swap and run `sync_tasks`),
`release_channel`. Handlers and tasks call the user's callbacks, and those call
`send` and `post_shutdown` again, on the same thread and in the middle of a
flush. Connector and acceptor make sockets on other threads and post
`add_tcp_session` to an IO thread. `http_session` is a user of `tcp_session`: its
data callback runs `try_parse`, which runs `http_parser_execute`, whose callbacks
build the message; after an upgrade the same bytes go to `websocket_parser`.

What makes each part correct:

* threads and tasks: every posted task runs once, in order, while the thread
  runs; a stopped thread ends.
* session: packets leave complete, in order, once; every unit the socket took
  is attributed to the right packet; a queued packet leaves, unless the session
  is closed; `is_post_flush_` never silences a session; a socket closes once;
  nobody uses a freed channel or `socket_data`; a closed session is freed.
* connector: one result per connect, none on a connector that is gone, and a
  result is missing only where the code ends a call without a callback; epoll's
  raw pointers stay valid.
* acceptor: a waiting client is accepted or refused; the reserve comes back.
* buffers: the bytes of the stream are kept; positions stay inside the block; a
  buffer has one owner.
* HTTP, websocket: every message of the stream is delivered once, with its own
  data, however `recv` cuts the stream; limits hold; an error is final; keep-alive
  is honoured after the last answer, whatever requests are under way; the handshake
  precedes the frames.

The hazards that a test would hardly reach are listed with their lines in
`PROJECT.json`, each with the properties that cover it or the reason why none
does.

## 2. The modules

    Mailbox  <---refines---  ServiceThread        OrderedChannel
                                  ^   (EXTENDS)         ^
                    EpollSocket   |                     | refines
                           ^------+------ TcpSession ---+

    HttpSyntax <- HttpUrl <- HttpMessage <- HttpParser <- HttpCuts <- UrlForms
    WebSocket <- HttpSession         Buffer <- RecvBuffer, BufferPool
    Connector        Acceptor        Iocp

| Module | What it is |
|---|---|
| `ServiceThread` | One IO thread: the loop, the task lists, the wakeup path, stop and join. Tasks and handlers are opaque. |
| `Mailbox` | Abstract: two first-in first-out mailboxes that are read one letter at a time. What `task_executor` promises. |
| `EpollSocket` | External: one socket and its edge-triggered epoll entry, as a record and operators on it. The subset of Linux that the code relies on. |
| `TcpSession` | Extends `ServiceThread`: one session with its channel, its collector entry, the application threads that hold it, and the peer. Gives tasks and handlers their bodies. |
| `OrderedChannel` | Abstract: packets complete one by one in the order of the sends, none after the close. What a session promises. |
| `Connector` | One connector, its contexts, the threads that report the results, and the descriptor numbers. |
| `Acceptor` | An acceptor, its listen thread, and the table of descriptors. |
| `Buffer` | Operators: the two positions of a `buffer`, `write`, `grow`, with sizes that wrap. |
| `RecvBuffer` | The way of received bytes: `do_recv` and `iocp_recv_channel` with the data callback. |
| `BufferPool` | The lock-free stacks of `buffer_pool`, threads that allocate, the IO thread that recycles. |
| `Iocp` | A session of the Windows build on its completion port: sends, receives, close, release. |
| `HttpSyntax` | Character classes, words, states, `parse_url_char`. |
| `HttpUrl` | `http_parser_parse_url` and `http_url_info` as folds over a URL. |
| `HttpMessage` | What the parser's callbacks collect, and `to_string`. |
| `HttpParser` | `http_parser_execute` under `try_parse`, one action per group of states. |
| `HttpCuts` | The same bytes twice: in one piece and in pieces. |
| `UrlForms` | What `http_url_info` must find in the URLs that the parser accepts. |
| `WebSocket` | Operators: frames to bytes and back. |
| `HttpSession` | Both ends of an HTTP connection, from `send_request` to the frames. |
| `MCServiceThread`, `MCTcpSession`, `MCConnector`, `MCDataPath`, `MCHttpParser`, `MCHttpSession` | Instances for TLC. |
| `ServiceThreadProofs`, `TcpSessionProofs`, `ConnectorProofs`, `AcceptorProofs`, `DataPathProofs`, `HttpParserProofs`, `WebSocketProofs`, `HttpSessionProofs` | Theorems and lemmas. |

Operators with an underscore in their name (`Splice_Prepends`,
`ClearAsync_KeepsList`) are *mutants*: variants of an action with a plausible
bug. No specification uses them; each is there because
a property must be violated when it takes the action's place.

`MCServiceThread` and `MCDataPath` put parts side by side that share no state;
a behaviour exercises one of them (the variable `part`).

## 3. How state and actions correspond to the code

`PROJECT.json` ("map") gives the lines of every definition. The decisions:

### The thread and the session

**Where the IO thread is.** `loop` is the position in `service_thread::run`,
`run_once` and `task_executor::run`; `io` the position inside a handler or a
task. A step is one access to state that other threads see, or one system call,
or the entry to a user's callback. Code between two such points that only the
IO thread can observe belongs to one action. A callback is a value of `io`: as
long as it lasts the user may call `send`, up to the bound of packets, and
`post_shutdown` (`Send(Io)`, `ShutdownNow`), and the `End...` action is its return.

**Posting.** `Post(t, kind)` appends under the lock and `ExchangeFlag` and
`WriteEventfd` are the wakeup. `wakeup()` writes the eventfd only when the flag
was set *before*, and it writes an `int`: `write(2)` refuses an eventfd anything
shorter than 8 bytes. `WakeupBytes >= EventfdBytes` is therefore FALSE, and
`epoll_wait` is left only for events of sockets and by its timeout.
`EpollReturn` is always enabled for that reason.

**Task lists.** A task is its kind and a history field `late`: posted after the
pass under way took its list. The functors are destroyed by `clear()` at the end
of the pass and not when they return, which matters for who owns a session:
`Owns(tmp_async_tasks)` holds until `ClearAsync`.

**send.** Four steps: `Send` (push under `send_guard_`), `CheckPostFlush`,
`SetPostFlush`, `PostFlush`. Application threads take them in any overlap with
the IO thread and with each other.

**flush_buffer.** `Splice` (the swap of the two lists, under the lock), then
`Writev`, `WritevEagain`, `WritevFails` or `FlushEnds`; after a write
`CompletePacket`, the complete callback, `EndCompleteCb` for every packet that
is out, and `KeepRest` for the packet that is not. A packet is `PacketLen`
units; `writev` takes any number of units between one and what was prepared, a
short write leaves the send buffer full. The packet is erased after its
callback, so that a send inside the callback finds it still in the list.

**Reading.** `Readv` takes up to `RecvCap` units and the data callback follows
in every case, also after EAGAIN, as in the code; its one or two calls (buffer,
then stack buffer) are one step of the handler. Received bytes are counted, not
stored, and the callback consumes them. The loop goes round while the last `readv` was full.

**Closing.** `CloseSocket`, the disconnect callback, `EndDiscCb`: the channel
goes to the collector, the session out of the map, `channel_` to null at once;
`has_closed_` after the callback. One epoll event can lead to `on_recv` and
`on_close`, or `on_recv` and `on_send`; `calls` holds what is still to be called.

**Lifetime.** `Alive` names everybody who keeps `socket_data`: application
threads (`held`), the map, the channel (both have a `shared_ptr` to the other
until `close`), the collector, and the functors of enter and shutdown tasks. The
lambda of `post_flush` is not among them. Using freed memory or a null channel
is undefined: the model records it in `fault` and ends.

**The peer and the kernel.** `PeerSends`, `PeerFin`, `PeerReset`, `PeerReads`
happen at any time between creation and close. `epoll_ctl` may fail on the way
in (`LinkFails`). `EpollSocket` re-arms the edge on `EPOLL_CTL_ADD`/`MOD` when
the socket is ready, as Linux does: the code depends on it after a short write.

`Blocking = TRUE` models sockets that come from the acceptor: nothing makes them
non-blocking, so `readv` and `writev` block (the action is disabled) where a
non-blocking socket returns EAGAIN.

### Connector and acceptor

**Connector.** An actor is the application thread or a service thread. `at` is
where it is in `async_connect`, the destructor, or a handler of
`connect_context`; a step ends wherever another thread can come between: a
system call on a descriptor *number* (`fd`, `socket`: what the number stands for
now), a critical section of `context_guard_`, an exchange of `cancel_token_`.
`TryLock` is the exchange that either takes the token or drops the result. The
number is closed by `failed_notify` and again by the context (`HandlerCloses`),
and `CreateSocket` hands out the lowest free number, so the second close may hit
a stranger. `linked` holds epoll's raw pointers, `work` the events that were
fetched. The destructor spins for the token (`Spin`), sweeps the contexts and
goes. `put_channel` from another thread than the collector's is a data race on a
vector: the reference arrives or is lost (`collected["leak"]`). `lost` records
why a result never came, and `SilentlyEnded` says when each of the four reasons is
one: `epoll_ctl` failed for the call itself (`LinkFailed`: the context is recycled and
no callback runs); the destructor swept the context; the result met a token held
for another call or by the destructor; the number was closed, or its entry refused,
on account of another call. Two of them take a second call of the same connector,
and the destructor's two take the destructor: a lone call whose registration succeeds is
answered.

**Acceptor.** `in_use` counts the descriptors of the process; sessions and other
threads (`foreign`) open and close them at any time. `on_recv` is `Accept`, and
when the table is full `GiveUpIdle`, `AcceptAgain`, `Refuse`, `ReopenIdle`, step
by step. `acceptor` is where its owner is in start, stop and destruction.
`DestroyUnstarted` is the destructor that reads `*run_listen_` through a null
pointer. The history variable `taken` marks the behaviours in which another
thread takes the descriptor while it is given up: nothing is promised then.

### Buffers and the completion port

**Buffer, RecvBuffer.** The bytes of the stream are numbered, so that a gap, a
repetition or a swap shows. A turn of `do_recv`'s loop is one step: `readv` into
the buffer and a block on the stack, the callback on the buffer, then on the
block, then what is left is moved, grown or appended. `Readv` takes any number of
bytes, the callback may leave any. Sizes wrap at `Wrap` (2^64): `max - capacity`
may be negative in the code, `grow` then shrinks the block, and the copy beyond
it is recorded (`at = "broken"`). `SetMaxRecvBufferSize` sets any limit at any time, also
between the two reads of it that one growth makes (`Rereads`); the histories
`over` and `lowered` note that the callback left more than the limit, and that the limit
went below the block. `ReadvAgain` is the turn on EAGAIN, where -1 goes
on as a count. `skipped` marks the two turns that drop bytes by the text of the
code, so that `StreamKept` says there are no others. `WsaRecvCompletes` is the
Windows channel, where a full buffer posts a receive of no bytes.

**BufferPool.** `Load`, the read of `next`, the compare-and-exchange are steps of
`alloc_buffer`; `recycle_buffer` likewise on the IO thread; a session that dies
deletes buffers of the packets it has, and the addresses are reused. Any number of
threads allocate. The exchange compares the head and cannot see that `next_` has
changed since it was read: the history `stale` notes that it has succeeded all the same.
Until then `OneOwner` holds; section 6 says what happens after it.

**Iocp.** A completion waits in `port` until `run_once` dequeues it (in the order
in which they were queued); the task executor is used as `Mailbox` specifies it. `send` is four
steps as on Linux; `do_complete` is `SendComplete`, `TestLists`, `Splice`,
`WSASend`. `wire` is what has left the machine. A completion that finds its
channel released is undefined (`LateCompletion`).

### HTTP and websocket

**Symbols.** `wire` is a sequence of symbols: one character, or a run of
characters in the middle of a word that the parser only compares (`"eep-"`).
Words can still be cut in their middle. States and header states have the names
of the source; the three inner loops over URLs, header names and values that the
code adds for speed are modelled, because they count towards the size limit
differently (`start`, `Looped`).

**http_parser_execute.** A step handles one symbol, as one turn of the outer or
inner loop (a body in one step for all there is in the piece). `cur` is the
parser after `COUNT_HEADER_SIZE`; `Take` consumes the symbol, `Retake` is
`goto reexecute`. `mark` holds the positions of the `*_mark` variables: they are
local, so `EndOfBuffer` reports what is marked and `TryParse` marks again what
the state says. `Fail` is `goto error`, after which `try_parse` drops the piece.
`CompleteAs` ends a message, and on an upgrade hands the rest of the piece over.
In a Connection list the code compares with TAB after `LOWER`, which no TAB
survives: `ValueChar` takes it for another character, so the rest of the list is ignored.

**HttpCuts** runs the whole input in one piece first, keeps the outcome in
`whole`, and starts again with a new parser and any cuts. `begun` is the history
variable for the size limit: where the block that is being read began. Blank lines
before a message belong to no block (`EndsBlock`): the parser counts from the
message's first symbol.

**HttpSession.** A message is two elements of the stream, its first byte and its
end, so that the stream can be cut inside and between messages; frames are the
bytes of `WebSocket`, with `Radix` for 256, `Short` for 125 and `Long` for 65535.
`Flush`, `Receive` take any of `Pieces` elements. The completion callback of a
write (`Completion`) is what shuts a connection down that is not kept alive, and
what switches the server to frames. A `plan` says what the two applications do;
when they do it is free. The client sends up to `MaxOutstanding` requests before their
answers. The histories `begun` and `written` count requests begun by the server's parser and
answers whose completion has run; `overtaken` notes that one ran when a later request
was begun, whose keep-alive it then reads. `InStep` holds until a side sends a frame behind
a masked one of odd length: the zeros behind that one put the reader out of step.
`TryParseFrame` adds position and length in 64 bits as the code does, and a sum that wraps
ends in the `length_error` of `std::string`, which nothing catches.

## 4. The runs

Every run takes about two minutes or less with two workers.

| Run | Module | Checked | Distinct states |
|---|---|---|---|
| `thread` | `MCServiceThread` | `ThreadTypeOK`, `SwapsAreClean`, `IdleFdComesBack`, `ImplementsMailbox`, `PostedTaskRuns`, `StopTerminates`, `ClientIsAnswered` | 147 703 |
| `session` | `MCTcpSession` | `SessionTypeOK`, `PacketFifo`, `ByteAccounting`, `ChannelAliveInUse`, `FlagHasFlush`, `ImplementsOrderedChannel`, `FlushFlagClears`, `ClosedSessionFreed` | 237 326 |
| `session_blocking` | `MCTcpSession` | `SessionInMapAtClose` | 349 765 |
| `session_live` | `MCTcpSession` | `QueuedPacketLeaves`, `DataIsRead`, `DisconnectIsNoticed`, `FlushTaskTargetAlive` | 132 443 |
| `connector` | `MCConnector` | `CallbackSeesLiveConnector`, `ResultsAreDelivered`, `ContextOutlivesEvents` | 271 946 |
| `data_path` | `MCDataPath` | `StreamKept`, `BlockNotOverrun`, `OneOwner`, `WireInOrder`, `PacketHasCarrier` | 2 267 177 |
| `http_parser` | `MCHttpParser` | `TypeOK`, `AssertsHold`, `DeliveredAsSent`, `CutsDoNotMatter`, `BlocksAreBounded`, `UrlIsSplitRight`, `ErrorsAreFinal` | 733 883 |
| `http_session` | `MCHttpSession` | `FramesAsSent`, `HandshakeOnce`, `KeepAliveRespected` | 292 690 |
| `raw_pointer` | `MCTcpSession` | `FlushTaskTargetAlive`: **violated** | |
| `null_channel` | `MCTcpSession` | `FlushOnLiveChannel`: **violated** | |
| `ws_short_head` | `MCHttpSession` | `FrameSizeIsPositive`: **violated** | |
| `iocp_assert` | `Iocp` | `FlushHasPackets`: **violated** | |

What they show:

* **Tasks.** No interleaving of posts with the swaps loses, repeats or reorders
  a task. Tasks run although nothing ever interrupts `epoll_wait`, and `stop()`
  returns although tasks post tasks.
* **Accepting.** Whenever `on_recv` returns the idle descriptor is back, and a
  client is accepted or refused however full the table is, as long as no other
  thread takes the descriptor while it is given up.
* **Data.** Packets stay one FIFO through the two lists (`PacketFifo`), and at
  every point the units the socket took are the completed packets plus a
  prefix of the next one (`ByteAccounting`), for every way to cut the writes.
* **Flags.** A raised `is_post_flush_` always has a flush ahead of it
  (`FlagHasFlush`), although test and set are two steps and the reset a third.
* **Closing.** on_recv, on_send and on_close of one event never touch a channel
  that is gone, and a session is always found in the map when its socket closes,
  so `assert(false)` in `remove_tcp_session` is unreachable. The run has a
  blocking socket: blocking only removes the steps that return EAGAIN.
* **Liveness.** `QueuedPacketLeaves` holds where sends come from the enter and
  data callbacks, as in the examples of the repository. It is *not* claimed for
  sends by application threads and by completion callbacks, see section 6.
* **Connecting.** The token does what its comment says: no callback runs on a
  connector that is gone. A result is given once, and a call ends without one only
  in the four ways of `SilentlyEnded`; epoll's pointers to contexts are valid unless
  a result was dropped or a number closed twice before.
* **Receiving.** The stream reaches the callback without a gap, except for the two
  turns that drop bytes by their text. Positions stay inside the block, and the block
  inside `max_recv_buffer_size_`, until someone sets that below the block's size, or the
  callback of an epoll channel leaves more than it unread.
* **Pool.** With two threads that allocate, one exchange and no other can break a
  stack: the one that stores a `next_` read before the head was taken off and put back.
* **Windows.** With one sender the units leave in order and a queued packet
  always has a flush or a `WSASend` on the way.
* **Parsing.** For well-formed messages the callback sees every message with its
  headers and body whole; for these and for arbitrary bytes the result does not
  depend on the cuts; no open block exceeds `max_header_size` and nothing shorter
  is refused; the assertions in the parser's text hold; the parts of a URL
  are those of the grammar.
* **Connections.** Frames arrive as sent up to and with the first masked one of odd
  length, and the handshake completes once on both sides and before the frames. A
  connection that is not kept alive is shut down when its last answer is written, with
  requests under way, and not before unless a completion met a later request that was begun.

**Bounds.** `thread`: a posting thread, two kinds of task, lists of up to two:
two separate order from membership, one poster races with the loop and with
tasks that post. (Two posters are covered by the proofs.) Three descriptors
beside those of the threads are the listen socket, the reserve and one that is
contested, with up to two foreign ones and three clients.

`session*`: two packets are the least for overtaking, for a `writev` over
several packets and for a packet sent while another is half out; two units per
packet are the least for a write that ends inside a packet. `MaxIov` = 1 and 2
give a `writev` limited by MAX_IOVEC and one that is not. `MaxData` is above
`RecvCap` where a second `readv` matters. The task lists of a session have no
bound of their own: flag and packets limit what is posted. `PostShutdown` is
bounded to one queued shutdown task. (The bound `MaxQueue` on the lists of `thread`
is the instance's, in `MCServiceThread`: `ServiceThread` lets its environment
post without limit.)

`connector`: two calls on two threads with two numbers make numbers reused
and results meet; calls and threads are symmetric.

`data_path`: blocks of two bytes and more with a stack block of three and 12
bytes of stream reach every branch of `do_recv`, including a second growth; the
limit begins at 4 and is set to 1 (below the first block), 2 (its size) and 6. The
wrap is at 64, far above all sizes that do not wrap. Two buffers in two
classes, three lengths, of which the last needs growth, and two threads that allocate:
two buffers and two threads are the least for an exchange that is out of date. Four packets of
two units, two buffers in a `WSASend`. Buffers are symmetric.

`http_parser`: known messages (pipelined, chunked with trailers, folded, empty
and repeated headers, a TAB in a Connection list, HTTP/1.0, upgrades, responses with and
without a body)
in pieces of every size; inputs around the limit of 80 symbols in the first
line, a header, trailers and chunk lines; messages with one byte corrupted;
numbers around the limit of `content_length` (`MaxLength` = 40); all URLs that grow
by up to three characters from six beginnings. Only messages without a body switch protocols
(section 6).

`http_session`: nine plans: several requests, one that closes, an upgrade
after a request, frames of all three length forms, masked, fragmented, empty, in
both directions, a masked one of odd length at the end and two plans with frames
behind one; pieces of one, three and all elements. Up to two requests are under way
(`MaxOutstanding` = 2): the least for an answer whose completion meets a later request. The frames
that the two plans out of step make of what follows have other opcodes than 11 and 12.
`XorByte` is an operator parameter of `WebSocket`, here the bitwise one on bytes of
five bits.

`CHECK_DEADLOCK FALSE` everywhere: peers and users may stop at any time, a
thread that was joined has no further step, and a fault ends the program.

## 5. Fairness

`ThreadFairness`, `SessionFairness` and `AcceptFairness` assume weak fairness of

* every step of the IO thread (`LoopStep`, `IoProgress`): the thread is
  scheduled, callbacks and tasks of the user return, and `epoll_wait` has a
  timeout (`wait_timeout_ms_`), so its return needs no event;
* the steps of `send` and `wakeup` that a thread has begun: a thread is not
  suspended for ever inside a call;
* `Join`, `JoinListenThread`: the owner's `join` returns when the thread has ended;
* `ListenStep`: the listen thread is scheduled, and its epoll has the same timeout;
* `PeerReads`: a peer that is connected goes on reading. Without it no sender
  can promise that data leaves. Nothing obliges the peer to send or to close.

No fairness is assumed of what users choose to do: `Send`, `PostShutdown`,
`DropSession`, `AddSession`, `Stop`, the start and the destruction of an
acceptor, clients and other threads. In `MCServiceThread` each fairness
condition holds in the behaviours of its own part; the other part stands still
there.

## 6. Findings and observations

**`raw_pointer`.** The comment in `tcp_session::send` (`net/tcp_session.ipp:51-55`)
explains why the posted lambda may hold a raw pointer: channel and `socket_data`
are released after the executor ran, so that the lambda has run by then. The
trace: an application thread has the last `shared_ptr` and is between the flag
and the post. The peer closes; the pass that handles the event closes the
socket and, at its end, releases the channel. Then the thread posts the flush
and drops its pointer. Nobody owns `socket_data` any more, and the next pass runs
the lambda on it. `session_live` shows that the argument of the comment
is right when only callbacks send.

**`null_channel`.** The same comment relies on the channel staying for the
lambda; but `socket_data::close` sets `channel_` to null at once. It is saved by
`is_can_write_`, which `close` sets to false. The trace: one epoll event has
EPOLLIN and EPOLLOUT. `on_recv` calls the data callback, which sends (a flush is
posted), reads on and finds the peer's FIN: the socket is closed. `on_send` of
the same event then sets `is_can_write_` to true (`epoll_socket_channel.h:91`),
without a look at `has_closed_`, and the flush calls through the null pointer.

**`ws_short_head`.** `try_parse_frame` answers a frame with an eight-byte length of
which fewer than ten bytes are there with `return len;` (`websocket_parser.h:237`),
which is true, and no frame size. Its caller asserts `frame_size > 0` (`:183`);
with NDEBUG it parses the same bytes for ever.

**`iocp_assert`.** `flush_buffer` asserts `cnt > 0` (`iocp_send_channel.h:45`).
`send` reads `is_post_flush_` after it has pushed its packet; a completion in
between takes the packet along and resets the flag, and the sender posts a flush
that finds nothing.

Observations that contradict no text of the repository, and so have no run:

*Session.*

* A send by an application thread (or by a completion callback inside a flush
  task) that lands between `flush_buffer`'s last look at the list and the reset
  of `is_post_flush_` posts nothing, and its packet waits for the next send or
  EPOLLOUT. `QueuedPacketLeaves` with the site `"app"` is violated.
* `post_shutdown` called in a callback acts at once and overtakes what an
  earlier `send` posted: the queued packets stay.
* Accepted sockets block, and with them the IO thread and its other sessions.
* When `epoll_ctl` fails in `on_socket_enter`, channel and `socket_data` keep each
  other and the descriptor for ever.
* The wakeup has no effect (section 3): a posted task waits for `epoll_wait`'s
  timeout when no event comes.

*Connector.*

* A result that meets a held token is dropped (`connector.ipp:60`, `:67`): no
  callback, and the descriptor stays open. A call whose `epoll_ctl` fails
  (`connector.ipp:80`), or that gets no socket, tells nobody.
* A failed connect closes its number twice (`connector.ipp:71`,
  `connect_context.h:58`); the second may hit a socket made in between.
* Destroying the connector inside its `failed_cb` spins for ever on the token that
  the callback holds.
* `assert` at `connector.ipp:36` fails with three calls on two threads: a context
  left by a dropped result is found again under a reused number.

*Acceptor and event service.*

* Another thread may take the descriptor between `close(idle_fd_)` and the
  `accept`, or before the reserve is reopened: `idle_fd_` is -1 from then on, and
  the level-triggered event fires without end (`epoll_accept_channel.h:28`).
* `listen_fd_` is never closed: after `stop()` clients still connect to it, and a
  `start()` on the same address fails (`acceptor.ipp:58`).
* Destructors of an acceptor never started and of an `event_service` without
  `run_thread` read a null `shared_ptr` (`acceptor.ipp:60`, `event_service.ipp:58`);
  a second `start()` destroys a joinable thread.
* `get_service_thread` without threads divides by zero, and several threads use
  its generator without a lock (`event_service.ipp:24`). `add_tcp_session` tasks
  left at stop leak their descriptor.
* `put_channel` from the owner's thread races with `release_channel`
  (`acceptor.ipp:24`, `channel_collector.h:22`): the reference may be lost.

*Buffers.*

* EAGAIN after a full read adds -1 to the write position: the last unread byte is
  lost (`epoll_socket_channel.h:128`). Bytes of the stack block are dropped
  while no data callback is set.
* Once the block is larger than `max_recv_buffer_size_`, `max - capacity` wraps and
  the next growth shrinks the block and copies beyond it (`:162`). The callback gets
  there by leaving more than the limit unread; `set_max_recv_buffer_size`, which checks
  nothing, by any value below the block that is there, also below its first size.
* `grow` frees with `delete[]` what `malloc` gave (`buffer.h:75`, `:78`).
* Two allocating threads can break the stack (ABA, `buffer_pool.h:61`): without
  `~stale` the invariant `OneOwner` is violated in `data_path`. The read of `next_` of a
  buffer that is in use is a data race as well; the model lets it read anything from a
  buffer that was deleted.

*HTTP.*

* `upgrade` is set with the headers, before the body is read, and `try_parse`
  looks at it first (`http_parser.h:2181`, `http_parser_api.h:477`): the body of a
  request that switches protocols goes to the websocket parser when it arrives in
  a later piece. `CutsDoNotMatter` is violated by such an input, and
  `ErrorsAreFinal` names the case.
* The count for trailers is not reset (`http_parser.h:2163`); CONNECT accepts
  `a:1?` (`:2811`); fields of URLs longer than 65535 wrap their offsets; a folded
  Connection header loses its flag.
* `parsed_query_params_` is never cleared between requests (`http_parser_api.h:367`);
  the response callback is called twice for each response (`:668-683`); a body that
  ends with the connection is never delivered; a response's status code neither.
* The reset of a closed session leaves `session_` null for later sends
  (`http_session.h:154`); with pipelining the completion of an answer reads the
  keep-alive flag of a later request (`:109`) and may close the connection before that is answered; the callbacks keep the session in a cycle (`:41`).
* A masked payload is followed by as many zero bytes as it has
  (`websocket_parser.h:138`). An even number of them reads as empty continuation frames; an odd
  number puts the reader out of step: behind a masked text of one byte, the next
  frame is read from its last zero on, and a message is handed over that nobody
  sent (without `InStep` the run violates `FramesAsSent`). Control frames between fragments are merged
  into the message, and opcodes 11 and 12 on the wire pass for a handshake.
* A length near 2^64 makes `pos + payload_len` wrap past the test that the frame is
  complete (`websocket_parser.h:251`): `append` or `reserve` throws `length_error`.

*Windows.*

* A send that completes after the close calls `flush_buffer` again on a socket
  that is closed, and maybe reused (`iocp_send_channel.h:89`), and callbacks run
  after the disconnect callback. `close_socket` hands both channels to the
  collector while an operation may be pending: its OVERLAPPED is freed.
* `start_recv` that fails inside `on_socket_enter` closes the session before it is
  in the map (`assert(false)`, `service_thread.ipp:43`).
* Two senders that both read the flag as false post two `WSASend` loops over one
  list (`tcp_session.ipp:46`): `WireInOrder` assumes one sender.
* A receive buffer that is full at its maximum posts a receive of no bytes, whose
  completion is taken for the end (`iocp_recv_channel.h:22`).

## 7. What is proved

All proofs are for any set of threads, any sizes and any bounds that satisfy
the named assumptions of the modules: types of the constants, that `Io` is not
among the other threads (`IoAssumption`), that a packet and a `writev` hold at
least one unit (`SizeAssumption`), that the kinds of task of a session are three
(`KindAssumption`), that `None`, the application and the name for leaked
contexts are no service threads (`ConnectorAssumption`), that a buffer's largest
size and the bytes of a run are below the modulus of `size_t`
(`RecvAssumption`), that each length of a packet has a class in the pool, as
`buffer_pool.h:50` asserts (`ClassAssumption`), that `content_length` is wider
than one digit (`SizesAssumption`), and that a client asks for the close with its
last request only (`CloseIsLast`). Of the frames they use that the number of
bytes is a multiple of 32, so that an opcode and a length fit beside the high
bit, and that xor with the same byte twice gives the byte back
(`ByteAssumption`); that the limits of the length forms leave that bit alone and
fit two bytes (`LengthAssumption`); that payloads are bytes whose number fits 64
bits and that applications do not use the two opcodes that the parser takes for
its own handshake (`FrameAssumption`); and that a key is four bytes
(`KeyAssumption`). All of them hold of 256, 125, 65535 and `^`.

Two theorems have a hypothesis of their own, without which their property is
false. `CallbackFlushFindsData` is about sends from callbacks: with a send of
another thread the run `raw_pointer` finds the counterexample.
`OneAllocatorIsSafe` is about one thread that allocates: with two an exchange may be
out of date.

Five properties name, inside the formula, the step after which the code keeps them no
longer; none of these steps is excluded from a run. `BlockNotOverrun` ends with a limit
set below the block (`lowered`) or a callback that left more than the limit (`over`),
`OneOwner` with an exchange that is out of date (`stale`), `FramesAsSent` and `HandshakeOnce`
with a frame behind a masked one of odd length (`InStep`), and the "not before" of
`KeepAliveRespected` with a completion that met a later request (`overtaken`).

| Module | Theorem | Statement |
|---|---|---|
| `ServiceThreadProofs` | `ThreadTypeCorrect` | `ThreadSafety => []ThreadTypeOK` |
| | `SwapsClean` | `ThreadSafety => []SwapsAreClean` |
| | `ExecutorIsMailbox` | `ThreadSafety => ImplementsMailbox` |
| `TcpSessionProofs` | `FlagAlwaysHasFlush` | `SessionSafety => []FlagHasFlush` |
| | `PacketsStayInOrder` | `SessionSafety => []PacketFifo` |
| | `SessionIsOrderedChannel` | `SessionSafety => ImplementsOrderedChannel` |
| | `BytesAccounted` | `SessionSafety => []ByteAccounting` |
| | `SessionTasksAreMail` | `SessionSafety => ImplementsMailbox` |
| | `ChannelStaysInUse` | `SessionSafety => []ChannelAliveInUse` |
| | `ClosesFromTheMap` | `SessionSafety => []SessionInMapAtClose` |
| | `SessionTypeCorrect` | `SessionSafety => []SessionTypeOK` |
| | `CallbackFlushFindsData` | `"app" \notin SendSites`: `SessionSafety => []FlushTaskTargetAlive` |
| `ConnectorProofs` | `TokenHeld` | `Spec => []TokenIsHeld` |
| | `ConnectorIsLive` | `Spec => []CallbackSeesLiveConnector` |
| | `ResultsDelivered` | `Spec => []ResultsAreDelivered` |
| | `ContextsOutlive` | `Spec => []ContextOutlivesEvents` |
| `AcceptorProofs` | `ListenThreadKeepsChannel` | `AcceptSafety => []ListenThreadHasChannel` |
| | `IdleFdIsKept` | `AcceptSafety => []IdleFdComesBack` |
| `DataPathProofs` | `StreamIsKept` | `RecvSpec => []StreamKept` |
| | `PositionsStayInside` | `RecvSpec => []BlockNotOverrun` |
| | `BuffersHaveOneOwner` | `PoolSpec => []OneOwner` |
| | `OneAllocatorIsSafe` | one allocating thread: `PoolSpec => [](~stale /\ OneOwner)` |
| | `PacketsAreCarried` | `IocpSpec => []PacketHasCarrier` |
| | `UnitsLeaveInOrder` | `IocpSpec => []WireInOrder` |
| `HttpParserProofs` | `ParserTypeCorrect` | `CutsSpec => []TypeOK` |
| | `AssertionsHold` | `CutsSpec => []AssertsHold` |
| | `ErrorsStayFinal` | `CutsSpec => ErrorsAreFinal` |
| | `NoBlockIsTooLong` | `CutsSpec => []BlocksAreBounded` |
| `WebSocketProofs` | `NumberReadBack` | a number that fits `k` bytes is read back from them |
| | `FrameReadBack` | `TryParseFrame` of what begins with `FrameString(f, key)` is `f` |
| | `ZerosRead` | two zeros are read as an empty fragment |
| `HttpSessionProofs` | `LastAnswerCloses` | `Spec => []KeepAliveRespected` |
| | `HandshakesComplete` | `Spec => []HandshakeOnce` |
| | `FramesArrive` | `Spec => []FramesAsSent` |

The arguments:

* *Passes.* `PassInv` is `ThreadTypeOK /\ SwapsAreClean`. Neither is inductive
  alone: that the pass stays within its list needs that the other `tmp_` list is
  empty, and that needs where the loop is.
* *Mailboxes.* A list that was taken and its successor are one mailbox:
  `SubSeq(tmp, started + 1, Len(tmp)) \o list`. By `PassInv` a swap takes a
  full list over an empty one and a clear drops a list that was run to its end,
  so both stutter; a begin takes the head, a post appends.
* *The session on its thread.* `ThreadPart` splits a step of the session into
  what it is to the thread: a step of the loop, a wakeup, a post, or nothing. So
  `PassInv` holds of the session without a second proof (`PassInvOfSession`).
  Every step of the session is a step of `ServiceThread`, whose environment `EnvPost`
  the handlers are, or stutters: that is how the actions are written, and the lemma
  `SessionUsesThread` only says so. With `ExecutorIsMailbox` it gives the statement
  that the session's tasks are a pair of mailboxes (`SessionTasksAreMail`).
* *The flag.* `FlagInv` adds to `FlagHasFlush` that a thread is in one place in
  `send` and that the task that runs is not a flush while the handlers of the
  other kinds are at work (`RunningKind`): then the end of such a task leaves
  every flush in the lists. `FlushStaysAhead` is the fact about the lists, one
  case per step of the loop: a flush is in a list, then in the tmp list, then
  running, and `FlushDone` resets the flag before it ends.
* *Order.* `QueueInv` adds to `PacketFifo` that the complete callback has a
  pending packet, and that no flush and no disconnect callback is at work on a
  session that is closed (`OpenInUse`). `QueueEffect` reduces the actions to the
  four that touch packets or close the session; they are the steps of
  `OrderedChannel`, and the splice is a stutter because concatenation is
  associative.
* *Bytes.* `ByteInv` adds to `ByteAccounting` that a write is never attributed to
  more than is pending (`Attributable`): it bounds `tmp_len` in the loop over the
  packets, so that the loop cannot end with units left over (`AllComplete`). It
  holds after `Writev` because `Prepared` adds up the lengths of packets that are
  in the list. `IoInLoop` (handlers run only where the loop calls them) is needed
  so that no task begins in the middle of a flush.
* *Lifetime.* `LifeInv` adds to `ChannelAliveInUse` what the closing relies on: a
  session in the map, or about to enter it, has its channel (`MapKept`); before
  `enter_cb` nobody has the session, no flush is posted and nothing is registered
  (`UntilEntered`); whatever is registered with epoll has its channel. Neither
  property is inductive without these, because the handlers are entered through
  epoll and the tasks through the lists.
* *The flush of a callback.* `FlushOwned` says where the one flush that may exist
  is: no thread but the IO thread has sent (`SentFromCallbacks`), so there is at
  most one (`OneFlushTask`); it was posted to the list that the same pass swaps
  and runs after the handlers (`FlushInSyncPass`), which comes before the
  collector, and until then the data has its channel (`FlushHasChannel`).
* *The results of a connect.* Descriptor numbers are used again, so that the
  account is kept by call. `Claims`: a call is in one place of one thread, the
  epoll set, the fetched events, a handler, or a task list, and none that could
  answer it is left when it has its answer. `Settled`: a call that was handled
  was told, or was ended without a callback, or is still under way. `Reasons` says what
  the run has met when a call is lost: for "destroyed" the destructor, and for the accidents that take
  another call, that a connector with one call (`Alone`) has its number, entry and event
  to itself, so that the token its result finds set is the destructor's (`HeldByAnother`). `Safe` holds while neither accident
  happened: the number of a call under way still has the call's socket and
  context (`Whole`), or the destructor has put the context into the collector
  (`Swept`), and a handler after `recycle_context` has it there (`Kept`). `CInv`
  is the conjunction of all these with the places (`PInv`) and the token.
* *The token.* Whoever is between the exchange that took `cancel_token_` and the
  one that gives it back is the one that `token` names, and the destructor past
  its loop has it (`TokenIsHeld`). Two holders are then impossible.
* *The reserve.* While `idle_fd_` is given up, a descriptor is free or with the
  connection that is refused (`IdleInReserve`), unless another thread took it;
  the account of all descriptors (`Accounted`) turns that into a statement about
  `in_use`. A thread that listens has an owner that joins it before it drops
  the channel (`ThreadIsOwned`).
* *Carriers.* A packet in a list has a carrier (`Carried`) because the flag
  promises one (`FlagHasCarrier`): the flag is reset only where both lists were
  seen empty under the lock, and the sender looks at the flag after its push.
* *Units in order.* `WInv` adds to the carriers that there is at most one of them
  (`OneCarrier`): one flush task or one `WSASend` or one completion, so that a
  completion always belongs to the head of the pending list. `Position` is the
  account: what is on the wire is what was completed (`Done`) plus the operation
  that is out, and a new `WSASend` begins at `Done`.
* *Received bytes.* `RInv` is the types, `BlockOK` and `StreamKept`. A buffer is
  `Sane` when its positions are inside the block and its bytes are those between
  them; each operation of `buffer` has a lemma that it keeps this, and says what
  it does to the bytes. `TurnEnds` puts them together for a turn of `do_recv`.
  The size_t(-1) that EAGAIN adds to the write position is harmless only because
  an empty buffer is at its head between turns; that is in `BlockOK`. The
  block is inside the limit until `lowered` or `over`; a growth asks for no more than the
  difference of the two, which wraps only when the block is above the limit: `Leave` can
  break a block only after one of the two.
* *The stacks of the pool.* `PoolInv` says that there is for each class a sequence
  of buffers, each once, linked by `next_` from the head to null, and that what is
  not in one of them, in a packet or in the IO thread's hands is free, as long as `~stale`. An
  exchange that is not out of date takes the head of its sequence and leaves the
  tail. With one allocating thread a buffer that it has read as the head stays in the
  sequence until that thread takes it, because nobody else does: then the `next_` it read
  is still the next when the exchange finds the head in place (`AloneNeverStale`). `OneOwner` walks the pointers with a recursive
  function; that it reads the sequence is an induction, done as a search for the
  first place where the two differ (`LeastOfSet`, from the well-foundedness of the
  strict subsets of a finite set).
* *The parser.* `IInv` is `Positions /\ Gathered(parser) /\ InPlace`. `Gathered`
  says for each state what the parser has when it is there: how far the index is
  in the word it looks for, that a chunk state has F_CHUNKED, that a length that
  is read is neither 0 nor unset, that the count is 0 where a chunk size begins.
  `InPlace` gives each state the one mark that may be set (`MarkOf`), no marks and
  an error only outside `http_parser_execute`. There is one lemma per group of states; each ends in one of
  `Move`, `TakeStep`, `LoopStep`, `FailStep`, the ways to leave a symbol. The
  bounds on numbers rest on the two conservative tests (`LengthGrows`,
  `ChunkDigit`).
* *The size of a block.* `Counts` relates `nread` to the history `begun`, the place
  where the block that is read began: they differ by the symbols that an inner
  loop passed and has not yet counted. `CountInv` gives this for every state, with
  the marks of the loops; `Effect` reduces a step to five kinds (it fails, reads a
  symbol, stays in an inner loop, hands over a body, ends a block).
* *The last answer.* `Answered` adds to the two streams (below) one of two phases.
  While no handshake is begun (`Serving`), the stream to the server is that of the
  requests, two elements each (`Requests`), and `Turns` ties how much of it is parsed to the
  counts: the requests parsed are those owed an answer, those whose answer is in
  `send_list`, and those `written` (`Finished`); `begun` is one more in the middle of the
  next, and `keep_alive` is that of the last one parsed, or false in the middle. So a
  completion reads the flag of the request it answers unless a later one is begun. `Closes` is the
  property in these terms; `LastWritten` turns the counts into "all answers are
  written". Once the handshake is begun (`Switching`) no answer is owed or waits, so no such
  completion runs any more, and no request of the plan asks for a close (`CloseIsLast`).
* *The text of a frame.* `FrameShape` says what is at each place of what
  `to_string` writes, for each of the three forms of the length, with and without
  a key; `FrameReadBack` follows the parser over these places. A length is read
  back because each byte is the remainder of a number whose quotient the bytes
  before it give (`NumberReadBack`); a payload because xor is its own inverse.
  The parser looks at a prefix only: what it answers of a part of the text, it
  answers of the whole.
* *The streams.* To each side there goes one stream (`Flow`): all elements ever
  sent, and places in it. The packets of `send_list` are what lies between their
  ends, behind what is written; the wire is what is written and not received; the
  buffer is what is received and not parsed (`Layout`). A read, a write or a
  parser's step moves one place, and a send lengthens the stream (`Longer`,
  `More`), so that a cut anywhere is no case of its own. `Content` says what lies
  where: messages of two halves, of which only the last may switch protocols, and
  behind it the texts of the first frames of the plan; no packet holds a message
  and a frame. A side that reads frames is at the end of one of them, or an even
  number of zeros before it (`Reads`): what was handed over and what is under way
  is then what the frames up to there make up (`Joined`).
* *The handshake.* `Linked` ties the two streams together. `Asked`: the server
  has not parsed more requests than it answered or owes, nor the client more
  answers than were given, and nothing of requests and answers is left when the
  client begins the handshake. `Switched`: the stream to the client has the
  answer to the handshake exactly when the server has switched, and each side was
  told of the handshake when that answer is written, or parsed. `Counted`: frames
  are only sent after that. The
  invariant is `Plain /\ Shown`, and `Shown` says that there are two such streams.
  TLC cannot enumerate them; it checks what the invariant implies.

Only model-checked:

* liveness (all leads-to properties);
* `DeliveredAsSent`, `CutsDoNotMatter`, `UrlIsSplitRight`: they compare the parser
  with what folds compute from the whole input: that the two agree is an
  induction over the input, symbol by symbol, for every state of the parser.

## 8. What is not modelled

* `SHA1.hpp`, `base64.h`: pure functions of the handshake key. The handshake
  needs only that both ends have the text.
* `http_parser`: `HTTP_BOTH`, pausing, callbacks that return errors, lenient
  headers, none of which spdnet uses; all but five methods, which are matched in
  the same way; the two callbacks for chunks only as far as they touch the message.
* `AcceptEx`, `ConnectEx` and the wakeup channel of the Windows build.
* `event_service`: a second `run_thread`; the stop of its destructor. A second
  `start` of an acceptor.
* `buffer::swap`, the destructor of the pool. The spin lock is a critical section.
* The growth of the array of epoll events.
* `end_point`, `socket_ops`, `endian`, `singleton`: conversions and wrappers
  without state; what they do to descriptors is part of the actions that call
  them.
* Contents of packets and of received data where no property depends on them.
* The order of memory accesses: `wakeup_flag_` is atomic; the `volatile` flags
  of `socket_data`, the plain `*is_run`, and the relaxed loads of the pool are
  modelled as sequentially consistent; their races appear as interleavings of
  single reads and writes.
* Exceptions thrown by callbacks: the code has no handler for them.

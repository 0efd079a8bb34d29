------------------------------ MODULE TcpSession ------------------------------
(***************************************************************************)
(* One tcp_session on its IO thread: socket_data, the epoll_socket_channel  *)
(* that serves it, the collector that defers the channel's release, and the *)
(* application threads that hold the session and send on it.                *)
(*                                                                          *)
(* ServiceThread gives the loop and the task lists; here the tasks and the  *)
(* handlers get their bodies.  `io` is where the IO thread is inside one;   *)
(* whether that is a handler or a task is told by `loop`.                   *)
(***************************************************************************)
EXTENDS ServiceThread, EpollSocket, FiniteSets

CONSTANTS SendSites,     \* where the user calls send: "app", or a callback of the IO thread
          MayShutdown,   \* the user calls post_shutdown
          Blocking,      \* the socket was accepted: nobody made it non-blocking
          MaxPackets,    \* bound: packets ever sent
          PacketLen,     \* units of a packet
          MaxIov,        \* MAX_IOVEC
          RecvCap,       \* units one readv takes: try_recv_len
          MaxData        \* bound: units the peer ever sends

Callback == {"enter_cb", "data_cb", "complete_cb", "disc_cb"}

ASSUME SiteAssumption == SendSites \subseteq Callback \cup {"app"}
ASSUME FlagAssumption == MayShutdown \in BOOLEAN /\ Blocking \in BOOLEAN
ASSUME SizeAssumption ==
    /\ MaxPackets \in Nat /\ MaxData \in Nat
    /\ PacketLen \in Nat \ {0} /\ MaxIov \in Nat \ {0} /\ RecvCap \in Nat \ {0}
ASSUME KindAssumption == TaskKind = {"enter", "flush", "shutdown"}

VARIABLES io,               \* step of the handler or task that runs
          calls,            \* channel calls of this epoll event still to make
          full,             \* the last readv filled both buffers
          send_packet_list, \* under send_guard_
          pending_packet_list,
          head_off,         \* units removed from the first pending packet
          tmp_len,          \* units written and not yet attributed to packets
          pushed,           \* packets are numbered as they are pushed
          sent,             \* history: completed packets
          wire_len,         \* history: units the socket took
          has_closed, is_post_flush, is_can_write,
          channel,          \* socket_data::channel_ is not null
          in_collector,     \* the channel is in del_channel_list_
          in_map,           \* the session is in tcp_sessions_
          held,             \* application threads with a shared_ptr to the session
          created,          \* add_tcp_session was called
          send_pc,          \* where each thread is in tcp_session::send
          sock,             \* the socket and its epoll entry
          fault             \* undefined behaviour that ended the program

ioVars == <<io, calls, full>>
packetVars == <<send_packet_list, pending_packet_list, head_off, tmp_len, pushed, sent, wire_len>>
flagVars == <<has_closed, is_post_flush, is_can_write>>
ownVars == <<channel, in_collector, in_map, held, created>>
sessionVars == <<ioVars, packetVars, flagVars, ownVars, send_pc, sock, fault>>
vars == <<threadVars, sessionVars>>

IoStep == {"none", "link", "recv", "splice", "writev", "complete", "close",
           "flush_task", "flush_done", "shutdown"} \cup Callback

SessionInit ==
    /\ ThreadInit
    /\ io = "none" /\ calls = <<>> /\ full = FALSE
    /\ send_packet_list = <<>> /\ pending_packet_list = <<>>
    /\ head_off = 0 /\ tmp_len = 0 /\ pushed = 0 /\ sent = <<>> /\ wire_len = 0
    /\ has_closed = FALSE /\ is_post_flush = FALSE /\ is_can_write = TRUE
    /\ channel = FALSE /\ in_collector = FALSE /\ in_map = FALSE
    /\ held = {} /\ created = FALSE
    /\ send_pc = [t \in Threads |-> "idle"]
    /\ sock = NewSocket(MaxData)
    /\ fault = "none"

\* Functors that own the session, until their list is cleared.
Owns(list) == \E i \in DOMAIN list : list[i].kind \in {"enter", "shutdown"}

\* Somebody holds a shared_ptr that keeps socket_data: the session's owners,
\* or the channel, which keeps it too.
Alive ==
    \/ held # {} \/ in_map \/ channel \/ in_collector
    \/ Owns(async_tasks) \/ Owns(tmp_async_tasks) \/ Owns(tmp_sync_tasks)
    \/ io = "link"

\* The IO thread is in this step, and not in a call of send or post.
IoIn(step) == io = step /\ send_pc[Io] = "idle" /\ post_pc[Io] = "idle"

\* Where a flush, and a close, return to.
Return == IF loop = "events" THEN "none" ELSE "flush_done"

\* A handler, or task, that returns.
ReturnToLoop == IF loop = "events" THEN UNCHANGED threadVars ELSE EndTask

-----------------------------------------------------------------------------
(* tcp_session::send, by an application thread or inside a callback.         *)

Send(t) ==
    /\ pushed < MaxPackets
    /\ send_pc[t] = "idle" /\ post_pc[t] = "idle"
    /\ IF t = Io THEN io \in Callback \cap SendSites ELSE t \in held /\ "app" \in SendSites
    /\ pushed' = pushed + 1
    /\ send_packet_list' = Append(send_packet_list, pushed + 1)
    /\ send_pc' = [send_pc EXCEPT ![t] = "check"]
    /\ UNCHANGED <<threadVars, ioVars, pending_packet_list, head_off, tmp_len, sent,
                   wire_len, flagVars, ownVars, sock, fault>>

CheckPostFlush(t) ==
    /\ send_pc[t] = "check"
    /\ send_pc' = [send_pc EXCEPT ![t] = IF is_post_flush THEN "idle" ELSE "set"]
    /\ UNCHANGED <<threadVars, ioVars, packetVars, flagVars, ownVars, sock, fault>>

SetPostFlush(t) ==
    /\ send_pc[t] = "set"
    /\ is_post_flush' = TRUE
    /\ send_pc' = [send_pc EXCEPT ![t] = "post"]
    /\ UNCHANGED <<threadVars, ioVars, packetVars, has_closed, is_can_write, ownVars, sock, fault>>

\* epoll_impl::post_flush: the task holds a raw pointer, so it owns nothing.
PostFlush(t) ==
    /\ send_pc[t] = "post"
    /\ Post(t, "flush")
    /\ send_pc' = [send_pc EXCEPT ![t] = "idle"]
    /\ UNCHANGED <<ioVars, packetVars, flagVars, ownVars, sock, fault>>

SendStep(t) == CheckPostFlush(t) \/ SetPostFlush(t) \/ PostFlush(t)

\* epoll_impl::shutdown_socket.
DoShutdown ==
    IF has_closed
    THEN UNCHANGED <<is_can_write, sock>>
    ELSE is_can_write' = FALSE /\ sock' = ShutWrite(sock)

\* post_shutdown runs at once on the IO thread; elsewhere its task owns the session.
ShutdownNow ==
    /\ MayShutdown /\ ~sock.wr_shut
    /\ \E cb \in Callback : IoIn(cb)
    /\ DoShutdown
    /\ UNCHANGED <<threadVars, ioVars, packetVars, has_closed, is_post_flush, ownVars, send_pc, fault>>

PostShutdown(t) ==
    /\ MayShutdown /\ ~sock.wr_shut /\ t \in held /\ send_pc[t] = "idle"
    /\ ~Owns(async_tasks) /\ ~Owns(tmp_async_tasks)    \* bound: one at a time
    /\ Post(t, "shutdown")
    /\ UNCHANGED sessionVars

DropSession(t) ==
    /\ t \in held /\ send_pc[t] = "idle" /\ post_pc[t] = "idle"
    /\ held' = held \ {t}
    /\ UNCHANGED <<threadVars, ioVars, packetVars, flagVars, channel, in_collector, in_map,
                   created, send_pc, sock, fault>>

-----------------------------------------------------------------------------
(* Entering the IO thread: event_service::add_tcp_session.                   *)

\* From the acceptor's thread, or another IO thread.
AddSession(t) ==
    /\ ~created /\ t # Io
    /\ Post(t, "enter")
    /\ created' = TRUE
    /\ UNCHANGED <<ioVars, packetVars, flagVars, channel, in_collector, in_map, held, send_pc, sock, fault>>

\* From a connect handler of this thread: the task runs at once.
AddSessionHere ==
    /\ ~created /\ IoAt("events") /\ io = "none"
    /\ created' = TRUE
    /\ io' = "link"
    /\ UNCHANGED <<threadVars, calls, full, packetVars, flagVars, channel, in_collector, in_map,
                   held, send_pc, sock, fault>>

\* epoll_impl::on_socket_enter, then the user's callback, which may give the
\* session to application threads.
LinkChannel ==
    /\ io = "link"
    /\ channel' = TRUE
    /\ sock' = EpollAdd(sock)
    /\ io' = "enter_cb"
    /\ held' \in SUBSET (IF "app" \in SendSites THEN AppThreads ELSE {})
    /\ UNCHANGED <<threadVars, calls, full, packetVars, flagVars, in_collector, in_map, created, send_pc, fault>>

\* epoll_ctl fails: nobody gets the session, and the channel keeps its data.
LinkFails ==
    /\ IoIn("link")
    /\ channel' = TRUE
    /\ io' = "none"
    /\ ReturnToLoop
    /\ UNCHANGED <<calls, full, packetVars, flagVars, in_collector, in_map, held, created, send_pc, sock, fault>>

EndEnterCb ==
    /\ IoIn("enter_cb")
    /\ in_map' = TRUE
    /\ io' = "none"
    /\ ReturnToLoop
    /\ UNCHANGED <<calls, full, packetVars, flagVars, channel, in_collector, held, created, send_pc, sock, fault>>

-----------------------------------------------------------------------------
(* epoll_impl::run_once: the calls one event of the channel leads to.        *)

\* Mutant: a peer that hung up is only read from.
CallsOf_NoClose(mask) ==
    (IF "EPOLLIN" \in mask THEN <<"on_recv">> ELSE <<>>)
    \o (IF "EPOLLOUT" \in mask THEN <<"on_send">> ELSE <<>>)

CallsOf(mask) ==
    IF "EPOLLRDHUP" \in mask THEN <<"on_recv", "on_close">>
    ELSE (IF "EPOLLIN" \in mask THEN <<"on_recv">> ELSE <<>>)
         \o (IF "EPOLLOUT" \in mask THEN <<"on_send">> ELSE <<>>)

EpollWait ==
    /\ EpollReturn
    /\ calls' = IF sock.edge THEN CallsOf(Mask(sock)) ELSE <<>>
    /\ sock' = [sock EXCEPT !.edge = FALSE]
    /\ UNCHANGED <<io, full, packetVars, flagVars, ownVars, send_pc, fault>>

DispatchRecv ==
    /\ IoIn("none") /\ calls # <<>> /\ Head(calls) = "on_recv"
    /\ io' = "recv"
    /\ calls' = Tail(calls)
    /\ UNCHANGED <<threadVars, full, packetVars, flagVars, ownVars, send_pc, sock, fault>>

\* epoll_socket_channel::on_send: cancel_write_event, then flush_buffer.
DispatchSend ==
    /\ IoIn("none") /\ calls # <<>> /\ Head(calls) = "on_send"
    /\ sock' = EpollMod(sock, FALSE)
    /\ is_can_write' = TRUE
    /\ io' = "splice"
    /\ calls' = Tail(calls)
    /\ UNCHANGED <<threadVars, full, packetVars, has_closed, is_post_flush, ownVars, send_pc, fault>>

DispatchClose ==
    /\ IoIn("none") /\ calls # <<>> /\ Head(calls) = "on_close"
    /\ io' = "close"
    /\ calls' = Tail(calls)
    /\ UNCHANGED <<threadVars, full, packetVars, flagVars, ownVars, send_pc, sock, fault>>

\* Mutant: run_once releases the channels itself (the line commented out at
\* epoll_impl.ipp:143).
EventsDone_Releases ==
    /\ EndEvents
    /\ io = "none" /\ calls = <<>>
    /\ in_collector' = FALSE
    /\ UNCHANGED <<ioVars, packetVars, flagVars, channel, in_map, held, created, send_pc, sock, fault>>

EventsDone ==
    /\ EndEvents
    /\ io = "none" /\ calls = <<>>
    /\ UNCHANGED sessionVars

-----------------------------------------------------------------------------
(* epoll_socket_channel::do_recv.                                            *)

\* Data, or EAGAIN: the data callback is called in both cases.
Readv ==
    /\ IoIn("recv")
    /\ ~ReadEnds(sock)
    /\ Blocking => sock.rx > 0
    /\ LET n == IF sock.rx < RecvCap THEN sock.rx ELSE RecvCap IN
       /\ sock' = [sock EXCEPT !.rx = @ - n]
       /\ full' = (n = RecvCap)
    /\ io' = "data_cb"
    /\ UNCHANGED <<threadVars, calls, packetVars, flagVars, ownVars, send_pc, fault>>

\* End of the stream or an error: force_close.
ReadvEnds ==
    /\ IoIn("recv")
    /\ ReadEnds(sock)
    /\ io' = "close"
    /\ UNCHANGED <<threadVars, calls, full, packetVars, flagVars, ownVars, send_pc, sock, fault>>

\* Mutant: one readv per event.
EndDataCb_ReadsOnce ==
    /\ IoIn("data_cb")
    /\ io' = "none"
    /\ UNCHANGED <<threadVars, calls, full, packetVars, flagVars, ownVars, send_pc, sock, fault>>

EndDataCb ==
    /\ IoIn("data_cb")
    /\ io' = IF full THEN "recv" ELSE "none"
    /\ UNCHANGED <<threadVars, calls, full, packetVars, flagVars, ownVars, send_pc, sock, fault>>

-----------------------------------------------------------------------------
(* The posted tasks.                                                         *)

TaskBody(task) == IF task.kind = "enter" THEN "link"
                  ELSE IF task.kind = "flush" THEN "flush_task" ELSE "shutdown"

RunTask ==
    /\ \/ BeginAsync /\ io' = TaskBody(tmp_async_tasks[started + 1])
       \/ BeginSync /\ io' = TaskBody(tmp_sync_tasks[started + 1])
    /\ UNCHANGED <<calls, full, packetVars, flagVars, ownVars, send_pc, sock, fault>>

ShutdownTask ==
    /\ IoIn("shutdown")
    /\ DoShutdown
    /\ io' = "none"
    /\ EndTask
    /\ UNCHANGED <<calls, full, packetVars, has_closed, is_post_flush, ownVars, send_pc, fault>>

\* The lambda of post_flush, up to the flush.
FlushTask ==
    /\ IoIn("flush_task")
    /\ Alive /\ (is_can_write => channel)
    /\ io' = IF is_can_write THEN "splice" ELSE "flush_done"
    /\ UNCHANGED <<threadVars, calls, full, packetVars, flagVars, ownVars, send_pc, sock, fault>>

\* Mutant: the flag is reset only by a flush that could write.
FlushDone_IfWritable ==
    /\ IoIn("flush_done") /\ Alive
    /\ is_post_flush' = (is_post_flush /\ ~is_can_write)
    /\ io' = "none"
    /\ EndTask
    /\ UNCHANGED <<calls, full, packetVars, has_closed, is_can_write, ownVars, send_pc, sock, fault>>

FlushDone ==
    /\ IoIn("flush_done")
    /\ Alive
    /\ is_post_flush' = FALSE
    /\ io' = "none"
    /\ EndTask
    /\ UNCHANGED <<calls, full, packetVars, has_closed, is_can_write, ownVars, send_pc, sock, fault>>

\* Undefined behaviour: the raw pointer dangles, or channel_ is null.
FlushFaults ==
    /\ IoIn("flush_task") \/ IoIn("flush_done")
    /\ \/ ~Alive /\ fault' = "freed_socket_data"
       \/ Alive /\ io = "flush_task" /\ is_can_write /\ ~channel /\ fault' = "null_channel"
    /\ UNCHANGED <<threadVars, ioVars, packetVars, flagVars, ownVars, send_pc, sock>>

-----------------------------------------------------------------------------
(* epoll_socket_channel::flush_buffer.                                       *)

\* Mutants: the swap without its emptiness test; the new packets in front.
Splice_Overwrites ==
    /\ IoIn("splice")
    /\ IF has_closed
       THEN io' = Return /\ UNCHANGED <<send_packet_list, pending_packet_list>>
       ELSE /\ io' = "writev"
            /\ pending_packet_list' = send_packet_list
            /\ send_packet_list' = pending_packet_list
    /\ UNCHANGED <<threadVars, calls, full, head_off, tmp_len, pushed, sent, wire_len,
                   flagVars, ownVars, send_pc, sock, fault>>

Splice_Prepends ==
    /\ IoIn("splice")
    /\ IF has_closed
       THEN io' = Return /\ UNCHANGED <<send_packet_list, pending_packet_list>>
       ELSE /\ io' = "writev"
            /\ pending_packet_list' = send_packet_list \o pending_packet_list
            /\ send_packet_list' = <<>>
    /\ UNCHANGED <<threadVars, calls, full, head_off, tmp_len, pushed, sent, wire_len,
                   flagVars, ownVars, send_pc, sock, fault>>

Splice ==
    /\ IoIn("splice")
    /\ IF has_closed
       THEN /\ io' = Return
            /\ UNCHANGED <<send_packet_list, pending_packet_list>>
       ELSE /\ io' = "writev"
            /\ pending_packet_list' = pending_packet_list \o send_packet_list
            /\ send_packet_list' = <<>>
    /\ UNCHANGED <<threadVars, calls, full, head_off, tmp_len, pushed, sent, wire_len,
                   flagVars, ownVars, send_pc, sock, fault>>

FlushEnds ==
    /\ IoIn("writev") /\ pending_packet_list = <<>>
    /\ io' = Return
    /\ UNCHANGED <<threadVars, calls, full, packetVars, flagVars, ownVars, send_pc, sock, fault>>

\* Mutant: EAGAIN without add_write_event.
WritevEagain_NotArmed ==
    /\ IoIn("writev") /\ pending_packet_list # <<>>
    /\ ~Blocking /\ ~WriteFails(sock) /\ ~sock.writable
    /\ is_can_write' = FALSE
    /\ io' = Return
    /\ UNCHANGED <<threadVars, calls, full, packetVars, has_closed, is_post_flush, ownVars, send_pc,
                   sock, fault>>

WritevEagain ==
    /\ IoIn("writev") /\ pending_packet_list # <<>>
    /\ ~Blocking /\ ~WriteFails(sock) /\ ~sock.writable
    /\ sock' = EpollMod(sock, TRUE)
    /\ is_can_write' = FALSE
    /\ io' = Return
    /\ UNCHANGED <<threadVars, calls, full, packetVars, has_closed, is_post_flush, ownVars, send_pc, fault>>

WritevFails ==
    /\ IoIn("writev") /\ pending_packet_list # <<>>
    /\ WriteFails(sock)
    /\ io' = "close"
    /\ UNCHANGED <<threadVars, calls, full, packetVars, flagVars, ownVars, send_pc, sock, fault>>

\* prepare_send_len.
Prepared ==
    LET n == Len(pending_packet_list) IN
    (IF n < MaxIov THEN n ELSE MaxIov) * PacketLen - head_off

\* A short write fills the send buffer; a blocking socket takes everything.
Writev ==
    /\ IoIn("writev") /\ pending_packet_list # <<>>
    /\ ~WriteFails(sock) /\ sock.writable
    /\ \E n \in 1 .. Prepared, room \in BOOLEAN :
        /\ n < Prepared => ~room /\ ~Blocking
        /\ tmp_len' = n
        /\ wire_len' = wire_len + n
        /\ sock' = [sock EXCEPT !.writable = room]
    /\ io' = "complete"
    /\ UNCHANGED <<threadVars, calls, full, send_packet_list, pending_packet_list, head_off,
                   pushed, sent, flagVars, ownVars, send_pc, fault>>

\* Mutant: tmp_len is not reduced by the packet.
CompletePacket_KeepsLen ==
    /\ IoIn("complete") /\ pending_packet_list # <<>>
    /\ PacketLen - head_off <= tmp_len
    /\ head_off' = 0
    /\ io' = "complete_cb"
    /\ UNCHANGED <<threadVars, calls, full, send_packet_list, pending_packet_list, tmp_len, pushed,
                   sent, wire_len, flagVars, ownVars, send_pc, sock, fault>>

\* The loop over the pending packets: a packet that is out is recycled and its
\* callback runs before it is erased.
CompletePacket ==
    /\ IoIn("complete") /\ pending_packet_list # <<>>
    /\ PacketLen - head_off <= tmp_len
    /\ tmp_len' = tmp_len - (PacketLen - head_off)
    /\ head_off' = 0
    /\ io' = "complete_cb"
    /\ UNCHANGED <<threadVars, calls, full, send_packet_list, pending_packet_list, pushed, sent,
                   wire_len, flagVars, ownVars, send_pc, sock, fault>>

EndCompleteCb ==
    /\ IoIn("complete_cb")
    /\ sent' = Append(sent, Head(pending_packet_list))
    /\ pending_packet_list' = Tail(pending_packet_list)
    /\ io' = "complete"
    /\ UNCHANGED <<threadVars, calls, full, send_packet_list, head_off, tmp_len, pushed, wire_len,
                   flagVars, ownVars, send_pc, sock, fault>>

\* Mutant: < for <= in the test of the packet's length.
KeepRest_OffByOne ==
    /\ IoIn("complete") /\ pending_packet_list # <<>>
    /\ PacketLen - head_off >= tmp_len
    /\ head_off' = head_off + tmp_len
    /\ tmp_len' = 0
    /\ sock' = EpollMod(sock, TRUE)
    /\ is_can_write' = FALSE
    /\ io' = "writev"
    /\ UNCHANGED <<threadVars, calls, full, send_packet_list, pending_packet_list, pushed, sent,
                   wire_len, has_closed, is_post_flush, ownVars, send_pc, fault>>

\* A packet that is not out completely, or not at all: the write event is
\* armed and writev is tried again all the same.
KeepRest ==
    /\ IoIn("complete") /\ pending_packet_list # <<>>
    /\ PacketLen - head_off > tmp_len
    /\ head_off' = head_off + tmp_len
    /\ tmp_len' = 0
    /\ sock' = EpollMod(sock, TRUE)
    /\ is_can_write' = FALSE
    /\ io' = "writev"
    /\ UNCHANGED <<threadVars, calls, full, send_packet_list, pending_packet_list, pushed, sent,
                   wire_len, has_closed, is_post_flush, ownVars, send_pc, fault>>

AllComplete ==
    /\ IoIn("complete") /\ pending_packet_list = <<>>
    /\ io' = "writev"
    /\ UNCHANGED <<threadVars, calls, full, packetVars, flagVars, ownVars, send_pc, sock, fault>>

-----------------------------------------------------------------------------
(* epoll_impl::close_socket and socket_data::close.                          *)

\* Mutants: put_channel is left out; socket_close_notify_cb_ is left out.
CloseSocket_NotCollected ==
    /\ IoIn("close") /\ ~has_closed
    /\ sock' = EpollDel(sock)
    /\ in_map' = FALSE /\ channel' = FALSE
    /\ io' = "disc_cb"
    /\ UNCHANGED <<threadVars, calls, full, packetVars, flagVars, in_collector, held, created,
                   send_pc, fault>>

CloseSocket_KeepsMap ==
    /\ IoIn("close") /\ ~has_closed
    /\ in_collector' = channel
    /\ sock' = EpollDel(sock)
    /\ channel' = FALSE
    /\ io' = "disc_cb"
    /\ UNCHANGED <<threadVars, calls, full, packetVars, flagVars, in_map, held, created, send_pc, fault>>

CloseSocket ==
    /\ IoIn("close") /\ ~has_closed
    /\ in_collector' = channel
    /\ sock' = EpollDel(sock)
    /\ in_map' = FALSE
    /\ channel' = FALSE
    /\ io' = "disc_cb"
    /\ UNCHANGED <<threadVars, calls, full, packetVars, flagVars, held, created, send_pc, fault>>

CloseAgain ==
    /\ IoIn("close") /\ has_closed
    /\ io' = Return
    /\ UNCHANGED <<threadVars, calls, full, packetVars, flagVars, ownVars, send_pc, sock, fault>>

\* Mutant: has_closed_ is not set.
EndDiscCb_NotClosed ==
    /\ IoIn("disc_cb")
    /\ is_can_write' = FALSE
    /\ io' = Return
    /\ UNCHANGED <<threadVars, calls, full, packetVars, has_closed, is_post_flush, ownVars,
                   send_pc, sock, fault>>

EndDiscCb ==
    /\ IoIn("disc_cb")
    /\ has_closed' = TRUE
    /\ is_can_write' = FALSE
    /\ io' = Return
    /\ UNCHANGED <<threadVars, calls, full, packetVars, is_post_flush, ownVars, send_pc, sock, fault>>

Release ==
    /\ ReleaseChannel
    /\ in_collector' = FALSE
    /\ UNCHANGED <<ioVars, packetVars, flagVars, channel, in_map, held, created, send_pc, sock, fault>>

-----------------------------------------------------------------------------
(* The network.                                                              *)

Network(next) ==
    /\ created /\ ~has_closed
    /\ sock' = next
    /\ UNCHANGED <<threadVars, ioVars, packetVars, flagVars, ownVars, send_pc, fault>>

PeerSends == sock.peer = "open" /\ sock.rx_left > 0 /\ Network(DataArrives(sock))
PeerFin == sock.peer = "open" /\ Network(PeerCloses(sock, "fin"))
PeerReset == sock.peer # "rst" /\ Network(PeerCloses(sock, "rst"))
PeerReads == ~sock.writable /\ Network(RoomAgain(sock))

-----------------------------------------------------------------------------
\* Steps of the loop that touch no session.
LoopOnly ==
    /\ \/ CheckRun \/ ClearWakeupFlag \/ SwapAsync \/ ClearAsync \/ SwapSync \/ ClearSync
    /\ UNCHANGED sessionVars

IoProgress ==
    \/ LoopOnly \/ EpollWait \/ EventsDone \/ Release
    \/ DispatchRecv \/ DispatchSend \/ DispatchClose
    \/ LinkChannel \/ LinkFails \/ EndEnterCb
    \/ Readv \/ ReadvEnds \/ EndDataCb
    \/ RunTask \/ ShutdownTask \/ FlushTask \/ FlushDone \/ FlushFaults
    \/ Splice \/ FlushEnds \/ WritevEagain \/ WritevFails \/ Writev
    \/ CompletePacket \/ EndCompleteCb \/ KeepRest \/ AllComplete
    \/ CloseSocket \/ CloseAgain \/ EndDiscCb

WakeupStep(t) == Wakeup(t) /\ UNCHANGED sessionVars

UserStep ==
    \/ AddSessionHere \/ ShutdownNow
    \/ \E t \in Threads : Send(t)
    \/ \E t \in AppThreads : AddSession(t) \/ PostShutdown(t) \/ DropSession(t)

SessionNext ==
    /\ fault = "none"
    /\ \/ IoProgress
       \/ \E t \in Threads : SendStep(t) \/ WakeupStep(t)
       \/ UserStep
       \/ PeerSends \/ PeerFin \/ PeerReset \/ PeerReads

SessionSafety == SessionInit /\ [][SessionNext]_vars

\* Threads are scheduled, callbacks return; the peer goes on reading.
SessionFairness ==
    /\ WF_vars(fault = "none" /\ IoProgress)
    /\ \A t \in Threads : WF_vars(fault = "none" /\ SendStep(t))
    /\ \A t \in Threads : WF_vars(fault = "none" /\ WakeupStep(t))
    /\ WF_vars(fault = "none" /\ PeerReads)

SessionSpec == SessionSafety /\ SessionFairness

-----------------------------------------------------------------------------
(* Properties.                                                               *)

\* The variables have their types; positions stay within a packet.
SessionTypeOK ==
    /\ ThreadTypeOK
    /\ io \in IoStep /\ calls \in Seq({"on_recv", "on_send", "on_close"}) /\ full \in BOOLEAN
    /\ send_packet_list \in Seq(Nat) /\ pending_packet_list \in Seq(Nat) /\ sent \in Seq(Nat)
    /\ pushed \in 0 .. MaxPackets
    /\ head_off \in 0 .. PacketLen - 1 /\ tmp_len \in Nat /\ wire_len \in Nat
    /\ has_closed \in BOOLEAN /\ is_post_flush \in BOOLEAN /\ is_can_write \in BOOLEAN
    /\ channel \in BOOLEAN /\ in_collector \in BOOLEAN /\ in_map \in BOOLEAN
    /\ held \subseteq AppThreads /\ created \in BOOLEAN
    /\ send_pc \in [Threads -> {"idle", "check", "set", "post"}]
    /\ sock \in Socket(MaxData)
    /\ fault \in {"none", "freed_socket_data", "null_channel"}

\* No packet is lost, doubled or overtaken on its way through the two lists of
\* socket_data, whoever sends and however writev splits the data.
PacketFifo ==
    sent \o pending_packet_list \o send_packet_list = [i \in 1 .. pushed |-> i]

\* Every unit the socket took is accounted for: by the packets completed, the
\* part of the first pending one that was removed, and what flush_buffer has
\* still to attribute.  So the bytes on the wire are the packets' bytes, in order.
ByteAccounting ==
    /\ wire_len = PacketLen * (Len(sent) + (IF io = "complete_cb" THEN 1 ELSE 0))
                  + head_off + tmp_len
    /\ tmp_len > 0 => io \in {"complete", "complete_cb"}
    /\ head_off > 0 => pending_packet_list # <<>>

\* "put the channel into the to-delete list so that it is not released at
\* once and crashes" (epoll_impl.ipp:94): while code of the channel runs, or
\* will be called for the event at hand, the channel exists.
ChannelAliveInUse ==
    (\/ calls # <<>>
     \/ io \in {"recv", "data_cb", "splice", "writev", "complete", "complete_cb", "close", "disc_cb"})
        => channel \/ in_collector

\* A socket is closed once, and found in tcp_sessions_ then: the
\* assert(false) of service_thread::remove_tcp_session (service_thread.ipp:43).
SessionInMapAtClose == io = "close" /\ ~has_closed => in_map /\ channel

\* The entries of a tmp list that are not finished.
Unfinished(tmp, phase) ==
    {tmp[i] : i \in {j \in DOMAIN tmp : j > started \/ (j = started /\ loop = phase)}}

FlushAhead ==
    \/ \E t \in Threads : send_pc[t] = "post"
    \/ \E i \in DOMAIN async_tasks : async_tasks[i].kind = "flush"
    \/ \E i \in DOMAIN sync_tasks : sync_tasks[i].kind = "flush"
    \/ \E task \in Unfinished(tmp_async_tasks, "in_async")
                  \cup Unfinished(tmp_sync_tasks, "in_sync") : task.kind = "flush"

\* is_post_flush_ makes every later send return without posting, so a raised
\* flag with no flush ahead would strand the session for good.  It never
\* happens, although check, set and reset of the flag are not atomic.
FlagHasFlush == is_post_flush => FlushAhead

\* tcp_session::send, comment (tcp_session.ipp:51-55): the raw pointer is safe
\* because socket_data is not released before the posted lambda has run.
FlushTaskTargetAlive == fault # "freed_socket_data"

\* Same comment: nor is the channel the lambda flushes.
FlushOnLiveChannel == fault # "null_channel"

\* A packet that is queued goes out, unless the session is closed or shut down:
\* no interleaving of is_post_flush_, EPOLLOUT and is_can_write_ strands it.
QueuedPacketLeaves ==
    \A p \in 1 .. MaxPackets :
        (p <= pushed) ~> (p <= Len(sent) \/ has_closed \/ sock.wr_shut \/ fault # "none")

\* The flag is reset after every post, also when the flush closes the socket.
FlushFlagClears == is_post_flush ~> (~is_post_flush \/ fault # "none")

\* Edge-triggered reads: data that arrives is read, although an edge is
\* reported once.
DataIsRead == (sock.registered /\ sock.rx > 0) ~> (sock.rx = 0 \/ has_closed \/ fault # "none")

\* A peer that goes away is noticed, and the session closed.
DisconnectIsNoticed == (in_map /\ sock.peer # "open") ~> (has_closed \/ fault # "none")

\* After the close, when the application gives up its pointers, everything
\* that keeps the session lets go of it: the map, the channel's cycle with
\* socket_data, the collector, the functors of the task lists.
ClosedSessionFreed == (has_closed /\ held = {}) ~> (~Alive \/ fault # "none")

-----------------------------------------------------------------------------
Sending == INSTANCE OrderedChannel WITH
               Packet <- 1 .. MaxPackets,
               queue <- pending_packet_list \o send_packet_list,
               completed <- sent,
               closed <- has_closed

\* A session is an ordered channel: packets complete in the order of the
\* sends, and none after the close.
ImplementsOrderedChannel == Sending!ChannelSafety
=============================================================================

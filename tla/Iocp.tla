-------------------------------- MODULE Iocp --------------------------------
(***************************************************************************)
(* A tcp_session on Windows: impl_win with its completion port.  At most   *)
(* one WSARecv and, if all goes well, one WSASend are outstanding; their   *)
(* completions wait in the port until run_once dequeues them.  The task    *)
(* executor is the mailbox that Mailbox specifies; the build is one with   *)
(* NDEBUG, and its assertion on cnt is the property FlushHasPackets.       *)
(***************************************************************************)
EXTENDS Integers, Sequences

CONSTANTS SendSites,   \* who sends: "app", one application thread, or "io", the callbacks
          MaxPackets,  \* bound: packets ever sent
          PacketLen,   \* units of a packet
          MaxBufCnt,   \* MAX_BUF_CNT
          MaxData      \* bound: completions of WSARecv with data

ASSUME IocpAssumption ==
    /\ SendSites \subseteq {"app", "io"} /\ MaxPackets \in Nat /\ MaxData \in Nat
    /\ PacketLen \in Nat \ {0} /\ MaxBufCnt \in Nat \ {0}

VARIABLES
    site,       \* who sends
    app,        \* where the application thread is in send; "none" before it has the session
    loop,       \* "port", "tasks", "release"
    io,         \* step inside a handler or task: "none", "test", "splice", "WSASend"
    tasks, due, \* the executor's tasks, how many of them this round runs
    port,       \* completions: the operation, its bytes; 0 is the end, or an error
    recv_out,   \* a WSARecv is outstanding
    send_out,   \* the WSASends outstanding: the unit before them, their length
    send_packet_list, pending_packet_list,
    head_off,   \* units removed from the first pending packet
    pushed, completed, \* packets pushed, packets whose callback has run
    wire,       \* history: units that left the machine
    received,   \* completions with data so far
    has_closed, is_post_flush, is_can_write,
    freed,      \* the collector has released the channels
    fault       \* undefined behaviour that ended the program

portVars == <<port, recv_out, send_out, received>>
listVars == <<send_packet_list, pending_packet_list, head_off, pushed, completed>>
closeVars == <<has_closed, is_can_write>>
loopVars == <<loop, tasks, due, freed, fault>>
iocpVars == <<site, app, io, loopVars, portVars, listVars, wire, closeVars, is_post_flush>>

Fewer(a, b) == IF a < b THEN a ELSE b

-----------------------------------------------------------------------------
(* tcp_session::send.                                                        *)

\* By the application thread, step by step.
Push ==
    /\ site = "app" /\ app = "idle" /\ pushed < MaxPackets /\ fault = "none"
    /\ pushed' = pushed + 1
    /\ send_packet_list' = Append(send_packet_list, pushed + 1)
    /\ app' = "check"
    /\ UNCHANGED <<site, io, loopVars, portVars, pending_packet_list, head_off, completed, wire,
                   closeVars, is_post_flush>>
CheckPostFlush ==
    /\ app = "check" /\ app' = IF is_post_flush THEN "idle" ELSE "set"
    /\ UNCHANGED <<site, io, loopVars, portVars, listVars, wire, closeVars, is_post_flush>>
SetPostFlush ==
    /\ app = "set" /\ app' = "post" /\ is_post_flush' = TRUE
    /\ UNCHANGED <<site, io, loopVars, portVars, listVars, wire, closeVars>>
PostFlush ==
    /\ app = "post" /\ app' = "idle" /\ tasks' = Append(tasks, "flush")
    /\ UNCHANGED <<site, io, loop, due, freed, fault, portVars, listVars, wire, closeVars,
                   is_post_flush>>

\* A callback on the IO thread may send (bound: one packet in each handler).
Callback(rest) ==
    \/ /\ site = "io" /\ pushed < MaxPackets
       /\ pushed' = pushed + 1
       /\ send_packet_list' = Append(send_packet_list, pushed + 1)
       /\ is_post_flush' = TRUE
       /\ tasks' = IF is_post_flush THEN rest ELSE Append(rest, "flush")
    \/ tasks' = rest /\ UNCHANGED <<pushed, send_packet_list, is_post_flush>>

-----------------------------------------------------------------------------
(* The channels.                                                             *)

CloseSocket == has_closed' = TRUE /\ is_can_write' = FALSE

\* start_recv.
StartRecv == \/ recv_out' = TRUE /\ UNCHANGED closeVars
             \/ recv_out' = FALSE /\ CloseSocket

Dequeue(op) == /\ loop = "port" /\ io = "none" /\ fault = "none" /\ ~freed
               /\ port # <<>> /\ Head(port).op = op /\ port' = Tail(port)

\* iocp_recv_channel::do_complete.
RecvComplete ==
    /\ Dequeue("recv")
    /\ IF Head(port).bytes = 0
       THEN CloseSocket /\ UNCHANGED <<recv_out, tasks, pushed, send_packet_list, is_post_flush>>
       ELSE IF has_closed   \* data_callback_ is null, WSARecv fails, closing returns
       THEN UNCHANGED <<recv_out, closeVars, tasks, pushed, send_packet_list, is_post_flush>>
       ELSE StartRecv /\ Callback(tasks)
    /\ UNCHANGED <<site, app, io, loop, due, freed, fault, send_out, received,
                   pending_packet_list, head_off, completed, wire>>

\* Mutant: remove_length is left out.
Complete_KeepsRest(n) ==
    LET out == Fewer((head_off + n) \div PacketLen, Len(pending_packet_list))
    IN /\ completed' = completed + out
       /\ pending_packet_list' = SubSeq(pending_packet_list, out + 1, Len(pending_packet_list))
       /\ head_off' = 0

\* iocp_send_channel::do_complete up to the lock: packets that are out are
\* completed and erased, the next one keeps its rest.
Complete(n) ==
    LET out == Fewer((head_off + n) \div PacketLen, Len(pending_packet_list))
    IN /\ completed' = completed + out
       /\ pending_packet_list' = SubSeq(pending_packet_list, out + 1, Len(pending_packet_list))
       /\ head_off' = IF out = Len(pending_packet_list) THEN 0 ELSE (head_off + n) % PacketLen
SendComplete ==
    /\ Dequeue("send")
    /\ IF Head(port).bytes = 0
       THEN CloseSocket /\ UNCHANGED <<io, listVars, tasks, is_post_flush>>
       ELSE /\ Complete(Head(port).bytes) /\ io' = "test"
            /\ IF completed' > completed THEN Callback(tasks)
               ELSE UNCHANGED <<tasks, pushed, send_packet_list, is_post_flush>>
            /\ UNCHANGED closeVars
    /\ UNCHANGED <<site, app, loop, due, freed, fault, recv_out, send_out, received, wire>>

NothingLeft == send_packet_list = <<>> /\ pending_packet_list = <<>>

\* Mutant: what was sent meanwhile is not looked at.
TestLists_PendingOnly ==
    /\ io = "test"
    /\ IF pending_packet_list = <<>> THEN is_post_flush' = FALSE /\ io' = "none"
                                     ELSE io' = "splice" /\ UNCHANGED is_post_flush
    /\ UNCHANGED <<site, app, loopVars, portVars, listVars, wire, closeVars>>

\* The lock: nothing left, or the next flush.
TestLists ==
    /\ io = "test"
    /\ IF NothingLeft THEN is_post_flush' = FALSE /\ io' = "none"
                      ELSE io' = "splice" /\ UNCHANGED is_post_flush
    /\ UNCHANGED <<site, app, loopVars, portVars, listVars, wire, closeVars>>

\* flush_buffer.
Splice ==
    /\ io = "splice" /\ io' = "WSASend"
    /\ pending_packet_list' = pending_packet_list \o send_packet_list /\ send_packet_list' = <<>>
    /\ UNCHANGED <<site, app, loopVars, portVars, head_off, pushed, completed, wire, closeVars,
                   is_post_flush>>
Prepared == Fewer(Len(pending_packet_list), MaxBufCnt) * PacketLen - head_off
\* It starts, or it fails.  After a close send_channel_ is null and the number
\* of the socket may be another's, so the WSASend is not this session's.
WSASend ==
    /\ io = "WSASend" /\ io' = "none"
    /\ \/ /\ ~has_closed /\ UNCHANGED closeVars
          /\ send_out' = Append(send_out,
                [from |-> completed * PacketLen + head_off,
                 len |-> IF pending_packet_list = <<>> THEN 0 ELSE Prepared])
       \/ CloseSocket /\ UNCHANGED send_out
    /\ UNCHANGED <<site, app, loopVars, port, recv_out, received, listVars, wire, is_post_flush>>

-----------------------------------------------------------------------------
(* The kernel: operations end in any way; a close makes them fail.           *)

EndOf(op, n) == port' = Append(port, [op |-> op, bytes |-> n])
RecvEnds ==
    /\ recv_out /\ recv_out' = FALSE
    /\ \/ EndOf("recv", 0) /\ UNCHANGED received
       \/ ~has_closed /\ received < MaxData /\ received' = received + 1 /\ EndOf("recv", 1)
    /\ UNCHANGED <<site, app, io, loopVars, send_out, listVars, wire, closeVars, is_post_flush>>
SendEnds ==
    /\ send_out # <<>> /\ send_out' = Tail(send_out)
    /\ \E n \in 0 .. IF has_closed THEN 0 ELSE Head(send_out).len :
          /\ EndOf("send", n)
          /\ wire' = wire \o [i \in 1 .. n |-> Head(send_out).from + i]
    /\ UNCHANGED <<site, app, io, loopVars, recv_out, received, listVars, closeVars,
                   is_post_flush>>

-----------------------------------------------------------------------------
(* The loop of service_thread.                                               *)

\* GetQueuedCompletionStatus finds nothing any more; the executor takes its tasks.
PortEmpty ==
    /\ loop = "port" /\ io = "none" /\ port = <<>> /\ fault = "none"
    /\ loop' = "tasks" /\ due' = Len(tasks)
    /\ UNCHANGED <<site, app, io, tasks, freed, fault, portVars, listVars, wire, closeVars,
                   is_post_flush>>
RunsTask(task) == /\ loop = "tasks" /\ io = "none" /\ due > 0 /\ tasks # <<>>
                  /\ Head(tasks) = task /\ due' = due - 1

\* on_tcp_session_enter: a WSARecv that fails closes the session before the
\* user's callback has seen it.
EnterTask ==
    /\ RunsTask("enter") /\ app = "none" /\ app' = "idle" /\ StartRecv /\ Callback(Tail(tasks))
    /\ UNCHANGED <<site, io, loop, freed, fault, port, send_out, received,
                   pending_packet_list, head_off, completed, wire>>
FlushTask ==
    /\ RunsTask("flush") /\ tasks' = Tail(tasks)
    /\ io' = IF is_can_write THEN "splice" ELSE "none"
    /\ UNCHANGED <<site, app, loop, freed, fault, portVars, listVars, wire, closeVars,
                   is_post_flush>>
\* post_shutdown, by a thread that has the session (bound: into an empty queue).
PostShutdown ==
    /\ app = "idle" /\ tasks = <<>> /\ is_can_write /\ tasks' = <<"shutdown">>
    /\ UNCHANGED <<site, app, io, loop, due, freed, fault, portVars, listVars, wire, closeVars,
                   is_post_flush>>
ShutdownTask ==
    /\ RunsTask("shutdown") /\ tasks' = Tail(tasks) /\ is_can_write' = FALSE
    /\ UNCHANGED <<site, app, io, loop, freed, fault, portVars, listVars, wire, has_closed,
                   is_post_flush>>
EndTasks ==
    /\ loop = "tasks" /\ io = "none" /\ due = 0 /\ loop' = "release"
    /\ UNCHANGED <<site, app, io, tasks, due, freed, fault, portVars, listVars, wire, closeVars,
                   is_post_flush>>
\* release_channel: what close_socket has put there.
Release ==
    /\ loop = "release" /\ loop' = "port" /\ freed' = has_closed
    /\ UNCHANGED <<site, app, io, tasks, due, fault, portVars, listVars, wire, closeVars,
                   is_post_flush>>
\* Undefined behaviour: an operation ends after its channel was released.
LateCompletion ==
    /\ loop = "port" /\ freed /\ port # <<>> /\ fault = "none" /\ fault' = "freed_channel"
    /\ UNCHANGED <<site, app, io, loop, tasks, due, freed, portVars, listVars, wire, closeVars,
                   is_post_flush>>

IocpInit ==
    /\ site \in SendSites /\ app = "none" /\ loop = "port" /\ io = "none"
    /\ tasks = <<"enter">> /\ due = 0
    /\ port = <<>> /\ recv_out = FALSE /\ send_out = <<>> /\ received = 0
    /\ send_packet_list = <<>> /\ pending_packet_list = <<>> /\ head_off = 0
    /\ pushed = 0 /\ completed = 0 /\ wire = <<>>
    /\ has_closed = FALSE /\ is_post_flush = FALSE /\ is_can_write = TRUE
    /\ freed = FALSE /\ fault = "none"
IocpNext ==
    \/ Push \/ CheckPostFlush \/ SetPostFlush \/ PostFlush \/ PostShutdown
    \/ RecvComplete \/ SendComplete \/ TestLists \/ Splice \/ WSASend
    \/ RecvEnds \/ SendEnds
    \/ PortEmpty \/ EnterTask \/ FlushTask \/ ShutdownTask \/ EndTasks \/ Release
    \/ LateCompletion
IocpSpec == IocpInit /\ [][IocpNext]_iocpVars

-----------------------------------------------------------------------------
\* Properties.

\* With one sender the peer gets every unit once and in order, however the
\* WSASends are cut, and no packet is completed before its units are out.
WireInOrder ==
    /\ wire = [i \in 1 .. Len(wire) |-> i]
    /\ completed * PacketLen + head_off <= Len(wire)

\* A packet in a list never waits in vain: while the session can write a flush
\* is posted, is running, or a WSASend is on its way to do_complete, or the
\* sender has yet to look at the flag.
PacketHasCarrier ==
    ~NothingLeft /\ is_can_write /\ fault = "none" =>
        \/ \E i \in DOMAIN tasks : tasks[i] = "flush"
        \/ io # "none" \/ send_out # <<>> \/ app \in {"check", "set", "post"}
        \/ \E i \in DOMAIN port : port[i].op = "send"

\* assert(cnt > 0) of flush_buffer.
FlushHasPackets == io = "WSASend" => pending_packet_list # <<>>
=============================================================================

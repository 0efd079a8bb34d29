-------------------------- MODULE TcpSessionProofs --------------------------
(***************************************************************************)
(* Proofs about TcpSession, for any threads, send sites, packet and socket  *)
(* sizes: one writer and one flush at a time; the channel of a session      *)
(* exists while its code runs; a socket that closes is in tcp_sessions_; a  *)
(* flush that a callback posts finds socket_data.                           *)
(***************************************************************************)
EXTENDS TcpSession, ServiceThreadProofs

-----------------------------------------------------------------------------
(* The session leaves the loop's own invariant intact.                       *)

\* Io does one thing at a time in send, whatever the other threads do.
SendPcOK == send_pc \in [Threads -> {"idle", "check", "set", "post"}]

LEMMA LoopPart ==
    ASSUME IoProgress
    PROVE  LoopStep \/ UNCHANGED threadVars
<1> USE DEF LoopStep
<1>1. CASE LoopOnly \/ EpollWait \/ EventsDone \/ Release
    BY <1>1 DEF LoopOnly, EpollWait, EventsDone, Release
<1>2. CASE DispatchRecv \/ DispatchSend \/ DispatchClose
    BY <1>2 DEF DispatchRecv, DispatchSend, DispatchClose
<1>3. CASE LinkChannel \/ LinkFails \/ EndEnterCb
    BY <1>3 DEF LinkChannel, LinkFails, EndEnterCb, ReturnToLoop
<1>4. CASE Readv \/ ReadvEnds \/ EndDataCb
    BY <1>4 DEF Readv, ReadvEnds, EndDataCb
<1>5. CASE RunTask \/ ShutdownTask \/ FlushTask \/ FlushDone \/ FlushFaults
    BY <1>5 DEF RunTask, ShutdownTask, FlushTask, FlushDone, FlushFaults
<1>6. CASE Splice \/ FlushEnds \/ WritevEagain \/ WritevFails \/ Writev
    BY <1>6 DEF Splice, FlushEnds, WritevEagain, WritevFails, Writev
<1>7. CASE CompletePacket \/ EndCompleteCb \/ KeepRest \/ AllComplete
    BY <1>7 DEF CompletePacket, EndCompleteCb, KeepRest, AllComplete
<1>8. CASE CloseSocket \/ CloseAgain \/ EndDiscCb
    BY <1>8 DEF CloseSocket, CloseAgain, EndDiscCb
<1> QED
    BY <1>1, <1>2, <1>3, <1>4, <1>5, <1>6, <1>7, <1>8 DEF IoProgress

LEMMA NetworkPart ==
    ASSUME PeerSends \/ PeerFin \/ PeerReset \/ PeerReads
    PROVE  UNCHANGED <<threadVars, ioVars, packetVars, flagVars, ownVars, send_pc, fault>>
<1> QED
    BY DEF PeerSends, PeerFin, PeerReset, PeerReads, Network

\* What a step of the session is to its thread.
LEMMA ThreadPart ==
    ASSUME [SessionNext]_vars
    PROVE  \/ LoopStep
           \/ \E t \in Threads : Wakeup(t)
           \/ \E t \in Threads, kind \in TaskKind : Post(t, kind)
           \/ UNCHANGED threadVars
<1>1. CASE IoProgress
    BY <1>1, LoopPart
<1>2. ASSUME NEW t \in Threads, SendStep(t)
      PROVE  Post(t, "flush") \/ UNCHANGED threadVars
    BY <1>2 DEF SendStep, CheckPostFlush, SetPostFlush, PostFlush
<1>3. ASSUME NEW t \in Threads, WakeupStep(t) PROVE Wakeup(t)
    BY <1>3 DEF WakeupStep
<1>4. CASE UserStep
    <2>1. CASE AddSessionHere \/ ShutdownNow
        BY <2>1 DEF AddSessionHere, ShutdownNow
    <2>2. ASSUME NEW t \in Threads, Send(t) PROVE UNCHANGED threadVars
        BY <2>2 DEF Send
    <2>3. ASSUME NEW t \in AppThreads, AddSession(t) \/ PostShutdown(t) \/ DropSession(t)
          PROVE  Post(t, "enter") \/ Post(t, "shutdown") \/ UNCHANGED threadVars
        BY <2>3 DEF AddSession, PostShutdown, DropSession
    <2> QED
        BY <1>4, <2>1, <2>2, <2>3, KindAssumption DEF UserStep, Threads
<1>5. CASE PeerSends \/ PeerFin \/ PeerReset \/ PeerReads
    BY <1>5, NetworkPart
<1>6. CASE UNCHANGED vars
    BY <1>6 DEF vars
<1> QED
    BY <1>1, <1>2, <1>3, <1>4, <1>5, <1>6, KindAssumption DEF SessionNext

LEMMA SessionKeepsPassInv == PassInv /\ [SessionNext]_vars => PassInv'
<1> SUFFICES ASSUME PassInv, [SessionNext]_vars PROVE PassInv'
    OBVIOUS
<1>1. CASE LoopStep
    BY <1>1, LoopStepKeepsPassInv
<1>2. ASSUME NEW t \in Threads, Wakeup(t) PROVE PassInv'
    BY <1>2, WakeupKeepsPassInv
<1>3. ASSUME NEW t \in Threads, NEW kind \in TaskKind, Post(t, kind) PROVE PassInv'
    BY <1>3, PostKeepsPassInv
<1>4. CASE UNCHANGED threadVars
    BY <1>4, PassInvStep
<1> QED
    BY <1>1, <1>2, <1>3, <1>4, ThreadPart

LEMMA PassInvOfSession == SessionSafety => []PassInv
<1>1. SessionInit => PassInv
    BY PassInvInit DEF SessionInit
<1> QED
    BY <1>1, SessionKeepsPassInv, PTL DEF SessionSafety

-----------------------------------------------------------------------------
(* A raised is_post_flush_ always has a flush ahead.                         *)

\* The task that runs is not a flush while the handlers of the others run.
RunningKind ==
    io \in {"link", "enter_cb", "shutdown"} =>
        /\ loop = "in_async" => tmp_async_tasks[started].kind # "flush"
        /\ loop = "in_sync" => tmp_sync_tasks[started].kind # "flush"

FlagInv == SendPcOK /\ RunningKind /\ FlagHasFlush

\* A flush that is queued or runs stays so in a step of the loop, unless the
\* step is its end.
LEMMA FlushStaysAhead ==
    ASSUME PassInv, FlushAhead, LoopStep, UNCHANGED send_pc,
           EndTask => /\ loop = "in_async" => tmp_async_tasks[started].kind # "flush"
                      /\ loop = "in_sync" => tmp_sync_tasks[started].kind # "flush"
    PROVE  FlushAhead'
<1> USE DEF FlushAhead, Unfinished, queueVars, IoAt
<1>1. /\ async_tasks \in Seq(Task) /\ tmp_async_tasks \in Seq(Task)
      /\ sync_tasks \in Seq(Task) /\ tmp_sync_tasks \in Seq(Task)
      /\ started \in Nat
    BY LenProperties DEF PassInv, ThreadTypeOK
<1>2. /\ DOMAIN async_tasks = 1 .. Len(async_tasks) /\ DOMAIN sync_tasks = 1 .. Len(sync_tasks)
      /\ DOMAIN tmp_async_tasks = 1 .. Len(tmp_async_tasks)
      /\ DOMAIN tmp_sync_tasks = 1 .. Len(tmp_sync_tasks)
    BY <1>1, LenProperties
<1>3. /\ loop \notin {"async", "in_async"} => tmp_async_tasks = <<>>
      /\ loop \notin {"sync", "in_sync"} => tmp_sync_tasks = <<>>
      /\ loop \notin {"async", "in_async", "sync", "in_sync"} => started = 0
      /\ DOMAIN <<>> = {}
    BY DEF PassInv, SwapsAreClean
<1>4. CASE CheckRun \/ EpollReturn \/ EndEvents \/ ClearWakeupFlag \/ ReleaseChannel
    BY <1>3, <1>4 DEF CheckRun, EpollReturn, EndEvents, ClearWakeupFlag, ReleaseChannel
<1>5. CASE SwapAsync
    BY <1>2, <1>3, <1>5 DEF SwapAsync
<1>6. CASE SwapSync
    BY <1>2, <1>3, <1>6 DEF SwapSync
<1>7. CASE BeginAsync
    BY <1>1, <1>2, <1>3, <1>7 DEF BeginAsync
<1>8. CASE BeginSync
    BY <1>1, <1>2, <1>3, <1>8 DEF BeginSync
<1>9. CASE ClearAsync
    BY <1>1, <1>2, <1>3, <1>9 DEF ClearAsync
<1>10. CASE ClearSync
    BY <1>1, <1>2, <1>3, <1>10 DEF ClearSync
<1>11. CASE EndTask
    BY <1>1, <1>2, <1>3, <1>11 DEF EndTask
<1> QED
    BY <1>4, <1>5, <1>6, <1>7, <1>8, <1>9, <1>10, <1>11 DEF LoopStep

\* Posting puts a flush ahead and leaves those that are.
LEMMA PostedFlushAhead ==
    ASSUME PassInv, NEW t \in Threads, NEW kind \in TaskKind, Post(t, kind)
    PROVE  /\ kind = "flush" => FlushAhead'
           /\ FlushAhead /\ (\A u \in Threads : send_pc[u] # "post") => FlushAhead'
           /\ FlushAhead /\ UNCHANGED send_pc => FlushAhead'
<1> DEFINE x(phases) == [kind |-> kind, late |-> loop \in phases]
<1>1. /\ async_tasks \in Seq(Task) /\ sync_tasks \in Seq(Task)
      /\ x(AfterAsyncSwap) \in Task /\ x(AfterSyncSwap) \in Task
    BY DEF PassInv, ThreadTypeOK, Task
<1>2. ASSUME NEW s \in Seq(Task), NEW e \in Task, e.kind = kind
      PROVE  /\ \A i \in DOMAIN s : i \in DOMAIN Append(s, e) /\ Append(s, e)[i] = s[i]
             /\ \E i \in DOMAIN Append(s, e) : Append(s, e)[i].kind = kind
    <2>1. /\ Append(s, e) \in Seq(Task) /\ Len(Append(s, e)) = Len(s) + 1
          /\ \A i \in 1 .. Len(s) : Append(s, e)[i] = s[i]
          /\ Append(s, e)[Len(s) + 1] = e
        BY AppendProperties
    <2>2. DOMAIN s = 1 .. Len(s) /\ Len(s) \in Nat /\ DOMAIN Append(s, e) = 1 .. Len(s) + 1
        BY <2>1, LenProperties
    <2>3. Len(s) + 1 \in DOMAIN Append(s, e) /\ Append(s, e)[Len(s) + 1].kind = kind
        BY <1>2, <2>1, <2>2
    <2> QED
        BY <2>1, <2>2, <2>3
<1>3. UNCHANGED <<loop, tmp_async_tasks, tmp_sync_tasks, started>>
    BY DEF Post
<1>4. CASE t = Io
    <2>1. sync_tasks' = Append(sync_tasks, x(AfterSyncSwap)) /\ UNCHANGED async_tasks
        BY <1>4 DEF Post
    <2>2. x(AfterSyncSwap).kind = kind
        OBVIOUS
    <2> HIDE DEF x
    <2> QED
        BY <1>1, <1>2, <1>3, <2>1, <2>2 DEF FlushAhead, Unfinished
<1>5. CASE t # Io
    <2>1. async_tasks' = Append(async_tasks, x(AfterAsyncSwap)) /\ UNCHANGED sync_tasks
        BY <1>5 DEF Post
    <2>2. x(AfterAsyncSwap).kind = kind
        OBVIOUS
    <2> HIDE DEF x
    <2> QED
        BY <1>1, <1>2, <1>3, <2>1, <2>2 DEF FlushAhead, Unfinished
<1> QED
    BY <1>4, <1>5

\* Where no flush starts or ends: the flag does not rise, the threads in send
\* and the list of the loop keep what they have.
LEMMA LoopKeepsFlag ==
    ASSUME PassInv, FlagInv, LoopStep, UNCHANGED <<send_pc, is_post_flush>>,
           EndTask => /\ loop = "in_async" => tmp_async_tasks[started].kind # "flush"
                      /\ loop = "in_sync" => tmp_sync_tasks[started].kind # "flush"
    PROVE  FlagHasFlush'
<1> QED
    BY FlushStaysAhead DEF FlagInv, FlagHasFlush

\* The flag and the lists are left alone, and no thread leaves "post".
LEMMA StutterKeepsFlag ==
    ASSUME FlagHasFlush, UNCHANGED <<loop, queueVars, is_post_flush>>,
           \A t \in Threads : send_pc[t] = "post" => send_pc'[t] = "post"
    PROVE  FlagHasFlush'
<1> QED
    BY DEF FlagHasFlush, FlushAhead, Unfinished, queueVars

LEMMA LoopOnlyKeepsFlag ==
    ASSUME PassInv, FlagInv, LoopOnly \/ EpollWait \/ EventsDone \/ Release
    PROVE  FlagInv'
<1>1. LoopStep /\ UNCHANGED <<send_pc, is_post_flush, io>> /\ ~EndTask
    BY DEF LoopOnly, EpollWait, EventsDone, Release, LoopStep, sessionVars, flagVars,
           ioVars, CheckRun, ClearWakeupFlag, SwapAsync, ClearAsync, SwapSync, ClearSync,
           EpollReturn, EndEvents, ReleaseChannel, EndTask, IoAt
<1>2. loop' \notin {"in_async", "in_sync"}
    BY DEF LoopOnly, EpollWait, EventsDone, Release, CheckRun, ClearWakeupFlag, SwapAsync,
           ClearAsync, SwapSync, ClearSync, EpollReturn, EndEvents, ReleaseChannel
<1>3. FlagHasFlush'
    BY <1>1, LoopKeepsFlag
<1> QED
    BY <1>1, <1>2, <1>3 DEF FlagInv, SendPcOK, RunningKind

\* A task that returns and is not a flush.
LEMMA EndTaskKeepsFlag ==
    ASSUME PassInv, FlagInv, io \in {"link", "enter_cb", "shutdown"}, io' = "none",
           ReturnToLoop, UNCHANGED <<send_pc, is_post_flush>>
    PROVE  FlagInv'
<1>1. CASE loop = "events"
    <2>1. UNCHANGED threadVars
        BY <1>1 DEF ReturnToLoop
    <2> QED
        BY <2>1, StutterKeepsFlag DEF threadVars, FlagInv, SendPcOK, RunningKind
<1>2. CASE loop # "events"
    <2>1. EndTask
        BY <1>2 DEF ReturnToLoop
    <2>2. FlagHasFlush'
        BY <2>1, LoopKeepsFlag DEF LoopStep, FlagInv, RunningKind
    <2> QED
        BY <2>2 DEF FlagInv, SendPcOK, RunningKind
<1> QED
    BY <1>1, <1>2

\* A step inside a handler or a task, on the IO thread's side.
LEMMA HandlerKeepsFlag ==
    ASSUME FlagInv, UNCHANGED <<threadVars, is_post_flush, send_pc>>,
           io' \in {"link", "enter_cb", "shutdown"} => (io = "link" \/ io' = io \/ loop = "events")
    PROVE  FlagInv'
<1>1. FlagHasFlush'
    BY StutterKeepsFlag DEF FlagInv, threadVars
<1>2. RunningKind'
    BY DEF FlagInv, RunningKind, threadVars, queueVars
<1> QED
    BY <1>1, <1>2 DEF FlagInv, SendPcOK

LEMMA IoProgressKeepsFlag ==
    ASSUME PassInv, FlagInv, IoProgress
    PROVE  FlagInv'
<1> USE DEF flagVars
<1>1. CASE LoopOnly \/ EpollWait \/ EventsDone \/ Release
    BY <1>1, LoopOnlyKeepsFlag
<1>2. CASE DispatchRecv \/ DispatchSend \/ DispatchClose
    <2>1. UNCHANGED <<threadVars, is_post_flush, send_pc>> /\ io' \in {"recv", "splice", "close"}
        BY <1>2 DEF DispatchRecv, DispatchSend, DispatchClose
    <2> QED
        BY <2>1, HandlerKeepsFlag
<1>3. CASE LinkChannel
    <2>1. UNCHANGED <<threadVars, is_post_flush, send_pc>> /\ io = "link"
        BY <1>3 DEF LinkChannel
    <2> QED
        BY <2>1, HandlerKeepsFlag
<1>4. CASE LinkFails \/ EndEnterCb
    <2>1. /\ io \in {"link", "enter_cb"} /\ io' = "none" /\ ReturnToLoop
          /\ UNCHANGED <<send_pc, is_post_flush>>
        BY <1>4 DEF LinkFails, EndEnterCb, IoIn
    <2> QED
        BY <2>1, EndTaskKeepsFlag
<1>5. CASE Readv \/ ReadvEnds \/ EndDataCb
    <2>1. /\ UNCHANGED <<threadVars, is_post_flush, send_pc>>
          /\ io' \in {"data_cb", "close", "recv", "none"}
        BY <1>5 DEF Readv, ReadvEnds, EndDataCb
    <2> QED
        BY <2>1, HandlerKeepsFlag
<1>6. CASE RunTask
    <2>1. LoopStep /\ ~EndTask /\ UNCHANGED <<send_pc, is_post_flush>>
        BY <1>6 DEF RunTask, LoopStep, BeginAsync, BeginSync, EndTask, IoAt
    <2>2. FlagHasFlush'
        BY <2>1, LoopKeepsFlag
    <2>3. RunningKind'
        BY <1>6 DEF RunTask, BeginAsync, BeginSync, RunningKind, TaskBody
    <2> QED
        BY <2>1, <2>2, <2>3 DEF FlagInv, SendPcOK
<1>7. CASE ShutdownTask
    <2>1. io = "shutdown" /\ io' = "none" /\ EndTask /\ UNCHANGED <<send_pc, is_post_flush>>
        BY <1>7 DEF ShutdownTask, IoIn
    <2>2. ReturnToLoop
        BY <2>1 DEF ReturnToLoop, EndTask
    <2> QED
        BY <2>1, <2>2, EndTaskKeepsFlag
<1>8. CASE FlushTask \/ FlushFaults
    <2>1. /\ UNCHANGED <<threadVars, is_post_flush, send_pc>>
          /\ io' \in {"splice", "flush_done"} \/ io' = io
        BY <1>8 DEF FlushTask, FlushFaults, ioVars
    <2> QED
        BY <2>1, HandlerKeepsFlag
<1>9. CASE FlushDone
    BY <1>9 DEF FlushDone, FlagInv, FlagHasFlush, SendPcOK, RunningKind
<1>10. CASE Splice \/ FlushEnds \/ WritevEagain \/ WritevFails \/ Writev
    <2>1. /\ UNCHANGED <<threadVars, is_post_flush, send_pc>>
          /\ io' \in {"none", "flush_done", "writev", "close", "complete"}
        BY <1>10 DEF Splice, FlushEnds, WritevEagain, WritevFails, Writev, Return
    <2> QED
        BY <2>1, HandlerKeepsFlag
<1>11. CASE CompletePacket \/ EndCompleteCb \/ KeepRest \/ AllComplete
    <2>1. /\ UNCHANGED <<threadVars, is_post_flush, send_pc>>
          /\ io' \in {"complete_cb", "complete", "writev"}
        BY <1>11 DEF CompletePacket, EndCompleteCb, KeepRest, AllComplete
    <2> QED
        BY <2>1, HandlerKeepsFlag
<1>12. CASE CloseSocket \/ CloseAgain \/ EndDiscCb
    <2>1. /\ UNCHANGED <<threadVars, is_post_flush, send_pc>>
          /\ io' \in {"disc_cb", "none", "flush_done"}
        BY <1>12 DEF CloseSocket, CloseAgain, EndDiscCb, Return
    <2> QED
        BY <2>1, HandlerKeepsFlag
<1> QED
    BY <1>1, <1>2, <1>3, <1>4, <1>5, <1>6, <1>7, <1>8, <1>9, <1>10, <1>11, <1>12
    DEF IoProgress

\* Post moves nothing that runs.
LEMMA PostKeepsRunning ==
    ASSUME NEW t \in Threads, NEW kind \in TaskKind, Post(t, kind), RunningKind, io' = io
    PROVE  RunningKind'
<1> QED
    BY DEF Post, RunningKind

\* The three steps of send: the flag rises before the thread is in "post", and
\* leaves "post" by posting.
LEMMA SendKeepsFlag ==
    ASSUME PassInv, FlagInv, NEW t \in Threads, SendStep(t)
    PROVE  FlagInv'
<1> USE DEF FlagInv, flagVars, ioVars
<1>1. CASE CheckPostFlush(t)
    <2>1. SendPcOK'
        BY <1>1 DEF CheckPostFlush, SendPcOK
    <2>2. /\ UNCHANGED <<threadVars, is_post_flush, io>>
          /\ \A u \in Threads : send_pc[u] = "post" => send_pc'[u] = "post"
        BY <1>1 DEF CheckPostFlush, SendPcOK
    <2> QED
        BY <2>1, <2>2, StutterKeepsFlag DEF threadVars, queueVars, RunningKind
<1>2. CASE SetPostFlush(t)
    <2>1. SendPcOK' /\ send_pc'[t] = "post"
        BY <1>2 DEF SetPostFlush, SendPcOK
    <2>2. FlagHasFlush'
        BY <2>1 DEF FlagHasFlush, FlushAhead
    <2> QED
        BY <1>2, <2>1, <2>2 DEF SetPostFlush, RunningKind, threadVars, queueVars
<1>3. CASE PostFlush(t)
    <2>1. SendPcOK'
        BY <1>3 DEF PostFlush, SendPcOK
    <2>2. Post(t, "flush") /\ io' = io
        BY <1>3 DEF PostFlush
    <2>3. FlushAhead'
        BY <2>2, PostedFlushAhead, KindAssumption
    <2> QED
        BY <2>1, <2>2, <2>3, PostKeepsRunning, KindAssumption DEF FlagHasFlush
<1> QED
    BY <1>1, <1>2, <1>3 DEF SendStep

\* Posts that are not of a flush.
LEMMA OtherPostKeepsFlag ==
    ASSUME PassInv, FlagInv, NEW t \in Threads, NEW kind \in TaskKind, Post(t, kind),
           UNCHANGED <<io, is_post_flush, send_pc>>
    PROVE  FlagInv'
<1>1. FlagHasFlush'
    BY PostedFlushAhead DEF FlagInv, FlagHasFlush
<1> QED
    BY <1>1, PostKeepsRunning DEF FlagInv, SendPcOK

LEMMA UserKeepsFlag ==
    ASSUME PassInv, FlagInv, UserStep
    PROVE  FlagInv'
<1> USE DEF flagVars, ioVars
<1>1. CASE AddSessionHere
    <2>1. UNCHANGED <<threadVars, is_post_flush, send_pc>> /\ loop = "events"
        BY <1>1 DEF AddSessionHere, IoAt
    <2> QED
        BY <2>1, HandlerKeepsFlag
<1>2. CASE ShutdownNow
    <2>1. UNCHANGED <<threadVars, is_post_flush, send_pc, io>>
        BY <1>2 DEF ShutdownNow
    <2> QED
        BY <2>1, HandlerKeepsFlag
<1>3. ASSUME NEW t \in Threads, Send(t) PROVE FlagInv'
    <2>1. /\ UNCHANGED <<threadVars, is_post_flush, io>> /\ SendPcOK'
          /\ \A u \in Threads : send_pc[u] = "post" => send_pc'[u] = "post"
        BY <1>3 DEF Send, FlagInv, SendPcOK
    <2> QED
        BY <2>1, StutterKeepsFlag DEF FlagInv, threadVars, queueVars, RunningKind
<1>4. ASSUME NEW t \in AppThreads, AddSession(t) \/ PostShutdown(t) PROVE FlagInv'
    <2>1. /\ Post(t, "enter") \/ Post(t, "shutdown")
          /\ UNCHANGED <<io, is_post_flush, send_pc>>
        BY <1>4 DEF AddSession, PostShutdown, sessionVars
    <2> QED
        BY <2>1, OtherPostKeepsFlag, KindAssumption DEF Threads
<1>5. ASSUME NEW t \in AppThreads, DropSession(t) PROVE FlagInv'
    <2>1. UNCHANGED <<threadVars, is_post_flush, send_pc, io>>
        BY <1>5 DEF DropSession
    <2> QED
        BY <2>1, HandlerKeepsFlag
<1> QED
    BY <1>1, <1>2, <1>3, <1>4, <1>5 DEF UserStep

LEMMA FlagInvStep == PassInv /\ FlagInv /\ [SessionNext]_vars => FlagInv'
<1> SUFFICES ASSUME PassInv, FlagInv, [SessionNext]_vars PROVE FlagInv'
    OBVIOUS
<1>1. CASE IoProgress
    BY <1>1, IoProgressKeepsFlag
<1>2. ASSUME NEW t \in Threads, SendStep(t) PROVE FlagInv'
    BY <1>2, SendKeepsFlag
<1>3. ASSUME NEW t \in Threads, WakeupStep(t) PROVE FlagInv'
    <2>1. UNCHANGED <<loop, queueVars, is_post_flush, send_pc, io>>
        BY <1>3 DEF WakeupStep, Wakeup, ExchangeFlag, WriteEventfd, sessionVars, flagVars, ioVars
    <2>2. FlagHasFlush'
        BY <2>1, StutterKeepsFlag DEF FlagInv
    <2> QED
        BY <2>1, <2>2 DEF FlagInv, SendPcOK, RunningKind, queueVars
<1>4. CASE UserStep
    BY <1>4, UserKeepsFlag
<1>5. CASE PeerSends \/ PeerFin \/ PeerReset \/ PeerReads \/ UNCHANGED vars
    <2>1. UNCHANGED <<threadVars, is_post_flush, send_pc, io>>
        BY <1>5, NetworkPart DEF vars, sessionVars, flagVars, ioVars
    <2> QED
        BY <2>1, HandlerKeepsFlag
<1> QED
    BY <1>1, <1>2, <1>3, <1>4, <1>5 DEF SessionNext

LEMMA FlagInvHolds == SessionSafety => []FlagInv
<1>1. SessionInit => FlagInv
    <2> SUFFICES ASSUME SessionInit PROVE FlagInv
        OBVIOUS
    <2>1. send_pc = [t \in Threads |-> "idle"] /\ io = "none" /\ is_post_flush = FALSE
        BY DEF SessionInit
    <2> QED
        BY <2>1 DEF FlagInv, SendPcOK, RunningKind, FlagHasFlush
<1> QED
    BY <1>1, FlagInvStep, PassInvOfSession, PTL DEF SessionSafety

\* No interleaving of senders with the flush strands the session: whenever
\* is_post_flush_ is up, and so sends post nothing, a flush is still to come.
THEOREM FlagAlwaysHasFlush == SessionSafety => []FlagHasFlush
<1>1. FlagInv => FlagHasFlush
    BY DEF FlagInv
<1> QED
    BY <1>1, FlagInvHolds, PTL

-----------------------------------------------------------------------------
(* The two packet lists are one first-in first-out queue.                    *)

\* After the first test of has_closed_ no step of a flush, and no close, is
\* under way on a session that is closed already.
OpenInUse == io \in {"writev", "complete", "complete_cb", "disc_cb"} => ~has_closed

CallbackHasPacket == io = "complete_cb" => pending_packet_list # <<>>

PacketTypes ==
    /\ send_packet_list \in Seq(Nat) /\ pending_packet_list \in Seq(Nat) /\ sent \in Seq(Nat)
    /\ pushed \in Nat /\ has_closed \in BOOLEAN

QueueInv == PacketTypes /\ OpenInUse /\ CallbackHasPacket /\ PacketFifo

queued == <<send_packet_list, pending_packet_list, sent, pushed, has_closed>>

\* What a step of the session is to its packets: only four steps touch them,
\* or close the session.
LEMMA QueueEffect ==
    ASSUME [SessionNext]_vars, OpenInUse, CallbackHasPacket
    PROVE  /\ OpenInUse' /\ CallbackHasPacket'
           /\ \/ UNCHANGED queued
              \/ \E t \in Threads : Send(t)
              \/ Splice
              \/ EndCompleteCb
              \/ EndDiscCb /\ UNCHANGED packetVars
<1> USE DEF OpenInUse, CallbackHasPacket, queued, packetVars, flagVars, ioVars
<1>1. CASE IoProgress
    <2>1. CASE LoopOnly \/ EpollWait \/ EventsDone \/ Release
        BY <2>1 DEF LoopOnly, EpollWait, EventsDone, Release, sessionVars
    <2>2. CASE DispatchRecv \/ DispatchSend \/ DispatchClose \/ Readv \/ ReadvEnds \/ EndDataCb
        BY <2>2 DEF DispatchRecv, DispatchSend, DispatchClose, Readv, ReadvEnds, EndDataCb
    <2>3. CASE LinkChannel \/ LinkFails \/ EndEnterCb
        BY <2>3 DEF LinkChannel, LinkFails, EndEnterCb
    <2>4. CASE RunTask \/ ShutdownTask \/ FlushTask \/ FlushDone \/ FlushFaults
        BY <2>4 DEF RunTask, ShutdownTask, FlushTask, FlushDone, FlushFaults, TaskBody
    <2>5. CASE Splice
        BY <2>5 DEF Splice, Return, IoIn
    <2>6. CASE FlushEnds \/ WritevEagain \/ WritevFails \/ Writev
        <3>1. /\ io = "writev" /\ io' \in {"none", "flush_done", "close", "complete"}
              /\ UNCHANGED queued
            BY <2>6 DEF FlushEnds, WritevEagain, WritevFails, Writev, Return, IoIn
        <3> QED
            BY <3>1
    <2>7. CASE EndCompleteCb
        BY <2>7 DEF EndCompleteCb, IoIn
    <2>8. CASE CompletePacket \/ KeepRest \/ AllComplete
        <3>1. /\ io = "complete" /\ io' \in {"complete_cb", "writev"}
              /\ io' = "complete_cb" => pending_packet_list # <<>>
              /\ UNCHANGED queued
            BY <2>8 DEF CompletePacket, KeepRest, AllComplete, IoIn
        <3> QED
            BY <3>1
    <2>9. CASE CloseSocket \/ CloseAgain \/ EndDiscCb
        BY <2>9 DEF CloseSocket, CloseAgain, EndDiscCb, Return, IoIn
    <2> QED
        BY <1>1, <2>1, <2>2, <2>3, <2>4, <2>5, <2>6, <2>7, <2>8, <2>9 DEF IoProgress
<1>2. ASSUME NEW t \in Threads, SendStep(t) \/ WakeupStep(t)
      PROVE  UNCHANGED <<queued, io>>
    BY <1>2 DEF SendStep, WakeupStep, CheckPostFlush, SetPostFlush, PostFlush, sessionVars
<1>3. ASSUME NEW t \in Threads, Send(t)
      PROVE  OpenInUse' /\ CallbackHasPacket'
    BY <1>3 DEF Send
<1>4. CASE AddSessionHere \/ ShutdownNow
    BY <1>4 DEF AddSessionHere, ShutdownNow
<1>5. ASSUME NEW t \in AppThreads, AddSession(t) \/ PostShutdown(t) \/ DropSession(t)
      PROVE  UNCHANGED <<queued, io>>
    BY <1>5 DEF AddSession, PostShutdown, DropSession, sessionVars
<1>6. CASE PeerSends \/ PeerFin \/ PeerReset \/ PeerReads
    BY <1>6, NetworkPart
<1>7. CASE UNCHANGED vars
    BY <1>7 DEF vars, sessionVars
<1> QED
    BY <1>1, <1>2, <1>3, <1>4, <1>5, <1>6, <1>7 DEF SessionNext, UserStep

LEMMA PacketsAssociate ==
    ASSUME NEW a \in Seq(Nat), NEW b \in Seq(Nat), NEW c \in Seq(Nat)
    PROVE  (a \o b) \o c = a \o (b \o c)
<1> QED
    BY ConcatAssociative

\* send puts its packet behind all others; the count goes with it.
LEMMA SendKeepsFifo ==
    ASSUME PacketTypes, PacketFifo, NEW t \in Threads, Send(t)
    PROVE  PacketTypes' /\ PacketFifo'
<1>1. /\ pushed' = pushed + 1 /\ send_packet_list' = Append(send_packet_list, pushed + 1)
      /\ UNCHANGED <<pending_packet_list, sent, has_closed>>
    BY DEF Send, flagVars
<1>2. /\ send_packet_list \in Seq(Nat) /\ sent \o pending_packet_list \in Seq(Nat)
      /\ pushed \in Nat /\ pushed + 1 \in Nat
    BY ConcatProperties DEF PacketTypes
<1>3. PacketTypes'
    BY <1>1, <1>2, AppendProperties DEF PacketTypes
<1>4. (sent \o pending_packet_list \o send_packet_list)'
      = Append(sent \o pending_packet_list \o send_packet_list, pushed + 1)
    <2>1. <<pushed + 1>> \in Seq(Nat)
        BY <1>2
    <2>2. Append(send_packet_list, pushed + 1) = send_packet_list \o <<pushed + 1>>
        BY <1>2, AppendIsConcat
    <2>3. Append(sent \o pending_packet_list \o send_packet_list, pushed + 1)
          = sent \o pending_packet_list \o send_packet_list \o <<pushed + 1>>
        BY <1>2, AppendIsConcat, ConcatProperties
    <2>4. \A a, b, c \in Seq(Nat) : (a \o b) \o c = a \o (b \o c)
        BY PacketsAssociate
    <2>5. (sent \o pending_packet_list) \o (send_packet_list \o <<pushed + 1>>)
          = ((sent \o pending_packet_list) \o send_packet_list) \o <<pushed + 1>>
        BY ONLY <1>2, <2>1, <2>4
    <2> QED
        BY ONLY <1>1, <2>2, <2>3, <2>5
<1>5. Append([i \in 1 .. pushed |-> i], pushed + 1) = [i \in 1 .. pushed + 1 |-> i]
    BY <1>2
<1> QED
    BY <1>1, <1>3, <1>4, <1>5 DEF PacketFifo

LEMMA SpliceKeepsFifo ==
    ASSUME PacketTypes, PacketFifo, Splice
    PROVE  /\ PacketTypes' /\ PacketFifo'
           /\ UNCHANGED <<pending_packet_list \o send_packet_list, sent, has_closed>>
<1>1. UNCHANGED <<sent, pushed, has_closed>>
    BY DEF Splice, flagVars
<1>2. /\ send_packet_list \in Seq(Nat) /\ pending_packet_list \in Seq(Nat) /\ sent \in Seq(Nat)
      /\ pending_packet_list \o send_packet_list \in Seq(Nat) /\ <<>> \in Seq(Nat)
    BY ConcatProperties, EmptySeq DEF PacketTypes
<1>3. \/ UNCHANGED <<send_packet_list, pending_packet_list>>
      \/ /\ send_packet_list' = <<>>
         /\ pending_packet_list' = pending_packet_list \o send_packet_list
    BY DEF Splice
<1>4. PacketTypes'
    BY <1>1, <1>2, <1>3 DEF PacketTypes
<1>5. UNCHANGED (pending_packet_list \o send_packet_list)
    BY <1>2, <1>3, ConcatEmptySeq
<1>6. (sent \o pending_packet_list) \o send_packet_list
          = sent \o (pending_packet_list \o send_packet_list)
    BY <1>2, PacketsAssociate
<1>7. (sent' \o pending_packet_list') \o send_packet_list'
          = sent' \o (pending_packet_list' \o send_packet_list')
    <2>1. sent' \in Seq(Nat) /\ pending_packet_list' \in Seq(Nat) /\ send_packet_list' \in Seq(Nat)
        BY <1>4 DEF PacketTypes
    <2> QED
        BY ONLY <2>1, PacketsAssociate
<1> QED
    BY <1>1, <1>4, <1>5, <1>6, <1>7 DEF PacketFifo

\* The head of a list that is cut off and appended elsewhere.
LEMMA HeadMoves ==
    ASSUME NEW a \in Seq(Nat), NEW b \in Seq(Nat), b # <<>>
    PROVE  /\ Append(a, Head(b)) \in Seq(Nat) /\ Tail(b) \in Seq(Nat)
           /\ Append(a, Head(b)) \o Tail(b) = a \o b
<1>1. Head(b) \in Nat /\ Tail(b) \in Seq(Nat) /\ <<Head(b)>> \in Seq(Nat)
    BY HeadTailProperties
<1>2. b = <<Head(b)>> \o Tail(b)
    <2>1. 1 \in 1 .. Len(b) /\ Len(b) \in 1 .. Len(b) /\ Head(b) = b[1]
        BY LenProperties, EmptySeq
    <2> QED
        BY <2>1, SubSeqFull, SubSeqRecursiveFirst, TailIsSubSeq
<1>3. Append(a, Head(b)) = a \o <<Head(b)>> /\ Append(a, Head(b)) \in Seq(Nat)
    BY <1>1, AppendIsConcat, AppendProperties
<1> QED
    BY <1>1, <1>2, <1>3, PacketsAssociate

LEMMA CompletionKeepsFifo ==
    ASSUME PacketTypes, PacketFifo, CallbackHasPacket, EndCompleteCb
    PROVE  PacketTypes' /\ PacketFifo'
<1>1. /\ sent' = Append(sent, Head(pending_packet_list))
      /\ pending_packet_list' = Tail(pending_packet_list)
      /\ UNCHANGED <<send_packet_list, pushed, has_closed>> /\ pending_packet_list # <<>>
    BY DEF EndCompleteCb, IoIn, CallbackHasPacket, flagVars
<1>2. PacketTypes' /\ UNCHANGED (sent \o pending_packet_list)
    BY <1>1, HeadMoves DEF PacketTypes
<1> QED
    BY <1>1, <1>2 DEF PacketFifo

LEMMA QueueInvStep == QueueInv /\ [SessionNext]_vars => QueueInv'
<1> SUFFICES ASSUME QueueInv, [SessionNext]_vars PROVE QueueInv'
    OBVIOUS
<1>1. CASE UNCHANGED queued
    BY <1>1, QueueEffect DEF QueueInv, PacketTypes, PacketFifo, queued
<1>2. CASE EndDiscCb /\ UNCHANGED packetVars
    <2>1. has_closed' = TRUE
        BY <1>2 DEF EndDiscCb
    <2> QED
        BY <1>2, <2>1, QueueEffect DEF QueueInv, PacketTypes, PacketFifo, packetVars
<1> QED
    BY <1>1, <1>2, QueueEffect, SendKeepsFifo, SpliceKeepsFifo, CompletionKeepsFifo DEF QueueInv

LEMMA QueueInvHolds == SessionSafety => []QueueInv
<1>1. SessionInit => QueueInv
    <2> SUFFICES ASSUME SessionInit PROVE QueueInv
        OBVIOUS
    <2>1. /\ send_packet_list = <<>> /\ pending_packet_list = <<>> /\ sent = <<>>
          /\ pushed = 0 /\ has_closed = FALSE /\ io = "none"
        BY DEF SessionInit
    <2>2. <<>> \o <<>> \o <<>> = [i \in 1 .. 0 |-> i]
        BY EmptySeq
    <2> QED
        BY <2>1, <2>2, EmptySeq DEF QueueInv, PacketTypes, OpenInUse, CallbackHasPacket, PacketFifo
<1> QED
    BY <1>1, QueueInvStep, PTL DEF SessionSafety

\* No packet is lost, doubled or overtaken between send and its completion,
\* whichever threads send and however the flushes interleave.
THEOREM PacketsStayInOrder == SessionSafety => []PacketFifo
<1>1. QueueInv => PacketFifo
    BY DEF QueueInv
<1> QED
    BY <1>1, QueueInvHolds, PTL

-----------------------------------------------------------------------------
(* A session implements an ordered channel.                                  *)

LEMMA ChannelInitially == SessionInit => Sending!ChannelInit
<1> SUFFICES ASSUME SessionInit PROVE Sending!ChannelInit
    OBVIOUS
<1>1. /\ send_packet_list = <<>> /\ pending_packet_list = <<>> /\ sent = <<>>
      /\ has_closed = FALSE
    BY DEF SessionInit
<1>2. <<>> \o <<>> = <<>>
    BY EmptySeq, ConcatEmptySeq
<1> QED
    BY <1>1, <1>2 DEF Sending!ChannelInit

LEMMA ChannelStep ==
    ASSUME QueueInv, [SessionNext]_vars
    PROVE  Sending!ChannelNext \/ UNCHANGED Sending!channelVars
<1> USE DEF Sending!ChannelNext, Sending!channelVars
<1>1. send_packet_list \in Seq(Nat) /\ pending_packet_list \in Seq(Nat)
    BY DEF QueueInv, PacketTypes
<1>2. CASE UNCHANGED queued
    BY <1>2 DEF queued
<1>3. ASSUME NEW t \in Threads, Send(t) PROVE Sending!Enqueue
    <2>1. /\ pushed + 1 \in 1 .. MaxPackets /\ pushed + 1 \in Nat
          /\ send_packet_list' = Append(send_packet_list, pushed + 1)
          /\ UNCHANGED <<pending_packet_list, sent, has_closed>>
        BY <1>3, SizeAssumption DEF Send, flagVars, QueueInv, PacketTypes
    <2>2. (pending_packet_list \o send_packet_list)'
          = Append(pending_packet_list \o send_packet_list, pushed + 1)
        BY <1>1, <2>1, PostGoesLast
    <2> QED
        BY <2>1, <2>2 DEF Sending!Enqueue
<1>4. CASE Splice
    BY <1>4, SpliceKeepsFifo DEF QueueInv
<1>5. CASE EndCompleteCb
    <2>1. /\ pending_packet_list # <<>> /\ ~has_closed
          /\ sent' = Append(sent, Head(pending_packet_list))
          /\ pending_packet_list' = Tail(pending_packet_list)
          /\ UNCHANGED <<send_packet_list, has_closed>>
        BY <1>5 DEF EndCompleteCb, IoIn, flagVars, QueueInv, OpenInUse, CallbackHasPacket
    <2> QED
        BY <1>1, <2>1, TailOfConcat DEF Sending!Complete
<1>6. CASE EndDiscCb /\ UNCHANGED packetVars
    <2>1. ~has_closed /\ has_closed' = TRUE
        BY <1>6 DEF EndDiscCb, IoIn, QueueInv, OpenInUse
    <2> QED
        BY <1>6, <2>1 DEF packetVars, Sending!CloseChannel
<1> QED
    BY <1>2, <1>3, <1>4, <1>5, <1>6, QueueEffect DEF QueueInv

\* Whatever threads do, a session hands out completions as an ordered channel
\* does: one per packet, in the order of the sends, none after the close.
THEOREM SessionIsOrderedChannel == SessionSafety => ImplementsOrderedChannel
<1>1. QueueInv /\ [SessionNext]_vars => [Sending!ChannelNext]_(Sending!channelVars)
    BY ChannelStep
<1> QED
    BY <1>1, ChannelInitially, QueueInvHolds, PTL
    DEF SessionSafety, ImplementsOrderedChannel, Sending!ChannelSafety

-----------------------------------------------------------------------------
(* Every unit on the wire is accounted for.                                  *)

\* Handlers and tasks run only where the loop calls them.
IoInLoop ==
    /\ io # "none" => InHandler
    /\ calls # <<>> => loop = "events"

LEMMA IoInLoopStep == IoInLoop /\ [SessionNext]_vars => IoInLoop'
<1> SUFFICES ASSUME IoInLoop, [SessionNext]_vars PROVE IoInLoop'
    OBVIOUS
<1> USE DEF IoInLoop, InHandler, ioVars
<1>1. CASE IoProgress
    <2>1. CASE LoopOnly \/ EpollWait \/ EventsDone \/ Release
        BY <2>1 DEF LoopOnly, EpollWait, EventsDone, Release, sessionVars, CheckRun,
                    ClearWakeupFlag, SwapAsync, ClearAsync, SwapSync, ClearSync,
                    EpollReturn, EndEvents, ReleaseChannel, IoAt
    <2>2. CASE DispatchRecv \/ DispatchSend \/ DispatchClose
        <3>1. UNCHANGED loop /\ calls # <<>>
            BY <2>2 DEF DispatchRecv, DispatchSend, DispatchClose, threadVars
        <3> QED
            BY <3>1
    <2>3. CASE Readv \/ ReadvEnds \/ EndDataCb
        BY <2>3 DEF Readv, ReadvEnds, EndDataCb, IoIn, threadVars
    <2>4. CASE LinkChannel \/ LinkFails \/ EndEnterCb \/ ShutdownTask \/ FlushTask \/ FlushDone
        BY <2>4 DEF LinkChannel, LinkFails, EndEnterCb, ShutdownTask, FlushTask, FlushDone,
                    ReturnToLoop, EndTask, IoIn, threadVars
    <2>5. CASE RunTask
        BY <2>5 DEF RunTask, BeginAsync, BeginSync, IoAt
    <2>6. CASE Splice \/ FlushEnds \/ WritevEagain \/ WritevFails \/ Writev \/ FlushFaults
        BY <2>6 DEF Splice, FlushEnds, WritevEagain, WritevFails, Writev, FlushFaults, IoIn, threadVars
    <2>7. CASE CompletePacket \/ EndCompleteCb \/ KeepRest \/ AllComplete
        BY <2>7 DEF CompletePacket, EndCompleteCb, KeepRest, AllComplete, IoIn, threadVars
    <2>8. CASE CloseSocket \/ CloseAgain \/ EndDiscCb
        BY <2>8 DEF CloseSocket, CloseAgain, EndDiscCb, IoIn, threadVars
    <2> QED
        BY <1>1, <2>1, <2>2, <2>3, <2>4, <2>5, <2>6, <2>7, <2>8 DEF IoProgress
<1>2. ASSUME NEW t \in Threads, SendStep(t) \/ WakeupStep(t)
      PROVE  UNCHANGED <<loop, io, calls>>
    BY <1>2 DEF SendStep, WakeupStep, Wakeup, ExchangeFlag, WriteEventfd, CheckPostFlush,
                SetPostFlush, PostFlush, Post, sessionVars, threadVars
<1>3. CASE UserStep
    BY <1>3 DEF UserStep, Send, AddSessionHere, ShutdownNow, AddSession, PostShutdown,
                DropSession, Post, IoAt, sessionVars, threadVars
<1>4. CASE PeerSends \/ PeerFin \/ PeerReset \/ PeerReads \/ UNCHANGED vars
    BY <1>4, NetworkPart DEF vars, sessionVars, threadVars
<1> QED
    BY <1>1, <1>2, <1>3, <1>4 DEF SessionNext

\* Products with a length, as far as the accounting needs them.
LEMMA Products ==
    ASSUME NEW k \in Nat, NEW n \in Nat
    PROVE  /\ k * n \in Nat
           /\ k * 0 = 0
           /\ k * (n + 1) = k * n + k
           /\ \A m \in Nat : m <= n => m * k <= k * n
<1> QED
    OBVIOUS

ByteTypes ==
    /\ head_off \in 0 .. PacketLen - 1 /\ tmp_len \in Nat /\ wire_len \in Nat

\* What flush_buffer attributes to packets is never more than is pending.
Attributable ==
    /\ io = "complete" => head_off + tmp_len <= PacketLen * Len(pending_packet_list)
    /\ io = "complete_cb" => /\ head_off = 0
                             /\ tmp_len <= PacketLen * Len(Tail(pending_packet_list))

ByteInv == ByteTypes /\ ByteAccounting /\ Attributable

counted == <<head_off, tmp_len, wire_len, sent, pending_packet_list>>
Counting == {"complete", "complete_cb"}

\* What a step of the session is to the accounting.
LEMMA ByteEffect ==
    ASSUME [SessionNext]_vars, IoInLoop
    PROVE  \/ UNCHANGED counted /\ (io' = io \/ (io \notin Counting /\ io' \notin Counting))
           \/ Splice \/ Writev
           \/ CompletePacket \/ EndCompleteCb \/ KeepRest \/ AllComplete
<1> USE DEF counted, Counting, packetVars, ioVars
<1>1. CASE IoProgress
    <2>1. CASE LoopOnly \/ EpollWait \/ EventsDone \/ Release
        BY <2>1 DEF LoopOnly, EpollWait, EventsDone, Release, sessionVars
    <2>2. CASE DispatchRecv \/ DispatchSend \/ DispatchClose \/ Readv \/ ReadvEnds \/ EndDataCb
        BY <2>2 DEF DispatchRecv, DispatchSend, DispatchClose, Readv, ReadvEnds, EndDataCb, IoIn
    <2>3. CASE LinkChannel \/ LinkFails \/ EndEnterCb
        BY <2>3 DEF LinkChannel, LinkFails, EndEnterCb, IoIn
    <2>4. CASE RunTask
        <3>1. io = "none" /\ UNCHANGED counted
            BY <2>4 DEF RunTask, BeginAsync, BeginSync, IoAt, IoInLoop, InHandler
        <3> QED
            BY <2>4, <3>1 DEF RunTask, TaskBody
    <2>5. CASE ShutdownTask \/ FlushTask \/ FlushDone \/ FlushFaults
        BY <2>5 DEF ShutdownTask, FlushTask, FlushDone, FlushFaults, IoIn
    <2>6. CASE FlushEnds \/ WritevEagain \/ WritevFails
        BY <2>6 DEF FlushEnds, WritevEagain, WritevFails, Return, IoIn
    <2>7. CASE CloseSocket \/ CloseAgain \/ EndDiscCb
        BY <2>7 DEF CloseSocket, CloseAgain, EndDiscCb, Return, IoIn
    <2> QED
        BY <1>1, <2>1, <2>2, <2>3, <2>4, <2>5, <2>6, <2>7 DEF IoProgress
<1>2. ASSUME NEW t \in Threads, SendStep(t) \/ WakeupStep(t)
      PROVE  UNCHANGED <<counted, io>>
    BY <1>2 DEF SendStep, WakeupStep, CheckPostFlush, SetPostFlush, PostFlush, sessionVars
<1>3. CASE UserStep
    BY <1>3 DEF UserStep, Send, AddSessionHere, ShutdownNow, AddSession, PostShutdown,
                DropSession, sessionVars
<1>4. CASE PeerSends \/ PeerFin \/ PeerReset \/ PeerReads \/ UNCHANGED vars
    BY <1>4, NetworkPart DEF vars, sessionVars
<1> QED
    BY <1>1, <1>2, <1>3, <1>4 DEF SessionNext

LEMMA ByteInvStep == ByteInv /\ QueueInv /\ IoInLoop /\ [SessionNext]_vars => ByteInv'
<1> SUFFICES ASSUME ByteInv, QueueInv, IoInLoop, [SessionNext]_vars PROVE ByteInv'
    OBVIOUS
<1> USE DEF ByteInv, ByteTypes, ByteAccounting, Attributable
<1> DEFINE total(n) == PacketLen * n
<1>1. /\ PacketLen \in Nat \ {0} /\ MaxIov \in Nat \ {0}
      /\ pending_packet_list \in Seq(Nat) /\ send_packet_list \in Seq(Nat) /\ sent \in Seq(Nat)
      /\ Len(pending_packet_list) \in Nat /\ Len(sent) \in Nat
    BY SizeAssumption, LenProperties DEF QueueInv, PacketTypes
<1>2. CASE UNCHANGED counted /\ (io' = io \/ (io \notin Counting /\ io' \notin Counting))
    BY <1>2 DEF counted, Counting
<1>3. CASE Splice
    <2>1. /\ io = "splice" /\ io' \in {"none", "flush_done", "writev"}
          /\ UNCHANGED <<head_off, tmp_len, wire_len, sent>>
        BY <1>3 DEF Splice, IoIn, Return
    <2>2. pending_packet_list # <<>> => pending_packet_list' # <<>>
        BY <1>1, <1>3, TailOfConcat DEF Splice
    <2> QED
        BY <2>1, <2>2
<1>4. CASE Writev
    <2>1. PICK n \in 1 .. Prepared : tmp_len' = n /\ wire_len' = wire_len + n
        BY <1>4 DEF Writev
    <2>2. /\ io = "writev" /\ io' = "complete" /\ pending_packet_list # <<>>
          /\ UNCHANGED <<head_off, sent, pending_packet_list>>
        BY <1>4 DEF Writev, IoIn
    <2>3. /\ Prepared \in Int
          /\ Prepared + head_off <= total(Len(pending_packet_list))
        <3>1. PICK m \in Nat : m <= Len(pending_packet_list) /\ Prepared = m * PacketLen - head_off
            BY <1>1 DEF Prepared
        <3>2. m * PacketLen <= total(Len(pending_packet_list)) /\ m * PacketLen \in Nat
            BY <1>1, <3>1, Products
        <3> HIDE DEF total
        <3> QED
            BY <3>1, <3>2
    <2>4. total(Len(sent)) \in Nat /\ total(Len(pending_packet_list)) \in Nat
        BY <1>1, Products
    <2>5. wire_len = total(Len(sent)) + head_off /\ tmp_len = 0
        BY <1>1, <2>2, <2>4
    <2> HIDE DEF total
    <2>6. wire_len' = total(Len(sent)) + head_off + tmp_len'
        BY <1>1, <2>1, <2>3, <2>4, <2>5
    <2>7. head_off + tmp_len' <= total(Len(pending_packet_list)) /\ tmp_len' \in Nat /\ wire_len' \in Nat
        BY <1>1, <2>1, <2>3, <2>4, <2>5
    <2> QED
        BY <1>1, <2>2, <2>6, <2>7 DEF total
<1>5. CASE CompletePacket
    <2>1. /\ io = "complete" /\ io' = "complete_cb" /\ pending_packet_list # <<>>
          /\ PacketLen - head_off <= tmp_len /\ tmp_len' = tmp_len - (PacketLen - head_off)
          /\ head_off' = 0 /\ UNCHANGED <<wire_len, sent, pending_packet_list>>
        BY <1>5 DEF CompletePacket, IoIn
    <2>2. /\ Len(Tail(pending_packet_list)) \in Nat
          /\ Len(pending_packet_list) = Len(Tail(pending_packet_list)) + 1
        BY <1>1, <2>1, HeadTailProperties, EmptySeq
    <2>3. /\ total(Len(sent)) \in Nat /\ total(Len(sent) + 1) = total(Len(sent)) + PacketLen
          /\ total(Len(Tail(pending_packet_list))) \in Nat
          /\ total(Len(pending_packet_list)) = total(Len(Tail(pending_packet_list))) + PacketLen
        BY <1>1, <2>2, Products
    <2>4. Len(sent) + 0 = Len(sent)
        BY <1>1
    <2>5. /\ wire_len = total(Len(sent)) + head_off + tmp_len
          /\ head_off + tmp_len <= total(Len(pending_packet_list))
          /\ head_off \in Nat /\ tmp_len \in Nat /\ head_off <= PacketLen
        BY <1>1, <2>1, <2>4
    <2> HIDE DEF total
    <2>6. /\ wire_len' = total(Len(sent) + 1) + head_off' + tmp_len' /\ tmp_len' \in Nat
          /\ tmp_len' <= total(Len(Tail(pending_packet_list)))
        <3>1. /\ wire_len = total(Len(sent)) + head_off + tmp_len
              /\ wire_len' = wire_len /\ head_off' = 0
              /\ tmp_len' = tmp_len - (PacketLen - head_off) /\ PacketLen - head_off <= tmp_len
              /\ PacketLen \in Nat
            BY <1>1, <2>1, <2>5
        <3> QED
            BY ONLY <2>3, <2>5, <3>1
    <2> QED
        BY <1>1, <2>1, <2>6 DEF total
<1>6. CASE EndCompleteCb
    <2>1. /\ io = "complete_cb" /\ io' = "complete" /\ pending_packet_list # <<>>
          /\ sent' = Append(sent, Head(pending_packet_list))
          /\ pending_packet_list' = Tail(pending_packet_list)
          /\ UNCHANGED <<wire_len, head_off, tmp_len>>
        BY <1>6 DEF EndCompleteCb, IoIn, QueueInv, CallbackHasPacket
    <2>2. Len(sent') = Len(sent) + 1 /\ Len(sent) + 1 + 0 = Len(sent) + 1
        BY <1>1, <2>1, HeadTailProperties, AppendProperties
    <2> QED
        BY <1>1, <2>1, <2>2
<1>7. CASE KeepRest
    <2>1. /\ io = "complete" /\ io' = "writev" /\ pending_packet_list # <<>>
          /\ PacketLen - head_off > tmp_len /\ head_off' = head_off + tmp_len /\ tmp_len' = 0
          /\ UNCHANGED <<wire_len, sent, pending_packet_list>>
        BY <1>7 DEF KeepRest, IoIn
    <2>2. total(Len(sent) + 0) \in Nat
        BY <1>1, Products
    <2>3. wire_len = total(Len(sent) + 0) + head_off + tmp_len
        BY <2>1
    <2> HIDE DEF total
    <2>4. wire_len' = total(Len(sent) + 0) + head_off' + tmp_len'
        BY <1>1, <2>1, <2>2, <2>3
    <2> QED
        BY <1>1, <2>1, <2>4 DEF total
<1>8. CASE AllComplete
    <2>1. /\ io = "complete" /\ io' = "writev" /\ pending_packet_list = <<>>
          /\ UNCHANGED <<head_off, tmp_len, wire_len, sent, pending_packet_list>>
        BY <1>8 DEF AllComplete, IoIn, packetVars
    <2>2. Len(pending_packet_list) = 0 /\ total(Len(pending_packet_list)) = 0
        BY <1>1, <2>1, EmptySeq, Products
    <2>3. head_off = 0 /\ tmp_len = 0
        BY <1>1, <2>1, <2>2
    <2> QED
        BY <1>1, <2>1, <2>3
<1> QED
    BY <1>2, <1>3, <1>4, <1>5, <1>6, <1>7, <1>8, ByteEffect

LEMMA ByteInvHolds == SessionSafety => []ByteInv
<1>1. SessionInit => ByteInv /\ IoInLoop
    <2> SUFFICES ASSUME SessionInit PROVE ByteInv /\ IoInLoop
        OBVIOUS
    <2>1. /\ io = "none" /\ calls = <<>> /\ head_off = 0 /\ tmp_len = 0 /\ wire_len = 0 /\ sent = <<>>
          /\ PacketLen \in Nat \ {0}
        BY SizeAssumption DEF SessionInit
    <2>2. Len(<<>>) + 0 = 0 /\ PacketLen * 0 = 0
        BY <2>1, EmptySeq
    <2> QED
        BY <2>1, <2>2 DEF ByteInv, ByteTypes, ByteAccounting, Attributable, IoInLoop
<1> QED
    BY <1>1, ByteInvStep, IoInLoopStep, QueueInvHolds, PTL DEF SessionSafety

\* The units the socket took are those of the completed packets and a part of
\* the next one, for any sizes and any way writev splits the data.
THEOREM BytesAccounted == SessionSafety => []ByteAccounting
<1>1. ByteInv => ByteAccounting
    BY DEF ByteInv
<1> QED
    BY <1>1, ByteInvHolds, PTL

-----------------------------------------------------------------------------
(* The session uses its thread as any code may.                              *)

\* A send on the IO thread is a callback's, and lasts no longer than it; and
\* nothing in a session stops the thread.
ThreadUse ==
    /\ SendPcOK /\ IoInLoop
    /\ send_pc[Io] # "idle" => io \in Callback
    /\ owner # "joined"

\* A step of the IO thread leaves no callback that is in the middle of a send.
LEMMA CallbackWaitsForSend ==
    ASSUME IoProgress, send_pc[Io] # "idle", io \in Callback, IoInLoop
    PROVE  io' = io
<1> USE DEF ioVars, sessionVars, IoIn, Callback
<1> InHandler
    BY DEF IoInLoop
<1>1. CASE LoopOnly \/ EpollWait \/ EventsDone \/ Release
    BY <1>1 DEF LoopOnly, EpollWait, EventsDone, Release
<1>2. CASE DispatchRecv \/ DispatchSend \/ DispatchClose
    BY <1>2 DEF DispatchRecv, DispatchSend, DispatchClose
<1>3. CASE LinkChannel \/ LinkFails \/ EndEnterCb
    BY <1>3 DEF LinkChannel, LinkFails, EndEnterCb
<1>4. CASE Readv \/ ReadvEnds \/ EndDataCb
    BY <1>4 DEF Readv, ReadvEnds, EndDataCb
<1>5. CASE RunTask
    BY <1>5 DEF RunTask, BeginAsync, BeginSync, IoAt, InHandler
<1>6. CASE ShutdownTask \/ FlushTask \/ FlushDone \/ FlushFaults
    BY <1>6 DEF ShutdownTask, FlushTask, FlushDone, FlushFaults
<1>7. CASE Splice \/ FlushEnds \/ WritevEagain \/ WritevFails \/ Writev
    BY <1>7 DEF Splice, FlushEnds, WritevEagain, WritevFails, Writev
<1>8. CASE CompletePacket \/ EndCompleteCb \/ KeepRest \/ AllComplete
    BY <1>8 DEF CompletePacket, EndCompleteCb, KeepRest, AllComplete
<1>9. CASE CloseSocket \/ CloseAgain \/ EndDiscCb
    BY <1>9 DEF CloseSocket, CloseAgain, EndDiscCb
<1> QED
    BY <1>1, <1>2, <1>3, <1>4, <1>5, <1>6, <1>7, <1>8, <1>9 DEF IoProgress

\* The IO thread does not touch where it is in send.
LEMMA IoKeepsSendPc == ASSUME IoProgress PROVE UNCHANGED send_pc
<1> USE DEF sessionVars
<1>1. CASE LoopOnly \/ EpollWait \/ EventsDone \/ Release \/ RunTask
    BY <1>1 DEF LoopOnly, EpollWait, EventsDone, Release, RunTask
<1>2. CASE DispatchRecv \/ DispatchSend \/ DispatchClose \/ Readv \/ ReadvEnds \/ EndDataCb
    BY <1>2 DEF DispatchRecv, DispatchSend, DispatchClose, Readv, ReadvEnds, EndDataCb
<1>3. CASE LinkChannel \/ LinkFails \/ EndEnterCb
    BY <1>3 DEF LinkChannel, LinkFails, EndEnterCb
<1>4. CASE ShutdownTask \/ FlushTask \/ FlushDone \/ FlushFaults
    BY <1>4 DEF ShutdownTask, FlushTask, FlushDone, FlushFaults
<1>5. CASE Splice \/ FlushEnds \/ WritevEagain \/ WritevFails \/ Writev
    BY <1>5 DEF Splice, FlushEnds, WritevEagain, WritevFails, Writev
<1>6. CASE CompletePacket \/ EndCompleteCb \/ KeepRest \/ AllComplete
    BY <1>6 DEF CompletePacket, EndCompleteCb, KeepRest, AllComplete
<1>7. CASE CloseSocket \/ CloseAgain \/ EndDiscCb
    BY <1>7 DEF CloseSocket, CloseAgain, EndDiscCb
<1> QED
    BY <1>1, <1>2, <1>3, <1>4, <1>5, <1>6, <1>7 DEF IoProgress

LEMMA ThreadUseStep == ThreadUse /\ [SessionNext]_vars => ThreadUse'
<1> SUFFICES ASSUME ThreadUse, [SessionNext]_vars PROVE ThreadUse'
    OBVIOUS
<1>1. IoInLoop'
    BY IoInLoopStep DEF ThreadUse
<1>2. owner' = owner
    <2>1. LoopStep => UNCHANGED owner
        BY DEF LoopStep, CheckRun, EpollReturn, EndEvents, ClearWakeupFlag, SwapAsync, BeginAsync,
               ClearAsync, SwapSync, BeginSync, ClearSync, EndTask, ReleaseChannel, ownerVars
    <2>2. \A t \in Threads : Wakeup(t) => UNCHANGED owner
        BY DEF Wakeup, ExchangeFlag, WriteEventfd, ownerVars
    <2>3. \A t \in Threads, kind \in TaskKind : Post(t, kind) => UNCHANGED owner
        BY DEF Post, ownerVars
    <2> QED
        BY <2>1, <2>2, <2>3, ThreadPart DEF threadVars, ownerVars
<1>3. SendPcOK' /\ (send_pc'[Io] # "idle" => io' \in Callback)
    <2> USE DEF ThreadUse, SendPcOK, Threads
    <2>1. CASE IoProgress
        <3>1. UNCHANGED send_pc
            BY <2>1, IoKeepsSendPc
        <3> QED
            BY <2>1, <3>1, CallbackWaitsForSend
    <2>2. ASSUME NEW t \in Threads, SendStep(t)
          PROVE  SendPcOK' /\ (send_pc'[Io] # "idle" => io' \in Callback)
        <3>1. io' = io
            BY <2>2 DEF SendStep, CheckPostFlush, SetPostFlush, PostFlush, ioVars
        <3>2. \E next \in {"idle", "set", "post"} : send_pc' = [send_pc EXCEPT ![t] = next]
            BY <2>2 DEF SendStep, CheckPostFlush, SetPostFlush, PostFlush
        <3>3. send_pc[t] # "idle"
            BY <2>2 DEF SendStep, CheckPostFlush, SetPostFlush, PostFlush
        <3> QED
            BY <3>1, <3>2, <3>3
    <2>3. ASSUME NEW t \in Threads, Send(t)
          PROVE  SendPcOK' /\ (send_pc'[Io] # "idle" => io' \in Callback)
        <3>1. io' = io /\ send_pc' = [send_pc EXCEPT ![t] = "check"]
            BY <2>3 DEF Send, ioVars
        <3>2. t = Io => io \in Callback
            BY <2>3 DEF Send
        <3> QED
            BY <3>1, <3>2
    <2>4. CASE AddSessionHere
        <3>1. UNCHANGED send_pc /\ io = "none"
            BY <2>4 DEF AddSessionHere
        <3> QED
            BY <3>1 DEF Callback
    <2>5. ASSUME \/ \E t \in Threads : WakeupStep(t)
                 \/ \E t \in AppThreads : AddSession(t) \/ PostShutdown(t) \/ DropSession(t)
                 \/ ShutdownNow \/ UNCHANGED vars
                 \/ PeerSends \/ PeerFin \/ PeerReset \/ PeerReads
          PROVE  UNCHANGED <<send_pc, io>>
        BY <2>5, NetworkPart DEF WakeupStep, AddSession, PostShutdown, DropSession, ShutdownNow,
                                 vars, sessionVars, ioVars
    <2> QED
        BY <2>1, <2>2, <2>3, <2>4, <2>5 DEF SessionNext, UserStep
<1> QED
    BY <1>1, <1>2, <1>3 DEF ThreadUse

\* Whoever posts may post: the IO thread inside a callback, others at any time.
LEMMA SessionStepIsThreadStep ==
    ASSUME ThreadUse, [SessionNext]_vars
    PROVE  [ThreadNext]_threadVars
<1>1. ASSUME NEW t \in Threads, SendStep(t) PROVE EnvPost(t) \/ UNCHANGED threadVars
    <2>1. CASE PostFlush(t)
        <3>1. Post(t, "flush") /\ send_pc[t] = "post"
            BY <2>1 DEF PostFlush
        <3>2. t = Io => InHandler
            BY <3>1 DEF ThreadUse, IoInLoop, Callback
        <3> QED
            BY <3>1, <3>2, KindAssumption DEF EnvPost, ThreadUse
    <2> QED
        BY <1>1, <2>1 DEF SendStep, CheckPostFlush, SetPostFlush
<1>2. ASSUME NEW t \in AppThreads, AddSession(t) \/ PostShutdown(t)
      PROVE  t \in Threads /\ EnvPost(t)
    <2>1. t \in Threads /\ t # Io
        BY IoAssumption DEF Threads
    <2>2. Post(t, "enter") \/ Post(t, "shutdown")
        BY <1>2 DEF AddSession, PostShutdown
    <2> QED
        BY <2>1, <2>2, KindAssumption DEF EnvPost, ThreadUse
<1>3. CASE IoProgress
    BY <1>3, LoopPart DEF ThreadNext
<1>4. ASSUME NEW t \in Threads, WakeupStep(t) PROVE Wakeup(t)
    BY <1>4 DEF WakeupStep
<1>5. ASSUME \/ AddSessionHere \/ ShutdownNow \/ UNCHANGED vars
             \/ \E t \in Threads : Send(t)
             \/ \E t \in AppThreads : DropSession(t)
             \/ PeerSends \/ PeerFin \/ PeerReset \/ PeerReads
      PROVE  UNCHANGED threadVars
    BY <1>5, NetworkPart DEF AddSessionHere, ShutdownNow, Send, DropSession, vars
<1> QED
    BY <1>1, <1>2, <1>3, <1>4, <1>5 DEF SessionNext, UserStep, ThreadNext

LEMMA ThreadUseHolds == SessionSafety => []ThreadUse
<1>1. SessionInit => ThreadUse
    BY DEF SessionInit, ThreadInit, ThreadUse, SendPcOK, IoInLoop, Threads
<1> QED
    BY <1>1, ThreadUseStep, PTL DEF SessionSafety

\* A session posts, wakes and returns to the loop only as ServiceThread allows
\* any code to, so whatever is proved of the thread holds of its sessions.
LEMMA SessionUsesThread == SessionSafety => ThreadSafety
<1>1. SessionInit => ThreadInit
    BY DEF SessionInit
<1> QED
    BY <1>1, SessionStepIsThreadStep, ThreadUseHolds, PTL
    DEF SessionSafety, ThreadSafety

\* Composition: the tasks of a session, whatever threads send, shut down and
\* add sessions, go through two mailboxes, each begun once at most and in order.
THEOREM SessionTasksAreMail == SessionSafety => ImplementsMailbox
<1> QED
    BY SessionUsesThread, ExecutorIsMailbox, PTL

-----------------------------------------------------------------------------
(* The socket.                                                               *)

SocketOK(s) ==
    /\ s \in Socket(MaxData) /\ s.rx + s.rx_left <= MaxData
    /\ s.edge => s.registered
    /\ s.armed => s.registered

LEMMA AddOK ==
    ASSUME NEW s, SocketOK(s)
    PROVE  SocketOK(EpollAdd(s))
BY DEF SocketOK, Socket, EpollAdd

LEMMA ModOK ==
    ASSUME NEW s, SocketOK(s), NEW out \in BOOLEAN
    PROVE  SocketOK(EpollMod(s, out)) /\ EpollMod(s, out).registered = s.registered
BY DEF SocketOK, Socket, EpollMod

LEMMA DelOK ==
    ASSUME NEW s, SocketOK(s)
    PROVE  SocketOK(EpollDel(s)) /\ ~EpollDel(s).registered
BY DEF SocketOK, Socket, EpollDel

LEMMA ShutOK ==
    ASSUME NEW s, SocketOK(s)
    PROVE  SocketOK(ShutWrite(s)) /\ ShutWrite(s).registered = s.registered
BY DEF SocketOK, Socket, ShutWrite, Wake

LEMMA NetworkOK ==
    ASSUME NEW s, SocketOK(s)
    PROVE  /\ s.rx_left > 0 => /\ SocketOK(DataArrives(s))
                               /\ DataArrives(s).registered = s.registered
           /\ \A how \in {"fin", "rst"} : /\ SocketOK(PeerCloses(s, how))
                                          /\ PeerCloses(s, how).registered = s.registered
           /\ SocketOK(RoomAgain(s)) /\ RoomAgain(s).registered = s.registered
<1>1. MaxData \in Nat
    BY SizeAssumption
<1>2. ASSUME s.rx_left > 0
      PROVE  SocketOK(DataArrives(s)) /\ DataArrives(s).registered = s.registered
    <2>1. /\ s.rx \in Nat /\ s.rx_left \in Nat /\ s.rx + s.rx_left <= MaxData
          /\ s.rx + 1 \in 0 .. MaxData /\ s.rx_left - 1 \in 0 .. MaxData
        BY <1>1, <1>2 DEF SocketOK, Socket
    <2> DEFINE moved == [s EXCEPT !.rx = @ + 1, !.rx_left = @ - 1]
    <2>2. /\ moved \in Socket(MaxData) /\ moved.rx + moved.rx_left = s.rx + s.rx_left
          /\ moved.edge = s.edge /\ moved.armed = s.armed /\ moved.registered = s.registered
      <3>1. /\ moved.rx = s.rx + 1 /\ moved.rx_left = s.rx_left - 1
            /\ moved.edge = s.edge /\ moved.armed = s.armed /\ moved.registered = s.registered
        BY DEF SocketOK, Socket
      <3>2. moved \in Socket(MaxData)
        BY <2>1 DEF SocketOK, Socket
      <3> HIDE DEF moved
      <3> QED  BY <2>1, <3>1, <3>2
    <2>3. DataArrives(s) = Wake(moved)
        BY DEF DataArrives
    <2> HIDE DEF moved
    <2> QED  BY <2>1, <2>2, <2>3 DEF SocketOK, Socket, Wake
<1>3. ASSUME NEW how \in {"fin", "rst"}
      PROVE  SocketOK(PeerCloses(s, how)) /\ PeerCloses(s, how).registered = s.registered
    BY DEF SocketOK, Socket, PeerCloses, Wake
<1>4. SocketOK(RoomAgain(s)) /\ RoomAgain(s).registered = s.registered
    BY DEF SocketOK, Socket, RoomAgain
<1> QED  BY <1>2, <1>3, <1>4

-----------------------------------------------------------------------------
(* Before the user has the session.                                          *)

\* enter_cb has not been called, so nobody has the session.
NotEntered == ~in_map /\ ~has_closed /\ io \notin {"enter_cb", "disc_cb"}

HasNoFlush(list) == \A i \in DOMAIN list : list[i].kind # "flush"
NoFlushPosted ==
    /\ HasNoFlush(async_tasks) /\ HasNoFlush(tmp_async_tasks)
    /\ HasNoFlush(sync_tasks) /\ HasNoFlush(tmp_sync_tasks)

\* A session that was not entered gets neither events nor flushes, also when
\* epoll_ctl has failed and only the channel keeps it.
Untouched ==
    /\ held = {} /\ \A t \in Threads : send_pc[t] = "idle"
    /\ io \in {"none", "link", "shutdown"} /\ calls = <<>>
    /\ ~sock.registered /\ NoFlushPosted
UntilEntered == NotEntered => Untouched

LEMMA AppendNoFlush ==
    ASSUME NEW list \in Seq(Task), NEW task \in Task, HasNoFlush(list), task.kind # "flush"
    PROVE  HasNoFlush(Append(list, task))
<1>1. /\ Len(Append(list, task)) = Len(list) + 1 /\ Append(list, task) \in Seq(Task)
      /\ \A i \in 1 .. Len(list) : Append(list, task)[i] = list[i]
      /\ Append(list, task)[Len(list) + 1] = task
    BY AppendProperties
<1>2. DOMAIN list = 1 .. Len(list) /\ DOMAIN Append(list, task) = 1 .. Len(list) + 1
      /\ Len(list) \in Nat
    BY <1>1, LenProperties
<1> QED  BY <1>1, <1>2 DEF HasNoFlush

\* The loop posts nothing, and the posts of others are not flushes.
LEMMA LoopPostsNoFlush ==
    ASSUME NoFlushPosted, LoopStep \/ UNCHANGED queueVars
    PROVE  NoFlushPosted'
<1>1. HasNoFlush(<<>>)
    BY DEF HasNoFlush
<1> QED  BY <1>1 DEF NoFlushPosted, queueVars, LoopStep, CheckRun, EpollReturn, EndEvents,
                     ClearWakeupFlag, SwapAsync, BeginAsync, ClearAsync, SwapSync, BeginSync,
                     ClearSync, EndTask, ReleaseChannel

LEMMA PostsNoFlush ==
    ASSUME PassInv, NoFlushPosted, NEW t \in Threads, NEW kind \in TaskKind, kind # "flush",
           Post(t, kind)
    PROVE  NoFlushPosted'
<1>1. async_tasks \in Seq(Task) /\ sync_tasks \in Seq(Task)
    BY DEF PassInv, ThreadTypeOK
<1>2. ASSUME NEW late \in BOOLEAN
      PROVE  [kind |-> kind, late |-> late] \in Task /\ [kind |-> kind, late |-> late].kind # "flush"
    BY DEF Task
<1>3. (loop \in AfterSyncSwap) \in BOOLEAN /\ (loop \in AfterAsyncSwap) \in BOOLEAN
    OBVIOUS
<1>4. CASE t = Io
    BY <1>1, <1>2, <1>3, <1>4, AppendNoFlush DEF Post, NoFlushPosted
<1>5. CASE t # Io
    BY <1>1, <1>2, <1>3, <1>5, AppendNoFlush DEF Post, NoFlushPosted
<1> QED  BY <1>4, <1>5

\* The session is never taken back from the user.
LEMMA NotEnteredBefore ==
    ASSUME [SessionNext]_vars, IoInLoop, in_map \in BOOLEAN, has_closed \in BOOLEAN, NotEntered'
    PROVE  NotEntered
<1> USE DEF NotEntered, ownVars, flagVars, ioVars
<1>1. CASE IoProgress
  <2>1. CASE LoopOnly \/ EpollWait \/ EventsDone \/ Release
    BY <1>1, <2>1 DEF LoopOnly, EpollWait, EventsDone, Release, sessionVars
  <2>2. CASE DispatchRecv \/ DispatchSend \/ DispatchClose \/ Readv \/ ReadvEnds \/ EndDataCb
    BY <2>2 DEF DispatchRecv, DispatchSend, DispatchClose, Readv, ReadvEnds, EndDataCb, IoIn
  <2>3. CASE LinkChannel \/ LinkFails \/ EndEnterCb
    BY <2>3 DEF LinkChannel, LinkFails, EndEnterCb, IoIn
  <2>4. CASE RunTask
    BY <2>4 DEF RunTask, BeginAsync, BeginSync, IoAt, IoInLoop, InHandler
  <2>5. CASE ShutdownTask \/ FlushTask \/ FlushDone \/ FlushFaults
    BY <2>5 DEF ShutdownTask, FlushTask, FlushDone, FlushFaults, IoIn
  <2>6. CASE Splice \/ FlushEnds \/ WritevEagain \/ WritevFails \/ Writev
    BY <2>6 DEF Splice, FlushEnds, WritevEagain, WritevFails, Writev, IoIn
  <2>7. CASE CompletePacket \/ EndCompleteCb \/ KeepRest \/ AllComplete
    BY <2>7 DEF CompletePacket, EndCompleteCb, KeepRest, AllComplete, IoIn
  <2>8. CASE CloseSocket \/ CloseAgain \/ EndDiscCb
    BY <2>8 DEF CloseSocket, CloseAgain, EndDiscCb, IoIn
  <2> QED  BY <1>1, <2>1, <2>2, <2>3, <2>4, <2>5, <2>6, <2>7, <2>8 DEF IoProgress
<1>2. ASSUME NEW t \in Threads, SendStep(t) \/ WakeupStep(t) \/ Send(t)  PROVE NotEntered
    BY <1>2 DEF SendStep, CheckPostFlush, SetPostFlush, PostFlush, WakeupStep, Send, sessionVars
<1>3. CASE AddSessionHere \/ ShutdownNow
    BY <1>3 DEF AddSessionHere, ShutdownNow
<1>4. ASSUME NEW t \in AppThreads, AddSession(t) \/ PostShutdown(t) \/ DropSession(t)
      PROVE  NotEntered
    BY <1>4 DEF AddSession, PostShutdown, DropSession, sessionVars
<1>5. CASE PeerSends \/ PeerFin \/ PeerReset \/ PeerReads
    BY <1>5, NetworkPart
<1>6. CASE UNCHANGED vars
    BY <1>6 DEF vars, sessionVars
<1> QED  BY <1>1, <1>2, <1>3, <1>4, <1>5, <1>6 DEF SessionNext, UserStep

\* And until the user has it, little can happen to it.
LEMMA UntouchedStep ==
    ASSUME [SessionNext]_vars, PassInv, IoInLoop, SocketOK(sock), NotEntered, Untouched, NotEntered'
    PROVE  Untouched'
<1> USE DEF Untouched, NotEntered, ownVars, flagVars, ioVars
<1>1. CASE IoProgress
  <2>1. CASE LoopOnly \/ EventsDone \/ Release
    <3>1. LoopStep \/ UNCHANGED queueVars
      BY <2>1 DEF LoopOnly, EventsDone, Release, LoopStep
    <3>2. UNCHANGED <<held, send_pc, io, calls, sock>>
      BY <2>1 DEF LoopOnly, EventsDone, Release, sessionVars
    <3> QED  BY <3>1, <3>2, LoopPostsNoFlush
  <2>2. CASE EpollWait
    <3>1. ~sock.edge /\ UNCHANGED <<held, send_pc, io>> /\ calls' = <<>>
      BY <2>2 DEF EpollWait, SocketOK
    <3>2. NoFlushPosted'
      BY <2>2, LoopPostsNoFlush DEF EpollWait, LoopStep
    <3>3. ~sock'.registered
      BY <2>2 DEF EpollWait, SocketOK, Socket
    <3> QED  BY <3>1, <3>2, <3>3
  <2>3. CASE LinkFails
    <3>1. UNCHANGED <<held, send_pc, calls, sock>> /\ io' = "none"
      BY <2>3 DEF LinkFails
    <3>2. NoFlushPosted'
      BY <2>3, LoopPostsNoFlush DEF LinkFails, ReturnToLoop, LoopStep, threadVars
    <3> QED  BY <3>1, <3>2
  <2>4. CASE ShutdownTask
    <3>1. UNCHANGED <<held, send_pc, calls>> /\ io' = "none"
      BY <2>4 DEF ShutdownTask
    <3>2. NoFlushPosted'
      BY <2>4, LoopPostsNoFlush DEF ShutdownTask, LoopStep
    <3>3. ~sock'.registered
      BY <2>4, ShutOK DEF ShutdownTask, DoShutdown
    <3> QED  BY <3>1, <3>2, <3>3
  <2>5. CASE RunTask
    <3>1. UNCHANGED <<held, send_pc, calls, sock>>
      BY <2>5 DEF RunTask
    <3>2. NoFlushPosted'
      BY <2>5, LoopPostsNoFlush DEF RunTask, LoopStep
    <3>3. /\ tmp_async_tasks \in Seq(Task) /\ tmp_sync_tasks \in Seq(Task) /\ started \in Nat
          /\ Len(tmp_async_tasks) \in Nat /\ Len(tmp_sync_tasks) \in Nat
          /\ DOMAIN tmp_async_tasks = 1 .. Len(tmp_async_tasks)
          /\ DOMAIN tmp_sync_tasks = 1 .. Len(tmp_sync_tasks)
      BY LenProperties DEF PassInv, ThreadTypeOK
    <3>4. io' \in {"link", "shutdown"}
      <4>1. CASE BeginAsync /\ io' = TaskBody(tmp_async_tasks[started + 1])
        <5>1. started + 1 \in DOMAIN tmp_async_tasks
          BY <3>3, <4>1 DEF BeginAsync
        <5> QED  BY <4>1, <5>1 DEF TaskBody, NoFlushPosted, HasNoFlush
      <4>2. CASE BeginSync /\ io' = TaskBody(tmp_sync_tasks[started + 1])
        <5>1. started + 1 \in DOMAIN tmp_sync_tasks
          BY <3>3, <4>2 DEF BeginSync
        <5> QED  BY <4>2, <5>1 DEF TaskBody, NoFlushPosted, HasNoFlush
      <4> QED  BY <2>5, <4>1, <4>2 DEF RunTask
    <3> QED  BY <3>1, <3>2, <3>4
  <2>6. CASE LinkChannel
    BY <2>6 DEF LinkChannel
  <2>7. CASE DispatchRecv \/ DispatchSend \/ DispatchClose
    BY <2>7 DEF DispatchRecv, DispatchSend, DispatchClose
  <2>8. CASE EndEnterCb \/ Readv \/ ReadvEnds \/ EndDataCb \/ FlushTask \/ FlushDone \/ FlushFaults
    BY <2>8 DEF EndEnterCb, Readv, ReadvEnds, EndDataCb, FlushTask, FlushDone, FlushFaults, IoIn
  <2>9. CASE Splice \/ FlushEnds \/ WritevEagain \/ WritevFails \/ Writev
    BY <2>9 DEF Splice, FlushEnds, WritevEagain, WritevFails, Writev, IoIn
  <2>10. CASE \/ CompletePacket \/ EndCompleteCb \/ KeepRest \/ AllComplete
              \/ CloseSocket \/ CloseAgain \/ EndDiscCb
    BY <2>10 DEF CompletePacket, EndCompleteCb, KeepRest, AllComplete, CloseSocket, CloseAgain,
                 EndDiscCb, IoIn
  <2> QED  BY <1>1, <2>1, <2>2, <2>3, <2>4, <2>5, <2>6, <2>7, <2>8, <2>9, <2>10 DEF IoProgress
<1>2. ASSUME NEW t \in Threads, SendStep(t) \/ Send(t)  PROVE FALSE
    BY <1>2 DEF SendStep, CheckPostFlush, SetPostFlush, PostFlush, Send, Callback
<1>3. ASSUME NEW t \in Threads, WakeupStep(t)  PROVE Untouched'
    BY <1>3, LoopPostsNoFlush DEF WakeupStep, Wakeup, ExchangeFlag, WriteEventfd, sessionVars
<1>4. CASE AddSessionHere
    BY <1>4, LoopPostsNoFlush DEF AddSessionHere, threadVars
<1>5. CASE ShutdownNow
    BY <1>5 DEF ShutdownNow, IoIn, Callback
<1>6. ASSUME NEW t \in AppThreads, AddSession(t)  PROVE Untouched'
  <2>1. NoFlushPosted'
    BY <1>6, PostsNoFlush, KindAssumption DEF AddSession, Threads
  <2> QED  BY <1>6, <2>1 DEF AddSession
<1>7. ASSUME NEW t \in AppThreads, PostShutdown(t) \/ DropSession(t)  PROVE FALSE
    BY <1>7 DEF PostShutdown, DropSession
<1>8. CASE PeerSends \/ PeerFin \/ PeerReset \/ PeerReads
  <2>1. UNCHANGED <<held, send_pc, io, calls, queueVars>>
    BY <1>8, NetworkPart DEF threadVars
  <2>2. sock'.registered = sock.registered
    BY <1>8, NetworkOK DEF PeerSends, PeerFin, PeerReset, PeerReads, Network
  <2> QED  BY <2>1, <2>2, LoopPostsNoFlush
<1>9. CASE UNCHANGED vars
    BY <1>9, LoopPostsNoFlush DEF vars, sessionVars, threadVars
<1> QED  BY <1>1, <1>2, <1>3, <1>4, <1>5, <1>6, <1>7, <1>8, <1>9 DEF SessionNext, UserStep

-----------------------------------------------------------------------------
(* The socket's entry and the channel.                                       *)

LEMMA SocketStep ==
    ASSUME [SessionNext]_vars, SocketOK(sock), sock.registered => channel
    PROVE  SocketOK(sock') /\ (sock'.registered => channel')
<1> USE DEF ownVars
<1>1. CASE IoProgress
  <2>1. CASE UNCHANGED <<sock, channel>>
    BY <2>1
  <2>2. CASE EpollWait
    BY <2>2 DEF EpollWait, SocketOK, Socket
  <2>3. CASE DispatchSend \/ WritevEagain \/ KeepRest
    BY <2>3, ModOK DEF DispatchSend, WritevEagain, KeepRest
  <2>4. CASE LinkChannel
    BY <2>4, AddOK DEF LinkChannel
  <2>5. CASE LinkFails
    BY <2>5 DEF LinkFails
  <2>6. CASE Readv
    <3>1. PICK n \in Nat : n <= sock.rx /\ sock' = [sock EXCEPT !.rx = @ - n]
      BY <2>6, SizeAssumption DEF Readv, SocketOK, Socket
    <3>2. sock.rx - n \in 0 .. MaxData
      BY <3>1, SizeAssumption DEF SocketOK, Socket
    <3>3. /\ sock' \in Socket(MaxData) /\ sock'.rx = sock.rx - n /\ sock'.rx_left = sock.rx_left
          /\ sock'.edge = sock.edge /\ sock'.armed = sock.armed
          /\ sock'.registered = sock.registered
      BY <3>1, <3>2 DEF SocketOK, Socket
    <3>4. sock.rx \in Nat /\ sock.rx_left \in Nat /\ sock.rx + sock.rx_left <= MaxData
      BY SizeAssumption DEF SocketOK, Socket
    <3>5. sock'.rx + sock'.rx_left <= MaxData
      BY <3>1, <3>3, <3>4, SizeAssumption
    <3> QED  BY <2>6, <3>3, <3>5 DEF SocketOK, Readv
  <2>7. CASE ShutdownTask
    BY <2>7, ShutOK DEF ShutdownTask, DoShutdown
  <2>8. CASE Writev
    BY <2>8 DEF Writev, SocketOK, Socket
  <2>9. CASE CloseSocket
    BY <2>9, DelOK DEF CloseSocket
  <2>10. \/ UNCHANGED <<sock, channel>>
         \/ EpollWait \/ DispatchSend \/ WritevEagain \/ KeepRest \/ LinkChannel \/ LinkFails
         \/ Readv \/ ShutdownTask \/ Writev \/ CloseSocket
    BY <1>1 DEF IoProgress, LoopOnly, EventsDone, Release, DispatchRecv, DispatchClose, EndEnterCb,
                ReadvEnds, EndDataCb, RunTask, FlushTask, FlushDone, FlushFaults, Splice, FlushEnds,
                WritevFails, CompletePacket, EndCompleteCb, AllComplete, CloseAgain, EndDiscCb,
                sessionVars
  <2> QED  BY <2>1, <2>2, <2>3, <2>4, <2>5, <2>6, <2>7, <2>8, <2>9, <2>10
<1>2. ASSUME NEW t \in Threads, SendStep(t) \/ WakeupStep(t) \/ Send(t)
      PROVE  UNCHANGED <<sock, channel>>
    BY <1>2 DEF SendStep, CheckPostFlush, SetPostFlush, PostFlush, WakeupStep, Send, sessionVars
<1>3. CASE AddSessionHere
    BY <1>3 DEF AddSessionHere
<1>4. CASE ShutdownNow
    BY <1>4, ShutOK DEF ShutdownNow, DoShutdown
<1>5. ASSUME NEW t \in AppThreads, AddSession(t) \/ PostShutdown(t) \/ DropSession(t)
      PROVE  UNCHANGED <<sock, channel>>
    BY <1>5 DEF AddSession, PostShutdown, DropSession, sessionVars
<1>6. CASE PeerSends \/ PeerFin \/ PeerReset \/ PeerReads
    BY <1>6, NetworkOK DEF PeerSends, PeerFin, PeerReset, PeerReads, Network
<1>7. CASE UNCHANGED vars
    BY <1>7 DEF vars, sessionVars
<1> QED  BY <1>1, <1>2, <1>3, <1>4, <1>5, <1>6, <1>7 DEF SessionNext, UserStep

-----------------------------------------------------------------------------
(* The map, the collector and the channel.                                   *)

OwnTypes == channel \in BOOLEAN /\ in_map \in BOOLEAN /\ in_collector \in BOOLEAN

\* A session in the map, or about to enter it, has its channel.
MapKept == (in_map => channel) /\ (io = "enter_cb" => channel)

LifeInv ==
    /\ OwnTypes /\ MapKept /\ UntilEntered /\ ChannelAliveInUse
    /\ SocketOK(sock) /\ (sock.registered => channel)

\* Whoever comes to close the socket finds the session: the steps that lead to
\* the close are an event's and a flush's.
LEMMA InMapAtClose == LifeInv => SessionInMapAtClose
BY DEF LifeInv, UntilEntered, Untouched, NotEntered, MapKept, SessionInMapAtClose

\* The steps that change who has the channel.
LEMMA OwnersStep ==
    ASSUME [SessionNext]_vars, LifeInv, IoInLoop
    PROVE  /\ OwnTypes' /\ MapKept'
           /\ (channel \/ in_collector) /\ (io # "none" \/ calls # <<>>)
                  => channel' \/ in_collector'
<1> USE DEF OwnTypes, MapKept, LifeInv, ownVars, ioVars
<1>1. CASE IoProgress
  <2>1. CASE CloseSocket
    <3>1. in_map /\ channel
      BY <2>1, InMapAtClose DEF CloseSocket, IoIn, SessionInMapAtClose
    <3> QED  BY <2>1, <3>1 DEF CloseSocket
  <2>2. CASE Release
    BY <2>2 DEF Release, ReleaseChannel, IoAt, IoInLoop, InHandler
  <2>3. CASE LinkChannel \/ LinkFails
    BY <2>3 DEF LinkChannel, LinkFails
  <2>4. CASE EndEnterCb
    BY <2>4 DEF EndEnterCb, IoIn
  <2>5. CASE RunTask
    BY <2>5 DEF RunTask, TaskBody
  <2>6. CASE LoopOnly \/ EpollWait \/ EventsDone
    BY <2>6 DEF LoopOnly, EpollWait, EventsDone, sessionVars
  <2>7. CASE DispatchRecv \/ DispatchSend \/ DispatchClose \/ Readv \/ ReadvEnds \/ EndDataCb
    <3>1. UNCHANGED ownVars /\ io' # "enter_cb"
      BY <2>7 DEF DispatchRecv, DispatchSend, DispatchClose, Readv, ReadvEnds, EndDataCb, Return
    <3> QED  BY <3>1
  <2>8. CASE ShutdownTask \/ FlushTask \/ FlushDone \/ FlushFaults
    BY <2>8 DEF ShutdownTask, FlushTask, FlushDone, FlushFaults
  <2>9. CASE Splice \/ FlushEnds \/ WritevEagain \/ WritevFails \/ Writev
    <3>1. UNCHANGED ownVars /\ io' # "enter_cb"
      BY <2>9 DEF Splice, FlushEnds, WritevEagain, WritevFails, Writev, Return
    <3> QED  BY <3>1
  <2>10. CASE CompletePacket \/ EndCompleteCb \/ KeepRest \/ AllComplete \/ CloseAgain \/ EndDiscCb
    <3>1. UNCHANGED ownVars /\ io' # "enter_cb"
      BY <2>10 DEF CompletePacket, EndCompleteCb, KeepRest, AllComplete, CloseAgain, EndDiscCb, Return
    <3> QED  BY <3>1
  <2> QED  BY <1>1, <2>1, <2>2, <2>3, <2>4, <2>5, <2>6, <2>7, <2>8, <2>9, <2>10 DEF IoProgress
<1>2. ASSUME NEW t \in Threads, SendStep(t) \/ WakeupStep(t) \/ Send(t)
      PROVE  UNCHANGED <<ownVars, io>> \/ UNCHANGED <<channel, in_map, in_collector, io>>
    BY <1>2 DEF SendStep, CheckPostFlush, SetPostFlush, PostFlush, WakeupStep, Send, sessionVars
<1>3. CASE AddSessionHere \/ ShutdownNow
    BY <1>3 DEF AddSessionHere, ShutdownNow
<1>4. ASSUME NEW t \in AppThreads, AddSession(t) \/ PostShutdown(t) \/ DropSession(t)
      PROVE  UNCHANGED <<channel, in_map, in_collector, io>>
    BY <1>4 DEF AddSession, PostShutdown, DropSession, sessionVars
<1>5. CASE PeerSends \/ PeerFin \/ PeerReset \/ PeerReads
    BY <1>5, NetworkPart
<1>6. CASE UNCHANGED vars
    BY <1>6 DEF vars, sessionVars
<1> QED  BY <1>1, <1>2, <1>3, <1>4, <1>5, <1>6 DEF SessionNext, UserStep

\* The channel is needed in these places.
InUse == calls # <<>> \/ io \in {"recv", "data_cb", "splice", "writev", "complete", "complete_cb",
                                 "close", "disc_cb"}

\* It comes into use by an event of a registered socket, by a flush that found
\* channel_, or in code that uses it already.
LEMMA ComesIntoUse ==
    ASSUME [SessionNext]_vars, SocketOK(sock), InUse'
    PROVE  \/ InUse
           \/ sock.registered /\ UNCHANGED channel
           \/ channel /\ UNCHANGED channel
<1> USE DEF InUse, ioVars, ownVars
<1>1. CASE IoProgress
  <2>1. CASE EpollWait
    BY <2>1 DEF EpollWait, SocketOK
  <2>2. CASE FlushTask
    BY <2>2 DEF FlushTask
  <2>3. CASE RunTask
    BY <2>3 DEF RunTask, TaskBody
  <2>4. CASE LoopOnly \/ EventsDone \/ Release
    BY <2>4 DEF LoopOnly, EventsDone, Release, sessionVars
  <2>5. CASE DispatchRecv \/ DispatchSend \/ DispatchClose \/ Readv \/ ReadvEnds \/ EndDataCb
    BY <2>5 DEF DispatchRecv, DispatchSend, DispatchClose, Readv, ReadvEnds, EndDataCb, IoIn
  <2>6. CASE LinkChannel \/ LinkFails \/ EndEnterCb \/ ShutdownTask \/ FlushDone \/ FlushFaults
    BY <2>6 DEF LinkChannel, LinkFails, EndEnterCb, ShutdownTask, FlushDone, FlushFaults
  <2>7. CASE Splice \/ FlushEnds \/ WritevEagain \/ WritevFails \/ Writev
    BY <2>7 DEF Splice, FlushEnds, WritevEagain, WritevFails, Writev, IoIn
  <2>8. CASE CompletePacket \/ EndCompleteCb \/ KeepRest \/ AllComplete
    BY <2>8 DEF CompletePacket, EndCompleteCb, KeepRest, AllComplete, IoIn
  <2>9. CASE CloseSocket \/ CloseAgain \/ EndDiscCb
    BY <2>9 DEF CloseSocket, CloseAgain, EndDiscCb, IoIn
  <2> QED  BY <1>1, <2>1, <2>2, <2>3, <2>4, <2>5, <2>6, <2>7, <2>8, <2>9 DEF IoProgress
<1>2. ASSUME NEW t \in Threads, SendStep(t) \/ WakeupStep(t) \/ Send(t)
      PROVE  UNCHANGED <<io, calls>>
    BY <1>2 DEF SendStep, CheckPostFlush, SetPostFlush, PostFlush, WakeupStep, Send, sessionVars
<1>3. CASE AddSessionHere \/ ShutdownNow
    BY <1>3 DEF AddSessionHere, ShutdownNow
<1>4. ASSUME NEW t \in AppThreads, AddSession(t) \/ PostShutdown(t) \/ DropSession(t)
      PROVE  UNCHANGED <<io, calls>>
    BY <1>4 DEF AddSession, PostShutdown, DropSession, sessionVars
<1>5. CASE PeerSends \/ PeerFin \/ PeerReset \/ PeerReads
    BY <1>5, NetworkPart
<1>6. CASE UNCHANGED vars
    BY <1>6 DEF vars, sessionVars
<1> QED  BY <1>1, <1>2, <1>3, <1>4, <1>5, <1>6 DEF SessionNext, UserStep

LEMMA LifeInvStep ==
    LifeInv /\ PassInv /\ QueueInv /\ IoInLoop /\ [SessionNext]_vars => LifeInv'
<1> SUFFICES ASSUME LifeInv, PassInv, QueueInv, IoInLoop, [SessionNext]_vars  PROVE LifeInv'
    OBVIOUS
<1>1. OwnTypes' /\ MapKept'
    BY OwnersStep
<1>2. SocketOK(sock') /\ (sock'.registered => channel')
    BY SocketStep DEF LifeInv
<1>3. UntilEntered'
  <2>1. NotEntered' => NotEntered
    BY NotEnteredBefore DEF LifeInv, OwnTypes, QueueInv, PacketTypes
  <2>2. NotEntered /\ NotEntered' => Untouched'
    BY UntouchedStep DEF LifeInv, UntilEntered
  <2> QED  BY <2>1, <2>2 DEF UntilEntered
<1>4. ChannelAliveInUse'
  <2>1. InUse => io # "none" \/ calls # <<>>
    BY DEF InUse
  <2> QED  BY <2>1, OwnersStep, ComesIntoUse DEF LifeInv, ChannelAliveInUse, InUse
<1> QED  BY <1>1, <1>2, <1>3, <1>4 DEF LifeInv

LEMMA LifeInvHolds == SessionSafety => []LifeInv
<1>1. SessionInit => LifeInv
  <2> SUFFICES ASSUME SessionInit  PROVE LifeInv
    OBVIOUS
  <2>1. /\ io = "none" /\ calls = <<>> /\ channel = FALSE /\ in_collector = FALSE /\ in_map = FALSE
        /\ held = {} /\ send_pc = [t \in Threads |-> "idle"]
    BY DEF SessionInit
  <2>2. SocketOK(sock) /\ ~sock.registered
    BY SizeAssumption DEF SessionInit, NewSocket, SocketOK, Socket
  <2>3. NoFlushPosted
    BY DEF SessionInit, ThreadInit, NoFlushPosted, HasNoFlush
  <2> QED  BY <2>1, <2>2, <2>3
           DEF LifeInv, OwnTypes, MapKept, UntilEntered, Untouched, ChannelAliveInUse
<1>2. SessionInit => IoInLoop
    BY DEF SessionInit, IoInLoop
<1> QED  BY <1>1, <1>2, LifeInvStep, IoInLoopStep, PassInvOfSession, QueueInvHolds, PTL
         DEF SessionSafety

(* While code of the channel runs, or will be called for the event at hand,
   the channel exists: it is collected only after the pass (epoll_impl.ipp:94).
   For any threads, send sites and sizes. *)
THEOREM ChannelStaysInUse == SessionSafety => []ChannelAliveInUse
<1>1. LifeInv => ChannelAliveInUse
    BY DEF LifeInv
<1> QED  BY <1>1, LifeInvHolds, PTL

(* remove_tcp_session finds every session that closes: its assert(false)
   (service_thread.ipp:43) is not reached. *)
THEOREM ClosesFromTheMap == SessionSafety => []SessionInMapAtClose
<1> QED  BY InMapAtClose, LifeInvHolds, PTL

-----------------------------------------------------------------------------
(* Types.                                                                    *)

Call == {"on_recv", "on_send", "on_close"}

\* The types that no other invariant has.
RestOfTypes ==
    /\ io \in IoStep /\ calls \in Seq(Call) /\ full \in BOOLEAN
    /\ pushed <= MaxPackets
    /\ is_post_flush \in BOOLEAN /\ is_can_write \in BOOLEAN
    /\ held \subseteq AppThreads /\ created \in BOOLEAN
    /\ fault \in {"none", "freed_socket_data", "null_channel"}

LEMMA CallsTyped == \A mask : CallsOf(mask) \in Seq(Call)
<1>1. /\ <<>> \in Seq(Call) /\ <<"on_recv">> \in Seq(Call) /\ <<"on_send">> \in Seq(Call)
      /\ <<"on_recv", "on_close">> \in Seq(Call)
    BY DEF Call
<1>2. ASSUME NEW a \in Seq(Call), NEW b \in Seq(Call)  PROVE a \o b \in Seq(Call)
    BY ConcatProperties
<1> QED  BY <1>1, <1>2 DEF CallsOf

LEMMA RestOfTypesStep ==
    ASSUME [SessionNext]_vars, RestOfTypes, QueueInv
    PROVE  RestOfTypes'
<1> USE DEF RestOfTypes, ioVars, flagVars, ownVars
<1> USE SizeAssumption
<1>1. CASE IoProgress
  <2>1. CASE LoopOnly \/ EventsDone \/ Release
    BY <2>1 DEF LoopOnly, EventsDone, Release, sessionVars, packetVars
  <2>2. CASE EpollWait
    <3>1. calls' \in Seq(Call)
      BY <2>2, CallsTyped, EmptySeq DEF EpollWait
    <3> QED  BY <2>2, <3>1 DEF EpollWait, packetVars
  <2>3. CASE DispatchRecv \/ DispatchSend \/ DispatchClose
    <3>1. calls' \in Seq(Call)
      BY <2>3, HeadTailProperties DEF DispatchRecv, DispatchSend, DispatchClose
    <3> QED  BY <2>3, <3>1 DEF DispatchRecv, DispatchSend, DispatchClose, packetVars, IoStep
  <2>4. CASE LinkChannel \/ LinkFails \/ EndEnterCb
    BY <2>4 DEF LinkChannel, LinkFails, EndEnterCb, packetVars, IoStep, Callback
  <2>5. CASE Readv \/ ReadvEnds \/ EndDataCb
    BY <2>5 DEF Readv, ReadvEnds, EndDataCb, packetVars, IoStep, Callback
  <2>6. CASE RunTask \/ ShutdownTask \/ FlushTask \/ FlushDone \/ FlushFaults
    BY <2>6 DEF RunTask, TaskBody, ShutdownTask, DoShutdown, FlushTask, FlushDone, FlushFaults,
                packetVars, IoStep
  <2>7. CASE Splice \/ FlushEnds \/ WritevEagain \/ WritevFails \/ Writev
    BY <2>7 DEF Splice, FlushEnds, WritevEagain, WritevFails, Writev, Return, packetVars, IoStep
  <2>8. CASE CompletePacket \/ EndCompleteCb \/ KeepRest \/ AllComplete
    BY <2>8 DEF CompletePacket, EndCompleteCb, KeepRest, AllComplete, packetVars, IoStep, Callback
  <2>9. CASE CloseSocket \/ CloseAgain \/ EndDiscCb
    BY <2>9 DEF CloseSocket, CloseAgain, EndDiscCb, Return, packetVars, IoStep, Callback
  <2> QED  BY <1>1, <2>1, <2>2, <2>3, <2>4, <2>5, <2>6, <2>7, <2>8, <2>9 DEF IoProgress
<1>2. ASSUME NEW t \in Threads, SendStep(t) \/ WakeupStep(t)  PROVE RestOfTypes'
    BY <1>2 DEF SendStep, CheckPostFlush, SetPostFlush, PostFlush, WakeupStep, sessionVars, packetVars
<1>3. ASSUME NEW t \in Threads, Send(t)  PROVE RestOfTypes'
    BY <1>3 DEF Send, QueueInv, PacketTypes
<1>4. CASE AddSessionHere \/ ShutdownNow
    BY <1>4 DEF AddSessionHere, ShutdownNow, DoShutdown, packetVars, IoStep
<1>5. ASSUME NEW t \in AppThreads, AddSession(t) \/ PostShutdown(t) \/ DropSession(t)
      PROVE  RestOfTypes'
    BY <1>5 DEF AddSession, PostShutdown, DropSession, sessionVars, packetVars
<1>6. CASE PeerSends \/ PeerFin \/ PeerReset \/ PeerReads
    BY <1>6, NetworkPart DEF packetVars
<1>7. CASE UNCHANGED vars
    BY <1>7 DEF vars, sessionVars, packetVars
<1> QED  BY <1>1, <1>2, <1>3, <1>4, <1>5, <1>6, <1>7 DEF SessionNext, UserStep

(* The variables of a session keep their types: among them, that no more than
   a packet is ever taken off the first one. *)
THEOREM SessionTypeCorrect == SessionSafety => []SessionTypeOK
<1>1. SessionInit => RestOfTypes
  <2> SUFFICES ASSUME SessionInit  PROVE RestOfTypes
    OBVIOUS
  <2>1. /\ io = "none" /\ calls = <<>> /\ full = FALSE /\ pushed = 0 /\ is_post_flush = FALSE
        /\ is_can_write = TRUE /\ held = {} /\ created = FALSE /\ fault = "none"
    BY DEF SessionInit
  <2>2. <<>> \in Seq(Call) /\ pushed <= MaxPackets
    BY <2>1, SizeAssumption
  <2> QED  BY <2>1, <2>2 DEF RestOfTypes, IoStep
<1>2. SessionSafety => []RestOfTypes
    BY <1>1, RestOfTypesStep, QueueInvHolds, PTL DEF SessionSafety
<1>3. PassInv /\ FlagInv /\ QueueInv /\ ByteInv /\ LifeInv /\ RestOfTypes => SessionTypeOK
  <2> SUFFICES ASSUME PassInv, FlagInv, QueueInv, ByteInv, LifeInv, RestOfTypes  PROVE SessionTypeOK
    OBVIOUS
  <2>1. pushed \in 0 .. MaxPackets
    BY SizeAssumption DEF QueueInv, PacketTypes, RestOfTypes
  <2> QED  BY <2>1 DEF SessionTypeOK, PassInv, FlagInv, SendPcOK, QueueInv, PacketTypes, ByteInv,
                       ByteTypes, LifeInv, OwnTypes, SocketOK, RestOfTypes, Call
<1> QED  BY <1>2, <1>3, PassInvOfSession, FlagInvHolds, QueueInvHolds, ByteInvHolds, LifeInvHolds, PTL

-----------------------------------------------------------------------------
(* The flush that a callback posts finds socket_data.                         *)

\* Steps of flush_buffer and of the close it may lead to.
FlushCode == {"splice", "writev", "complete", "complete_cb", "close", "disc_cb"}
OnlyFlush(list) == \A i \in DOMAIN list : list[i].kind = "flush"

\* Only callbacks send: the flushes are in the lists of the IO thread.
SentFromCallbacks ==
    /\ held = {} /\ \A t \in AppThreads : send_pc[t] = "idle"
    /\ HasNoFlush(async_tasks) /\ HasNoFlush(tmp_async_tasks)
    /\ OnlyFlush(sync_tasks) /\ OnlyFlush(tmp_sync_tasks)
    /\ send_pc[Io] # "idle" => io \in Callback

\* Of these there is one at a time, posted and run in the same pass.
OneFlushTask ==
    /\ sync_tasks # <<>> => Len(sync_tasks) = 1
    /\ tmp_sync_tasks # <<>> => Len(tmp_sync_tasks) = 1
    /\ loop \in {"sync", "in_sync", "release", "check", "wait"} => sync_tasks = <<>>
    /\ loop = "in_sync" => tmp_sync_tasks # <<>> /\ started = 1 /\ is_post_flush
    /\ loop = "sync" /\ ~is_post_flush => started = Len(tmp_sync_tasks)
    /\ send_pc[Io] \in {"set", "post"} => loop # "in_sync" /\ sync_tasks = <<>>
    /\ send_pc[Io] = "post" => is_post_flush
    /\ sync_tasks # <<>> => is_post_flush

\* Where the loop is while a handler's or a task's code runs.
FlushInSyncPass ==
    /\ io \in {"flush_task", "flush_done"} => loop = "in_sync"
    /\ io \in FlushCode \cup {"recv", "data_cb"} => loop # "in_async"
    /\ io \in {"link", "enter_cb", "shutdown"} => loop # "in_sync"

\* The collector runs behind the pass, so the channel keeps socket_data meanwhile.
FlushHasChannel == sync_tasks # <<>> \/ tmp_sync_tasks # <<>> => channel \/ in_collector

FlushOwned == SentFromCallbacks /\ OneFlushTask /\ FlushInSyncPass /\ FlushHasChannel

LEMMA AppendOnlyFlush ==
    ASSUME NEW list \in Seq(Task), NEW task \in Task, OnlyFlush(list), task.kind = "flush"
    PROVE  OnlyFlush(Append(list, task))
<1>1. /\ Len(Append(list, task)) = Len(list) + 1 /\ Append(list, task) \in Seq(Task)
      /\ \A i \in 1 .. Len(list) : Append(list, task)[i] = list[i]
      /\ Append(list, task)[Len(list) + 1] = task
    BY AppendProperties
<1>2. DOMAIN list = 1 .. Len(list) /\ DOMAIN Append(list, task) = 1 .. Len(list) + 1
      /\ Len(list) \in Nat
    BY <1>1, LenProperties
<1> QED  BY <1>1, <1>2 DEF OnlyFlush

\* What the thread's lists are while it takes and drops them.
LEMMA ListFacts ==
    ASSUME PassInv
    PROVE  /\ async_tasks \in Seq(Task) /\ tmp_async_tasks \in Seq(Task)
           /\ sync_tasks \in Seq(Task) /\ tmp_sync_tasks \in Seq(Task) /\ started \in Nat
           /\ Len(tmp_async_tasks) \in Nat /\ Len(tmp_sync_tasks) \in Nat
           /\ DOMAIN tmp_async_tasks = 1 .. Len(tmp_async_tasks)
           /\ DOMAIN tmp_sync_tasks = 1 .. Len(tmp_sync_tasks)
           /\ (loop \notin {"sync", "in_sync"} => tmp_sync_tasks = <<>>)
           /\ (loop \notin {"async", "in_async"} => tmp_async_tasks = <<>>)
           /\ (loop \notin {"async", "in_async", "sync", "in_sync"} => started = 0)
           /\ (Len(tmp_sync_tasks) = 0 <=> tmp_sync_tasks = <<>>)
           /\ Len(<<>>) = 0 /\ DOMAIN <<>> = {} /\ send_pc[Io] = send_pc[Io]
BY LenProperties, EmptySeq DEF PassInv, ThreadTypeOK, SwapsAreClean

\* The steps of the loop, seen from the flushes that are posted.
LEMMA LoopKeepsFlushes ==
    ASSUME PassInv, FlushOwned, IoInLoop, LoopStep, ~EndTask,
           UNCHANGED <<is_post_flush, send_pc>>
    PROVE  /\ OneFlushTask'
           /\ HasNoFlush(async_tasks)' /\ HasNoFlush(tmp_async_tasks)'
           /\ OnlyFlush(sync_tasks)' /\ OnlyFlush(tmp_sync_tasks)'
           /\ (sync_tasks' # <<>> \/ tmp_sync_tasks' # <<>>)
                  => /\ sync_tasks # <<>> \/ tmp_sync_tasks # <<>>
                     /\ ~ReleaseChannel
<1> USE ListFacts DEF FlushOwned, SentFromCallbacks, OneFlushTask, HasNoFlush, OnlyFlush, IoAt,
                      queueVars
<1>1. CASE CheckRun \/ EpollReturn \/ EndEvents \/ ClearWakeupFlag
    BY <1>1 DEF CheckRun, EpollReturn, EndEvents, ClearWakeupFlag, ReleaseChannel
<1>2. CASE SwapAsync
    BY <1>2 DEF SwapAsync, ReleaseChannel
<1>3. CASE BeginAsync
    BY <1>3 DEF BeginAsync, ReleaseChannel
<1>4. CASE ClearAsync
    BY <1>4 DEF ClearAsync, ReleaseChannel
<1>5. CASE SwapSync
    BY <1>5 DEF SwapSync, ReleaseChannel
<1>6. CASE BeginSync
  <2>1. /\ loop = "sync" /\ started < Len(tmp_sync_tasks) /\ tmp_sync_tasks # <<>>
        /\ loop' = "in_sync" /\ started' = started + 1
        /\ UNCHANGED <<async_tasks, tmp_async_tasks, sync_tasks, tmp_sync_tasks>>
    BY <1>6 DEF BeginSync
  <2>2. Len(tmp_sync_tasks) = 1
    BY <2>1
  <2>3. started = 0 /\ started' = 1
    BY <2>1, <2>2
  <2>4. is_post_flush
    BY <2>1, <2>2, <2>3
  <2>5. ~ReleaseChannel
    BY <2>1 DEF ReleaseChannel
  <2>6. sync_tasks = <<>> /\ sync_tasks' = <<>>
    BY <2>1
  <2>7. send_pc'[Io] = "idle"
    BY <2>1 DEF IoInLoop, InHandler, Callback
  <2>8. OneFlushTask'
    BY <2>1, <2>2, <2>3, <2>4, <2>6, <2>7
  <2> QED  BY <2>1, <2>5, <2>8
<1>7. CASE ClearSync
    BY <1>7 DEF ClearSync, ReleaseChannel
<1>8. CASE ReleaseChannel
    BY <1>8 DEF ReleaseChannel
<1> QED  BY <1>1, <1>2, <1>3, <1>4, <1>5, <1>6, <1>7, <1>8 DEF LoopStep

\* The channel is taken away by the collector alone.
LEMMA ChannelGoesWithRelease ==
    ASSUME [SessionNext]_vars, LifeInv, channel \/ in_collector
    PROVE  channel' \/ in_collector' \/ Release
<1> USE DEF ownVars
<1>1. CASE IoProgress
  <2>1. CASE CloseSocket
    <3>1. in_map /\ channel
      BY <2>1, InMapAtClose DEF CloseSocket, IoIn, SessionInMapAtClose, LifeInv, MapKept
    <3> QED  BY <2>1, <3>1 DEF CloseSocket
  <2>2. CASE LinkChannel \/ LinkFails \/ EndEnterCb \/ RunTask
    BY <2>2 DEF LinkChannel, LinkFails, EndEnterCb, RunTask
  <2>3. CASE LoopOnly \/ EpollWait \/ EventsDone
    BY <2>3 DEF LoopOnly, EpollWait, EventsDone, sessionVars
  <2>4. CASE DispatchRecv \/ DispatchSend \/ DispatchClose \/ Readv \/ ReadvEnds \/ EndDataCb
    BY <2>4 DEF DispatchRecv, DispatchSend, DispatchClose, Readv, ReadvEnds, EndDataCb
  <2>5. CASE ShutdownTask \/ FlushTask \/ FlushDone \/ FlushFaults
    BY <2>5 DEF ShutdownTask, FlushTask, FlushDone, FlushFaults
  <2>6. CASE Splice \/ FlushEnds \/ WritevEagain \/ WritevFails \/ Writev
    BY <2>6 DEF Splice, FlushEnds, WritevEagain, WritevFails, Writev
  <2>7. CASE CompletePacket \/ EndCompleteCb \/ KeepRest \/ AllComplete \/ CloseAgain \/ EndDiscCb
    BY <2>7 DEF CompletePacket, EndCompleteCb, KeepRest, AllComplete, CloseAgain, EndDiscCb
  <2> QED  BY <1>1, <2>1, <2>2, <2>3, <2>4, <2>5, <2>6, <2>7 DEF IoProgress
<1>2. ASSUME NEW t \in Threads, SendStep(t) \/ WakeupStep(t) \/ Send(t)
      PROVE  UNCHANGED <<channel, in_collector>>
    BY <1>2 DEF SendStep, CheckPostFlush, SetPostFlush, PostFlush, WakeupStep, Send, sessionVars
<1>3. CASE AddSessionHere \/ ShutdownNow
    BY <1>3 DEF AddSessionHere, ShutdownNow
<1>4. ASSUME NEW t \in AppThreads, AddSession(t) \/ PostShutdown(t) \/ DropSession(t)
      PROVE  UNCHANGED <<channel, in_collector>>
    BY <1>4 DEF AddSession, PostShutdown, DropSession, sessionVars
<1>5. CASE PeerSends \/ PeerFin \/ PeerReset \/ PeerReads
    BY <1>5, NetworkPart
<1>6. CASE UNCHANGED vars
    BY <1>6 DEF vars, sessionVars
<1> QED  BY <1>1, <1>2, <1>3, <1>4, <1>5, <1>6 DEF SessionNext, UserStep

\* A step that leaves the lists, the loop, the flag and the senders alone.
LEMMA HandlerKeepsFlushes ==
    ASSUME FlushOwned, UNCHANGED <<loop, queueVars, is_post_flush, send_pc, held>>
    PROVE  /\ OneFlushTask'
           /\ send_pc'[Io] = "idle" => SentFromCallbacks'
BY DEF FlushOwned, OneFlushTask, SentFromCallbacks, HasNoFlush, OnlyFlush, queueVars

LEMMA IoKeepsFlushOwned ==
    ASSUME "app" \notin SendSites, PassInv, FlushOwned, IoInLoop, SendPcOK, IoProgress
    PROVE  SentFromCallbacks' /\ OneFlushTask' /\ FlushInSyncPass'
<1> USE DEF FlushInSyncPass, FlushCode, Callback
<1> send_pc[Io] # "idle" => io \in Callback /\ loop \in {"events", "in_async", "in_sync"}
    BY DEF FlushOwned, SentFromCallbacks, IoInLoop, InHandler
<1> io # "none" => loop \in {"events", "in_async", "in_sync"}
    BY DEF IoInLoop, InHandler
<1> calls # <<>> => loop = "events"
    BY DEF IoInLoop
<1> FlushInSyncPass
    BY DEF FlushOwned
<1>1. CASE LoopOnly \/ EventsDone \/ Release \/ EpollWait
  <2>1. LoopStep /\ UNCHANGED <<is_post_flush, send_pc, io, held>> /\ ~EndTask
    BY <1>1 DEF LoopOnly, EventsDone, Release, EpollWait, LoopStep, sessionVars, flagVars, ownVars,
                ioVars, EndTask, CheckRun, ClearWakeupFlag, SwapAsync, ClearAsync, SwapSync,
                ClearSync, IoAt, EndEvents, ReleaseChannel, EpollReturn
  <2>2. OneFlushTask' /\ SentFromCallbacks'
    BY <2>1, LoopKeepsFlushes DEF FlushOwned, SentFromCallbacks
  <2>3. FlushInSyncPass'
    <3>1. CASE io = "none"
      BY <2>1, <3>1
    <3>2. CASE io # "none"
      BY <1>1, <3>2 DEF LoopOnly, EventsDone, Release, EpollWait, EndEvents, CheckRun,
          ClearWakeupFlag, SwapAsync, ClearAsync, SwapSync, ClearSync, IoAt, ReleaseChannel,
          EpollReturn
    <3> QED  BY <3>1, <3>2
  <2> QED  BY <2>2, <2>3
<1>2. CASE RunTask
  <2>1. /\ LoopStep /\ ~EndTask /\ UNCHANGED <<is_post_flush, send_pc, held>> /\ io = "none"
        /\ loop \in {"async", "sync"}
    BY <1>2 DEF RunTask, LoopStep, BeginAsync, BeginSync, flagVars, ownVars, EndTask, IoAt
  <2>2. OneFlushTask' /\ SentFromCallbacks'
    BY <2>1, LoopKeepsFlushes DEF FlushOwned, SentFromCallbacks
  <2>3. CASE BeginAsync /\ io' = TaskBody(tmp_async_tasks[started + 1])
    <3>1. started + 1 \in DOMAIN tmp_async_tasks /\ loop' = "in_async"
      BY <2>3, ListFacts DEF BeginAsync
    <3>2. tmp_async_tasks[started + 1].kind # "flush"
      BY <3>1 DEF FlushOwned, SentFromCallbacks, HasNoFlush
    <3> QED  BY <2>2, <2>3, <3>1, <3>2 DEF TaskBody
  <2>4. CASE BeginSync /\ io' = TaskBody(tmp_sync_tasks[started + 1])
    <3>1. started + 1 \in DOMAIN tmp_sync_tasks /\ loop' = "in_sync"
      BY <2>4, ListFacts DEF BeginSync
    <3>2. tmp_sync_tasks[started + 1].kind = "flush"
      BY <3>1 DEF FlushOwned, SentFromCallbacks, OnlyFlush
    <3> QED  BY <2>2, <2>4, <3>1, <3>2 DEF TaskBody
  <2> QED  BY <1>2, <2>3, <2>4 DEF RunTask
<1>3. CASE FlushDone
  <2>1. /\ loop = "in_sync" /\ loop' = "sync" /\ UNCHANGED queueVars /\ is_post_flush' = FALSE
        /\ UNCHANGED <<send_pc, held>> /\ send_pc[Io] = "idle" /\ io' = "none"
    BY <1>3 DEF FlushDone, IoIn, EndTask, ownVars
  <2>2. SentFromCallbacks'
    BY <2>1 DEF FlushOwned, SentFromCallbacks, HasNoFlush, OnlyFlush, queueVars
  <2>3. OneFlushTask'
    BY <2>1 DEF FlushOwned, OneFlushTask, queueVars
  <2> QED  BY <2>1, <2>2, <2>3
<1>4. CASE LinkFails \/ EndEnterCb \/ ShutdownTask
  <2>1. /\ \/ UNCHANGED <<loop, queueVars>> /\ loop = "events"
           \/ loop = "in_async" /\ loop' = "async" /\ UNCHANGED queueVars
        /\ UNCHANGED <<is_post_flush, send_pc, held>> /\ send_pc[Io] = "idle" /\ io' = "none"
    BY <1>4 DEF LinkFails, EndEnterCb, ShutdownTask, IoIn, EndTask, ReturnToLoop, flagVars, ownVars,
                threadVars
  <2>2. SentFromCallbacks'
    BY <2>1 DEF FlushOwned, SentFromCallbacks, HasNoFlush, OnlyFlush, queueVars
  <2>3. OneFlushTask'
    BY <2>1 DEF FlushOwned, OneFlushTask, queueVars
  <2> QED  BY <2>1, <2>2, <2>3
<1>5. CASE LinkChannel
  <2>1. /\ UNCHANGED <<loop, queueVars, is_post_flush, send_pc, held>> /\ send_pc[Io] = "idle"
        /\ io = "link" /\ io' = "enter_cb"
    BY <1>5 DEF LinkChannel, threadVars, flagVars, FlushOwned, SentFromCallbacks
  <2> QED  BY <2>1, HandlerKeepsFlushes
<1>6. ASSUME UNCHANGED <<loop, queueVars, is_post_flush, send_pc, held>>, send_pc[Io] = "idle",
             FlushInSyncPass'
      PROVE  SentFromCallbacks' /\ OneFlushTask' /\ FlushInSyncPass'
    BY <1>6, HandlerKeepsFlushes
<1> USE DEF threadVars, flagVars, ownVars, IoIn
<1>7. CASE DispatchRecv \/ DispatchSend \/ DispatchClose
    BY <1>6, <1>7 DEF DispatchRecv, DispatchSend, DispatchClose
<1>8. CASE Readv \/ ReadvEnds \/ EndDataCb
    BY <1>6, <1>8 DEF Readv, ReadvEnds, EndDataCb
<1>9. CASE FlushTask \/ FlushFaults
    BY <1>6, <1>9 DEF FlushTask, FlushFaults, ioVars
<1>10. CASE Splice \/ FlushEnds \/ WritevEagain \/ WritevFails \/ Writev
    BY <1>6, <1>10 DEF Splice, FlushEnds, WritevEagain, WritevFails, Writev, Return
<1>11. CASE CompletePacket \/ EndCompleteCb \/ KeepRest \/ AllComplete
    BY <1>6, <1>11 DEF CompletePacket, EndCompleteCb, KeepRest, AllComplete
<1>12. CASE CloseSocket \/ CloseAgain \/ EndDiscCb
    BY <1>6, <1>12 DEF CloseSocket, CloseAgain, EndDiscCb, Return
<1> QED  BY <1>1, <1>2, <1>3, <1>4, <1>5, <1>7, <1>8, <1>9, <1>10, <1>11, <1>12 DEF IoProgress

\* A callback that sends: it raises the flag, then posts.
LEMMA SendingKeepsFlushOwned ==
    ASSUME "app" \notin SendSites, PassInv, FlushOwned, SendPcOK, LifeInv, IoInLoop,
           NEW t \in Threads, SendStep(t) \/ Send(t)
    PROVE  SentFromCallbacks' /\ OneFlushTask' /\ FlushInSyncPass' /\ FlushHasChannel'
<1> USE DEF FlushInSyncPass, FlushCode, Callback
<1>1. t = Io
  <2>1. ASSUME t \in AppThreads  PROVE FALSE
    BY <2>1, IoAssumption DEF FlushOwned, SentFromCallbacks, SendStep, CheckPostFlush,
       SetPostFlush, PostFlush, Send
  <2> QED  BY <2>1 DEF Threads
<1>2. \A u \in AppThreads : u # Io
    BY IoAssumption
<1>3. CASE CheckPostFlush(Io) \/ SetPostFlush(Io) \/ Send(Io)
  <2>1. /\ UNCHANGED <<loop, queueVars, held, io, channel, in_collector>>
        /\ io \in Callback /\ send_pc'[Io] \in {"idle", "check", "set", "post"}
        /\ \A u \in AppThreads : send_pc'[u] = send_pc[u]
        /\ send_pc'[Io] = "set" => ~is_post_flush
        /\ send_pc'[Io] = "post" => is_post_flush' /\ send_pc[Io] = "set"
        /\ is_post_flush => is_post_flush'
        /\ is_post_flush' /\ ~is_post_flush => send_pc[Io] = "set"
    BY <1>2, <1>3 DEF CheckPostFlush, SetPostFlush, Send, SendPcOK, threadVars, flagVars, ownVars,
       ioVars, Threads, FlushOwned, SentFromCallbacks
  <2>2. SentFromCallbacks'
    BY <2>1 DEF FlushOwned, SentFromCallbacks, HasNoFlush, OnlyFlush, queueVars
  <2>3. OneFlushTask'
    BY <2>1 DEF FlushOwned, OneFlushTask, queueVars
  <2> QED  BY <2>1, <2>2, <2>3 DEF FlushOwned, FlushHasChannel, queueVars
<1>4. CASE PostFlush(Io)
  <2>1. /\ UNCHANGED <<loop, async_tasks, tmp_async_tasks, tmp_sync_tasks, started, held, io, channel,
                       in_collector, is_post_flush>>
        /\ send_pc[Io] = "post" /\ send_pc'[Io] = "idle"
        /\ \A u \in AppThreads : send_pc'[u] = send_pc[u]
    BY <1>2, <1>4 DEF PostFlush, Post, SendPcOK, flagVars, ownVars, ioVars, Threads
  <2> DEFINE late == loop \in AfterSyncSwap
  <2>2. sync_tasks' = Append(sync_tasks, [kind |-> "flush", late |-> late]) /\ late \in BOOLEAN
    BY <1>4 DEF PostFlush, Post
  <2> HIDE DEF late
  <2>3. [kind |-> "flush", late |-> late] \in Task /\ [kind |-> "flush", late |-> late].kind = "flush"
    BY <2>2, KindAssumption DEF Task
  <2>4. io \in Callback /\ loop # "in_sync" /\ sync_tasks = <<>> /\ is_post_flush
    BY <2>1 DEF FlushOwned, SentFromCallbacks, OneFlushTask
  <2>5. OnlyFlush(sync_tasks)'
    BY <2>2, <2>3, ListFacts, AppendOnlyFlush DEF FlushOwned, SentFromCallbacks
  <2>6. Len(sync_tasks') = 1
    BY <2>2, <2>3, <2>4, AppendProperties, ListFacts
  <2>7. SentFromCallbacks'
    BY <2>1, <2>5 DEF FlushOwned, SentFromCallbacks, HasNoFlush, OnlyFlush
  <2>8. loop \in {"events", "in_async"}
    BY <2>4 DEF IoInLoop, InHandler
  <2>9. OneFlushTask'
    BY <2>1, <2>4, <2>6, <2>8 DEF FlushOwned, OneFlushTask
  <2>10. channel \/ in_collector
    BY <2>4 DEF LifeInv, MapKept, ChannelAliveInUse
  <2> QED  BY <2>1, <2>7, <2>9, <2>10 DEF FlushOwned, FlushHasChannel
<1> QED  BY <1>1, <1>3, <1>4 DEF SendStep

\* The others post what is not a flush, and only from other threads.
LEMMA UserKeepsFlushOwned ==
    ASSUME "app" \notin SendSites, PassInv, FlushOwned, IoInLoop,
           \/ AddSessionHere \/ ShutdownNow
           \/ \E t \in AppThreads : AddSession(t) \/ PostShutdown(t) \/ DropSession(t)
    PROVE  SentFromCallbacks' /\ OneFlushTask' /\ FlushInSyncPass' /\ FlushHasChannel'
<1> USE DEF FlushInSyncPass, FlushCode, Callback
<1>1. CASE AddSessionHere \/ ShutdownNow
  <2>1. UNCHANGED <<loop, queueVars, is_post_flush, send_pc, held, channel, in_collector>>
    BY <1>1 DEF AddSessionHere, ShutdownNow, threadVars, flagVars, ownVars
  <2>2. send_pc[Io] = "idle" /\ FlushInSyncPass'
    BY <1>1 DEF AddSessionHere, ShutdownNow, FlushOwned, SentFromCallbacks, IoAt, IoIn, ioVars,
       threadVars
  <2> QED  BY <2>1, <2>2, HandlerKeepsFlushes DEF FlushOwned, FlushHasChannel, queueVars
<1>2. ASSUME NEW t \in AppThreads, PostShutdown(t) \/ DropSession(t)  PROVE FALSE
    BY <1>2 DEF PostShutdown, DropSession, FlushOwned, SentFromCallbacks
<1>3. ASSUME NEW t \in AppThreads, AddSession(t)
      PROVE  SentFromCallbacks' /\ OneFlushTask' /\ FlushInSyncPass' /\ FlushHasChannel'
  <2>1. /\ UNCHANGED <<loop, sync_tasks, tmp_async_tasks, tmp_sync_tasks, started, held, io, channel,
                       in_collector, is_post_flush, send_pc>>
    BY <1>3 DEF AddSession, Post, flagVars, ioVars
  <2> DEFINE late == loop \in AfterAsyncSwap
  <2>2. async_tasks' = Append(async_tasks, [kind |-> "enter", late |-> late]) /\ late \in BOOLEAN
    BY <1>3, IoAssumption DEF AddSession, Post
  <2> HIDE DEF late
  <2>3. [kind |-> "enter", late |-> late] \in Task /\ [kind |-> "enter", late |-> late].kind # "flush"
    BY <2>2, KindAssumption DEF Task
  <2>4. HasNoFlush(async_tasks)'
    BY <2>2, <2>3, ListFacts, AppendNoFlush DEF FlushOwned, SentFromCallbacks
  <2>5. SentFromCallbacks'
    BY <2>1, <2>4 DEF FlushOwned, SentFromCallbacks, HasNoFlush, OnlyFlush
  <2>6. OneFlushTask'
    BY <2>1 DEF FlushOwned, OneFlushTask
  <2> QED  BY <2>1, <2>5, <2>6 DEF FlushOwned, FlushHasChannel
<1> QED  BY <1>1, <1>2, <1>3

LEMMA FlushOwnedStep ==
    ASSUME "app" \notin SendSites, PassInv, FlushOwned, SendPcOK, LifeInv, IoInLoop,
           [SessionNext]_vars
    PROVE  FlushOwned'
<1>1. CASE IoProgress
  <2>1. SentFromCallbacks' /\ OneFlushTask' /\ FlushInSyncPass'
    BY <1>1, IoKeepsFlushOwned
  <2>2. (sync_tasks' # <<>> \/ tmp_sync_tasks' # <<>>)
           => (sync_tasks # <<>> \/ tmp_sync_tasks # <<>>) /\ ~ReleaseChannel
    <3>1. CASE LoopStep /\ ~EndTask /\ UNCHANGED <<is_post_flush, send_pc>>
      BY <3>1, LoopKeepsFlushes
    <3>2. CASE EndTask
      BY <3>2, ListFacts DEF EndTask, ReleaseChannel, IoAt, queueVars
    <3>3. CASE UNCHANGED threadVars
      BY <3>3 DEF threadVars, queueVars, ReleaseChannel, IoAt
    <3>4. CASE LoopStep /\ ~EndTask
      <4>1. UNCHANGED <<is_post_flush, send_pc>>
        BY <1>1, <3>4 DEF IoProgress, LoopOnly, EpollWait, EventsDone, Release, DispatchRecv,
           DispatchSend, DispatchClose, LinkChannel, LinkFails, EndEnterCb, Readv, ReadvEnds,
           EndDataCb, RunTask, ShutdownTask, FlushTask, FlushDone, FlushFaults, Splice, FlushEnds,
           WritevEagain, WritevFails, Writev, CompletePacket, EndCompleteCb, KeepRest, AllComplete,
           CloseSocket, CloseAgain, EndDiscCb, sessionVars, flagVars
      <4> QED  BY <3>1, <3>4, <4>1
    <3> QED  BY <1>1, <3>2, <3>3, <3>4, LoopPart
  <2>3. FlushHasChannel'
    BY <2>2, ChannelGoesWithRelease DEF FlushOwned, FlushHasChannel, Release
  <2> QED  BY <2>1, <2>3 DEF FlushOwned
<1>2. ASSUME NEW t \in Threads, SendStep(t) \/ Send(t)  PROVE FlushOwned'
    BY <1>2, SendingKeepsFlushOwned DEF FlushOwned
<1>3. ASSUME NEW t \in Threads, WakeupStep(t)  PROVE FlushOwned'
    BY <1>3 DEF WakeupStep, Wakeup, ExchangeFlag, WriteEventfd, sessionVars, ioVars, flagVars,
       ownVars, queueVars, FlushOwned, SentFromCallbacks, HasNoFlush, OnlyFlush, OneFlushTask,
       FlushInSyncPass, FlushHasChannel
<1>4. CASE \/ AddSessionHere \/ ShutdownNow
           \/ \E t \in AppThreads : AddSession(t) \/ PostShutdown(t) \/ DropSession(t)
    BY <1>4, UserKeepsFlushOwned DEF FlushOwned
<1>5. CASE UNCHANGED <<threadVars, ioVars, flagVars, ownVars, send_pc>>
    BY <1>5 DEF threadVars, ioVars, flagVars, ownVars, queueVars, FlushOwned, SentFromCallbacks,
       HasNoFlush, OnlyFlush, OneFlushTask, FlushInSyncPass, FlushHasChannel
<1>6. CASE PeerSends \/ PeerFin \/ PeerReset \/ PeerReads
    BY <1>5, <1>6, NetworkPart
<1>7. CASE UNCHANGED vars
    BY <1>5, <1>7 DEF vars, sessionVars
<1> QED  BY <1>1, <1>2, <1>3, <1>4, <1>6, <1>7 DEF SessionNext, UserStep

LEMMA FlushFindsData ==
    ASSUME [SessionNext]_vars, FlushOwned, fault # "freed_socket_data"
    PROVE  fault' # "freed_socket_data"
<1>1. io \in {"flush_task", "flush_done"} => Alive
    BY DEF FlushOwned, FlushInSyncPass, OneFlushTask, FlushHasChannel, Alive
<1>2. CASE FlushFaults
    BY <1>1, <1>2 DEF FlushFaults, IoIn
<1>3. CASE UNCHANGED fault
    BY <1>3
<1>4. CASE IoProgress
  <2>1. \/ FlushFaults \/ UNCHANGED fault
    BY <1>4 DEF IoProgress, LoopOnly, EpollWait, EventsDone, Release, DispatchRecv, DispatchSend,
       DispatchClose, LinkChannel, LinkFails, EndEnterCb, Readv, ReadvEnds, EndDataCb, RunTask,
       ShutdownTask, FlushTask, FlushDone, Splice, FlushEnds, WritevEagain, WritevFails, Writev,
       CompletePacket, EndCompleteCb, KeepRest, AllComplete, CloseSocket, CloseAgain, EndDiscCb,
       sessionVars
  <2> QED  BY <1>2, <1>3, <2>1
<1>5. ASSUME NEW t \in Threads, SendStep(t) \/ WakeupStep(t) \/ Send(t)  PROVE UNCHANGED fault
    BY <1>5 DEF SendStep, CheckPostFlush, SetPostFlush, PostFlush, WakeupStep, Send, sessionVars
<1>6. CASE AddSessionHere \/ ShutdownNow
    BY <1>6 DEF AddSessionHere, ShutdownNow
<1>7. ASSUME NEW t \in AppThreads, AddSession(t) \/ PostShutdown(t) \/ DropSession(t)
      PROVE  UNCHANGED fault
    BY <1>7 DEF AddSession, PostShutdown, DropSession, sessionVars
<1>8. CASE PeerSends \/ PeerFin \/ PeerReset \/ PeerReads
    BY <1>8, NetworkPart
<1>9. CASE UNCHANGED vars
    BY <1>9 DEF vars, sessionVars
<1> QED  BY <1>4, <1>5, <1>6, <1>7, <1>8, <1>9 DEF SessionNext, UserStep

(* When only callbacks of the IO thread send, the raw socket_data pointer that
   post_flush captures (tcp_session.ipp:51-55) is valid when its task runs: the
   task runs in the same pass as the callback, and the collector releases the
   channel only at the end of a pass.  With a send of another thread this is not
   so, which a run shows.  For any sizes, and any number of threads. *)
THEOREM CallbackFlushFindsData ==
    ASSUME "app" \notin SendSites
    PROVE  SessionSafety => []FlushTaskTargetAlive
<1>1. SessionInit => FlushOwned /\ fault # "freed_socket_data" /\ IoInLoop
  <2> SUFFICES ASSUME SessionInit
               PROVE  FlushOwned /\ fault # "freed_socket_data" /\ IoInLoop
    OBVIOUS
  <2>1. /\ io = "none" /\ calls = <<>> /\ held = {} /\ fault = "none"
        /\ send_pc = [t \in Threads |-> "idle"] /\ loop = "check"
        /\ async_tasks = <<>> /\ tmp_async_tasks = <<>>
        /\ sync_tasks = <<>> /\ tmp_sync_tasks = <<>>
    BY DEF SessionInit, ThreadInit
  <2>2. SentFromCallbacks
    BY <2>1 DEF SentFromCallbacks, HasNoFlush, OnlyFlush, Threads
  <2> QED  BY <2>1, <2>2 DEF FlushOwned, OneFlushTask, FlushInSyncPass, FlushCode,
                             FlushHasChannel, IoInLoop, Threads
<1>2. FlagInv => SendPcOK
    BY DEF FlagInv
<1>3. PassInv /\ SendPcOK /\ LifeInv /\ IoInLoop /\ FlushOwned /\ [SessionNext]_vars => FlushOwned'
    BY FlushOwnedStep
<1>4. FlushOwned /\ fault # "freed_socket_data" /\ [SessionNext]_vars
         => (fault # "freed_socket_data")'
    BY FlushFindsData
<1> QED  BY <1>1, <1>2, <1>3, <1>4, IoInLoopStep, PassInvOfSession, FlagInvHolds, LifeInvHolds, PTL
         DEF SessionSafety, FlushTaskTargetAlive
=============================================================================

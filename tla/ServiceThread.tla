---------------------------- MODULE ServiceThread ----------------------------
(***************************************************************************)
(* One IO thread of spdnet: the loop of service_thread::run, the two task   *)
(* lists of task_executor, the wakeup path to the eventfd, and the owner    *)
(* that stops and joins the thread.  Handlers and tasks are opaque here:    *)
(* a task is its kind.  TcpSession gives them their bodies.                 *)
(*                                                                          *)
(* The executor is identified with the threads that call it: AppThreads     *)
(* are all threads other than the IO thread (users of a session, acceptor   *)
(* threads, other IO threads).                                              *)
(***************************************************************************)
EXTENDS Naturals, Sequences

CONSTANTS AppThreads,    \* threads that are not this IO thread
          Io,            \* the IO thread
          TaskKind       \* what a posted functor does

ASSUME IoAssumption == Io \notin AppThreads

Threads == AppThreads \cup {Io}

VARIABLES loop,             \* where the IO thread is in its loop
          async_tasks,      \* task_executor::async_tasks, under task_mutex_
          tmp_async_tasks,
          sync_tasks,       \* only the IO thread touches these two
          tmp_sync_tasks,
          started,          \* tasks of the tmp list begun in this pass
          wakeup_flag,      \* service_thread::wakeup_flag_
          eventfd,          \* the eventfd's counter is not zero
          is_run,           \* *is_run, shared with event_service
          post_pc,          \* where each thread is in task_executor::post
          owner             \* event_service::stop

queueVars == <<async_tasks, tmp_async_tasks, sync_tasks, tmp_sync_tasks, started>>
wakeVars == <<wakeup_flag, eventfd, post_pc>>
ownerVars == <<is_run, owner>>
threadVars == <<loop, queueVars, wakeVars, ownerVars>>

LoopPhase == {"check", "wait", "events", "clear", "swap_async", "async",
              "in_async", "swap_sync", "sync", "in_sync", "release", "exit"}

\* `late` is history, read by no action: the task was posted too late to run
\* in the pass that was under way.
Task == [kind : TaskKind, late : BOOLEAN]

\* Phases from the swap of async_tasks (of sync_tasks) to the end of the pass.
AfterAsyncSwap == {"async", "in_async", "swap_sync", "sync", "in_sync", "release"}
AfterSyncSwap == {"sync", "in_sync", "release"}

ThreadInit ==
    /\ loop = "check"
    /\ async_tasks = <<>> /\ tmp_async_tasks = <<>>
    /\ sync_tasks = <<>> /\ tmp_sync_tasks = <<>>
    /\ started = 0
    /\ wakeup_flag = FALSE
    /\ eventfd = FALSE
    /\ is_run = TRUE
    /\ post_pc = [t \in Threads |-> "idle"]
    /\ owner = "running"

-----------------------------------------------------------------------------
(* task_executor::post that does not run the task at once: the task goes to  *)
(* the list of the calling thread's class, then wakeup() is called.          *)

Post(t, kind) ==
    /\ post_pc[t] = "idle"
    /\ IF t = Io
       THEN /\ sync_tasks' = Append(sync_tasks, [kind |-> kind, late |-> loop \in AfterSyncSwap])
            /\ UNCHANGED async_tasks
       ELSE /\ async_tasks' = Append(async_tasks, [kind |-> kind, late |-> loop \in AfterAsyncSwap])
            /\ UNCHANGED sync_tasks
    /\ post_pc' = [post_pc EXCEPT ![t] = "exchange"]
    /\ UNCHANGED <<loop, tmp_async_tasks, tmp_sync_tasks, started,
                   wakeup_flag, eventfd, ownerVars>>

\* service_thread::wakeup: the eventfd is written when the flag was set already.
ExchangeFlag(t) ==
    /\ post_pc[t] = "exchange"
    /\ wakeup_flag' = TRUE
    /\ post_pc' = [post_pc EXCEPT ![t] = IF ~wakeup_flag THEN "idle" ELSE "write"]
    /\ UNCHANGED <<loop, queueVars, eventfd, ownerVars>>

\* epoll_wakeup_channel::wakeup writes an int; write(2) on an eventfd refuses
\* a buffer shorter than its 8-byte counter and leaves the counter alone.
WakeupBytes == 4
EventfdBytes == 8

WriteEventfd(t) ==
    /\ post_pc[t] = "write"
    /\ eventfd' = (eventfd \/ WakeupBytes >= EventfdBytes)
    /\ post_pc' = [post_pc EXCEPT ![t] = "idle"]
    /\ UNCHANGED <<loop, queueVars, wakeup_flag, ownerVars>>

-----------------------------------------------------------------------------
(* The loop.  A step of the IO thread waits for its own call of post.        *)

IoAt(phase) == loop = phase /\ post_pc[Io] = "idle"

CheckRun ==
    /\ IoAt("check")
    /\ loop' = IF is_run THEN "wait" ELSE "exit"
    /\ UNCHANGED <<queueVars, wakeVars, ownerVars>>

\* Mutant: epoll_wait without a timeout.
EpollReturn_NoTimeout ==
    /\ IoAt("wait") /\ eventfd
    /\ loop' = "events"
    /\ eventfd' = FALSE
    /\ UNCHANGED <<queueVars, wakeup_flag, post_pc, ownerVars>>

\* epoll_wait returns because of an event or after wait_timeout_ms_; the
\* wakeup channel's on_recv empties the eventfd.
EpollReturn ==
    /\ IoAt("wait")
    /\ loop' = "events"
    /\ eventfd' = FALSE
    /\ UNCHANGED <<queueVars, wakeup_flag, post_pc, ownerVars>>

EndEvents ==
    /\ IoAt("events")
    /\ loop' = "clear"
    /\ UNCHANGED <<queueVars, wakeVars, ownerVars>>

ClearWakeupFlag ==
    /\ IoAt("clear")
    /\ wakeup_flag' = FALSE
    /\ loop' = "swap_async"
    /\ UNCHANGED <<queueVars, eventfd, post_pc, ownerVars>>

\* Mutant: the list is copied, not swapped.
SwapAsync_Copies ==
    /\ IoAt("swap_async")
    /\ tmp_async_tasks' = async_tasks
    /\ loop' = "async"
    /\ UNCHANGED <<async_tasks, sync_tasks, tmp_sync_tasks, started, wakeVars, ownerVars>>

SwapAsync ==
    /\ IoAt("swap_async")
    /\ tmp_async_tasks' = async_tasks
    /\ async_tasks' = tmp_async_tasks
    /\ loop' = "async"
    /\ UNCHANGED <<sync_tasks, tmp_sync_tasks, started, wakeVars, ownerVars>>

\* The functors, and what they captured, are destroyed by the clear() after
\* the loop over the list, not one by one.
BeginAsync ==
    /\ IoAt("async")
    /\ started < Len(tmp_async_tasks)
    /\ started' = started + 1
    /\ loop' = "in_async"
    /\ UNCHANGED <<async_tasks, tmp_async_tasks, sync_tasks, tmp_sync_tasks, wakeVars, ownerVars>>

\* Mutants: the list is not cleared; the position is kept; sync_tasks wait for
\* the next pass.
ClearAsync_KeepsList ==
    /\ IoAt("async") /\ started = Len(tmp_async_tasks)
    /\ started' = 0 /\ loop' = "swap_sync"
    /\ UNCHANGED <<async_tasks, tmp_async_tasks, sync_tasks, tmp_sync_tasks, wakeVars, ownerVars>>

ClearAsync_KeepsPosition ==
    /\ IoAt("async") /\ started = Len(tmp_async_tasks)
    /\ tmp_async_tasks' = <<>> /\ loop' = "swap_sync"
    /\ UNCHANGED <<async_tasks, sync_tasks, tmp_sync_tasks, started, wakeVars, ownerVars>>

ClearAsync ==
    /\ IoAt("async")
    /\ started = Len(tmp_async_tasks)
    /\ tmp_async_tasks' = <<>>
    /\ started' = 0
    /\ loop' = "swap_sync"
    /\ UNCHANGED <<async_tasks, sync_tasks, tmp_sync_tasks, wakeVars, ownerVars>>

SwapSync ==
    /\ IoAt("swap_sync")
    /\ tmp_sync_tasks' = sync_tasks
    /\ sync_tasks' = tmp_sync_tasks
    /\ loop' = "sync"
    /\ UNCHANGED <<async_tasks, tmp_async_tasks, started, wakeVars, ownerVars>>

BeginSync ==
    /\ IoAt("sync")
    /\ started < Len(tmp_sync_tasks)
    /\ started' = started + 1
    /\ loop' = "in_sync"
    /\ UNCHANGED <<async_tasks, tmp_async_tasks, sync_tasks, tmp_sync_tasks, wakeVars, ownerVars>>

\* Mutant: run() goes on until no task is left.
ClearSync_Drains ==
    /\ IoAt("sync") /\ started = Len(tmp_sync_tasks)
    /\ tmp_sync_tasks' = sync_tasks /\ sync_tasks' = <<>>
    /\ started' = 0
    /\ loop' = IF sync_tasks = <<>> THEN "release" ELSE "sync"
    /\ UNCHANGED <<async_tasks, tmp_async_tasks, wakeVars, ownerVars>>

ClearSync ==
    /\ IoAt("sync")
    /\ started = Len(tmp_sync_tasks)
    /\ tmp_sync_tasks' = <<>>
    /\ started' = 0
    /\ loop' = "release"
    /\ UNCHANGED <<async_tasks, tmp_async_tasks, sync_tasks, wakeVars, ownerVars>>

\* A task returns.
EndTask ==
    /\ loop \in {"in_async", "in_sync"}
    /\ post_pc[Io] = "idle"
    /\ loop' = IF loop = "in_async" THEN "async" ELSE "sync"
    /\ UNCHANGED <<queueVars, wakeVars, ownerVars>>

\* channel_collector::release_channel; what it releases is TcpSession's.
ReleaseChannel ==
    /\ IoAt("release")
    /\ loop' = "check"
    /\ UNCHANGED <<queueVars, wakeVars, ownerVars>>

-----------------------------------------------------------------------------
(* event_service::stop, called by a thread that is not an IO thread.         *)

Stop ==
    /\ owner = "running"
    /\ is_run' = FALSE
    /\ owner' = "joining"
    /\ UNCHANGED <<loop, queueVars, wakeVars>>

Join ==
    /\ owner = "joining"
    /\ loop = "exit"
    /\ owner' = "joined"
    /\ UNCHANGED <<loop, queueVars, wakeVars, is_run>>

-----------------------------------------------------------------------------
\* Code of the user, or of a channel, runs in these phases and may post;
\* other threads post until the thread is joined.
InHandler == loop \in {"events", "in_async", "in_sync"}

EnvPost(t) ==
    /\ IF t = Io THEN InHandler ELSE owner # "joined"
    /\ \E kind \in TaskKind : Post(t, kind)

Wakeup(t) == ExchangeFlag(t) \/ WriteEventfd(t)

LoopStep ==
    \/ CheckRun \/ EpollReturn \/ EndEvents \/ ClearWakeupFlag
    \/ SwapAsync \/ BeginAsync \/ ClearAsync
    \/ SwapSync \/ BeginSync \/ ClearSync
    \/ EndTask \/ ReleaseChannel

ThreadNext ==
    \/ LoopStep
    \/ \E t \in Threads : EnvPost(t) \/ Wakeup(t)
    \/ Stop \/ Join

ThreadSafety == ThreadInit /\ [][ThreadNext]_threadVars

\* Every thread that can run is scheduled; handlers and tasks return.
ThreadFairness ==
    /\ WF_threadVars(LoopStep)
    /\ \A t \in Threads : WF_threadVars(Wakeup(t))
    /\ WF_threadVars(Join)

ThreadSpec == ThreadSafety /\ ThreadFairness

-----------------------------------------------------------------------------
(* Properties.                                                               *)

\* The variables have their types, and the pass is within its task list.
ThreadTypeOK ==
    /\ loop \in LoopPhase
    /\ async_tasks \in Seq(Task) /\ tmp_async_tasks \in Seq(Task)
    /\ sync_tasks \in Seq(Task) /\ tmp_sync_tasks \in Seq(Task)
    /\ started \in 0 .. Len(tmp_async_tasks) + Len(tmp_sync_tasks)
    /\ wakeup_flag \in BOOLEAN /\ eventfd \in BOOLEAN /\ is_run \in BOOLEAN
    /\ post_pc \in [Threads -> {"idle", "exchange", "write"}]
    /\ owner \in {"running", "joining", "joined"}

\* task_executor::run swaps into lists that are empty, so no task of an
\* earlier pass comes back, and what is behind a swap was posted after it.
SwapsAreClean ==
    /\ loop \notin {"async", "in_async"} => tmp_async_tasks = <<>>
    /\ loop \notin {"sync", "in_sync"} => tmp_sync_tasks = <<>>
    /\ loop \notin {"async", "in_async", "sync", "in_sync"} => started = 0
    /\ loop \in AfterAsyncSwap => \A i \in DOMAIN async_tasks : async_tasks[i].late
    /\ loop \in AfterSyncSwap => \A i \in DOMAIN sync_tasks : sync_tasks[i].late

\* While the thread is not told to stop, no task stays queued for ever: the
\* loop reaches it although the eventfd never wakes epoll_wait, because
\* epoll_wait times out, and although a task may post itself again.
PostedTaskRuns ==
    /\ (async_tasks # <<>>) ~> (async_tasks = <<>> \/ ~is_run)
    /\ (sync_tasks # <<>>) ~> (sync_tasks = <<>> \/ ~is_run)
    /\ (tmp_async_tasks # <<>>) ~> (tmp_async_tasks = <<>>)
    /\ (tmp_sync_tasks # <<>>) ~> (tmp_sync_tasks = <<>>)

\* event_service::stop returns: the loop sees the flag and the join ends,
\* even when tasks keep posting tasks.
StopTerminates == (owner = "joining") ~> (owner = "joined")

-----------------------------------------------------------------------------
\* What was posted and has not begun, in the order in which it will begin.
NotBegun(tmp, list) == SubSeq(tmp, started + 1, Len(tmp)) \o list

Mail == INSTANCE Mailbox WITH
            Letter <- Task,
            app_mail <- NotBegun(tmp_async_tasks, async_tasks),
            io_mail <- NotBegun(tmp_sync_tasks, sync_tasks),
            open <- is_run

\* task_executor delivers like a pair of mailboxes: each task once, in the
\* order of its class, whatever the swaps of the lists interleave with.
ImplementsMailbox == Mail!MailSafety
=============================================================================

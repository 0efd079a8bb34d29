----------------------------- MODULE Connector -----------------------------
(***************************************************************************)
(* connector.ipp and impl_linux/connect_context.h: one async_connector, its*)
(* connecting_context_ and cancel_token_, used by an application thread and*)
(* the service_threads that report the results.  Every access that another *)
(* thread can come between is a step: a system call on a descriptor number,*)
(* a critical section of context_guard_, an exchange of the token.         *)
(***************************************************************************)
EXTENDS Naturals, FiniteSets

CONSTANTS Conns,     \* calls of async_connect, each with its context and socket
          Threads,   \* service_threads
          Fds,       \* descriptor numbers, reused lowest first
          None

ASSUME ConnectorAssumption == /\ Fds \subseteq Nat /\ Fds # {} /\ None \notin Fds
                              /\ None \notin Conns \cup Threads /\ None # "app"
                              /\ Threads \cap {"app", "leak"} = {}

App == "app"
Actor == Threads \cup {App}

VARIABLES
    begun,     \* calls of async_connect that have a socket
    fd,        \* fd_ of a context
    thread,    \* its service_thread_
    socket,    \* the socket behind a descriptor number, named by its call
    context,   \* connecting_context_
    linked,    \* sockets registered with the epoll of their thread
    entered,   \* those whose session has entered
    tasks,     \* posted add_tcp_session tasks of a thread
    work,      \* the events or tasks that a thread has fetched
    collected, \* del_channel_list_ of a thread; "leak": lost by its data race
    token,     \* who has set cancel_token_
    at, job, how,  \* where an actor is, with which context, in which handler
    answers,   \* history: how often enter_cb or failed_cb has run
    lost       \* history: why the result of a call was lost

sockets == <<socket, linked>>
call == <<begun, fd, thread>>
vars == <<call, sockets, context, entered, tasks, work, collected, token, at, job, how,
          answers, lost>>

At(a, from, to) == at[a] = from /\ at' = [at EXCEPT ![a] = to]
Back(a) == IF a = App THEN "idle" ELSE "events"
Lose(c, why) == lost' = [lost EXCEPT ![c] = IF @ = "no" THEN why ELSE @]

\* close(fd_) closes whatever socket has the number now.
CloseFd(c) ==
    LET x == socket[fd[c]]
    IN /\ socket' = [socket EXCEPT ![fd[c]] = None]
       /\ linked' = linked \ {x}
       /\ IF x \in {c, None} THEN UNCHANGED lost ELSE Lose(x, "closed")
\* cancel_event: EPOLL_CTL_DEL of whatever has the number, in this epoll.
CancelEvent(c) ==
    LET x == socket[fd[c]]
    IN /\ linked' = IF x # None /\ thread[x] = thread[c] THEN linked \ {x} ELSE linked
       /\ IF x \in linked \ {c} /\ thread[x] = thread[c] THEN Lose(x, "closed")
          ELSE UNCHANGED lost

\* put_channel, not synchronised with release_channel on thread t.
Put(a, t, c) ==
    \E list \in {t} \cup (IF a # t /\ at[t] = "release" THEN {"leak"} ELSE {}) :
        collected' = [collected EXCEPT ![list] = @ \cup ({c} \ {None})]
Recycle_NotCollected(a, c) == /\ UNCHANGED collected
                              /\ context' = [context EXCEPT ![fd[c]] = None]
\* recycle_context: the map is searched by number.
Recycle(a, c) == /\ Put(a, thread[c], context[fd[c]])
                 /\ context' = [context EXCEPT ![fd[c]] = None]

-----------------------------------------------------------------------------
\* async_connect, on the application's thread.
CreateSocket(c) ==
    /\ At(App, "idle", "insert")
    /\ c \notin begun /\ begun' = begun \cup {c}
    /\ \E n \in Fds, t \in Threads :
          /\ socket[n] = None /\ \A k \in Fds : socket[k] = None => n <= k
          /\ fd' = [fd EXCEPT ![c] = n] /\ thread' = [thread EXCEPT ![c] = t]
          /\ socket' = [socket EXCEPT ![n] = c]
    /\ job' = [job EXCEPT ![App] = c]
    /\ UNCHANGED <<linked, context, entered, tasks, work, collected, token, how, answers, lost>>
InsertContext ==
    /\ At(App, "insert", "connect")
    /\ context' = [context EXCEPT ![fd[job[App]]] = job[App]]
    /\ UNCHANGED <<call, sockets, entered, tasks, work, collected, token, job, how, answers, lost>>
\* connect() is pending, or has its result at once and the handler runs here.
Connect ==
    /\ \/ At(App, "connect", "link") /\ socket[fd[job[App]]] # None /\ UNCHANGED how
       \/ At(App, "connect", "on_send") /\ socket[fd[job[App]]] # None /\ UNCHANGED how
       \/ At(App, "connect", "failed") /\ how' = [how EXCEPT ![App] = "on_close"]
    /\ UNCHANGED <<call, sockets, context, entered, tasks, work, collected, token, job, answers,
                   lost>>
Link_IgnoresFailure ==
    /\ \/ /\ At(App, "link", "idle") /\ socket[fd[job[App]]] = job[App]
          /\ linked' = linked \cup {job[App]}
       \/ At(App, "link", "idle") /\ UNCHANGED linked
    /\ UNCHANGED <<call, socket, context, entered, tasks, work, collected, token, job, how,
                   answers, lost>>
\* epoll_ctl fails for a closed number, or for want of memory.
Link ==
    /\ \/ /\ At(App, "link", "idle") /\ socket[fd[job[App]]] = job[App]
          /\ linked' = linked \cup {job[App]}
       \/ At(App, "link", "unlinked") /\ UNCHANGED linked
    /\ UNCHANGED <<call, socket, context, entered, tasks, work, collected, token, job, how,
                   answers, lost>>
\* No callback tells the caller.
LinkFailed ==
    LET c == job[App]
        x == socket[fd[c]]
    IN /\ At(App, "unlinked", "idle")
       /\ Recycle(App, c)
       /\ socket' = [socket EXCEPT ![fd[c]] = None] /\ linked' = linked \ {x}
       /\ lost' = [k \in Conns |-> IF lost[k] = "no" /\ k \in {c, x}
                                   THEN IF k = c THEN "unlinked" ELSE "closed" ELSE lost[k]]
       /\ UNCHANGED <<call, entered, tasks, work, token, job, how, answers>>

-----------------------------------------------------------------------------
\* connect_context's handlers and the two notifications.
OnSend(a) ==
    /\ \/ /\ At(a, "on_send", "success") /\ socket[fd[job[a]]] # None
          /\ UNCHANGED how
       \/ At(a, "on_send", "failed") /\ how' = [how EXCEPT ![a] = "on_send"]
    /\ CancelEvent(job[a])
    /\ UNCHANGED <<call, socket, context, entered, tasks, work, collected, token, job, answers>>
AfterFailed(a) == IF how[a] = "on_close" THEN "cancel" ELSE "close"
\* "try lock": a result that finds the token set is dropped.
TryLock(a, from, locked, dropped) ==
    /\ IF token = None THEN At(a, from, locked) /\ token' = a /\ UNCHANGED lost
       ELSE At(a, from, dropped) /\ UNCHANGED token /\ Lose(job[a], "held")
    /\ UNCHANGED <<call, sockets, context, entered, tasks, work, collected, job, how, answers>>
Success(a) == TryLock(a, "success", "enter", Back(a))
Failed(a) == TryLock(a, "failed", "recycle_failed", AfterFailed(a))

\* on_tcp_session_enter on the socket that has the number.
SessionEnters(c) ==
    LET x == socket[fd[c]]
    IN IF x # None /\ x \notin linked
       THEN /\ entered' = entered \cup {c} /\ answers' = [answers EXCEPT ![c] = @ + 1]
            /\ linked' = linked \cup ({x} \cap {c}) /\ UNCHANGED lost
       ELSE UNCHANGED <<entered, answers, linked>> /\ Lose(c, "closed")
\* add_tcp_session: at once on the service_thread, else posted to it.
AddTcpSession(a) ==
    LET c == job[a]
    IN /\ At(a, "enter", "recycle")
       /\ IF a = thread[c] THEN SessionEnters(c) /\ UNCHANGED tasks
          ELSE /\ tasks' = [tasks EXCEPT ![thread[c]] = @ \cup {c}]
               /\ UNCHANGED <<entered, answers, linked, lost>>
       /\ UNCHANGED <<call, socket, context, work, collected, token, job, how>>
RecycleContext(a) ==
    /\ At(a, "recycle", "unlock") \/ At(a, "recycle_failed", "report")
    /\ Recycle(a, job[a])
    /\ UNCHANGED <<call, sockets, entered, tasks, work, token, job, how, answers, lost>>
ReportFailed(a) ==
    /\ At(a, "report", "unlock_failed")
    /\ answers' = [answers EXCEPT ![job[a]] = @ + 1]
    /\ CloseFd(job[a])
    /\ UNCHANGED <<call, context, entered, tasks, work, collected, token, job, how>>
Unlock(a) ==
    /\ At(a, "unlock", Back(a)) \/ At(a, "unlock_failed", AfterFailed(a))
    /\ token' = None
    /\ UNCHANGED <<call, sockets, context, entered, tasks, work, collected, job, how, answers, lost>>
OnCloseCancels(a) ==
    /\ At(a, "cancel", "close") /\ CancelEvent(job[a])
    /\ UNCHANGED <<call, socket, context, entered, tasks, work, collected, token, job, how, answers>>
\* The handler closes the number that failed_notify has closed already.
HandlerCloses(a) ==
    /\ At(a, "close", Back(a)) /\ CloseFd(job[a])
    /\ UNCHANGED <<call, context, entered, tasks, work, collected, token, job, how, answers>>

-----------------------------------------------------------------------------
\* ~async_connector: the token stays set.
Destroy ==
    /\ At(App, "idle", "spin")
    /\ UNCHANGED <<call, sockets, context, entered, tasks, work, collected, token, job, how,
                   answers, lost>>
Spin_TriesOnce ==
    /\ At(App, "spin", "sweep") /\ token' = App
    /\ UNCHANGED <<call, sockets, context, entered, tasks, work, collected, job, how, answers,
                   lost>>
Spin == /\ token = None /\ At(App, "spin", "sweep") /\ token' = App
        /\ UNCHANGED <<call, sockets, context, entered, tasks, work, collected, job, how, answers,
                       lost>>
\* One pair of connecting_context_: its number closed, its context collected.
Sweep(n) ==
    LET c == context[n]
        x == socket[n]
    IN /\ at[App] = "sweep" /\ c # None /\ UNCHANGED at
       /\ socket' = [socket EXCEPT ![n] = None] /\ linked' = linked \ {x}
       /\ lost' = [k \in Conns |-> IF lost[k] = "no" /\ k \in {c, x}
                                   THEN IF k = c THEN "destroyed" ELSE "closed" ELSE lost[k]]
       /\ Put(App, thread[c], c)
       /\ context' = [context EXCEPT ![n] = None]
       /\ UNCHANGED <<call, entered, tasks, work, token, job, how, answers>>
Destroyed == /\ At(App, "sweep", "gone") /\ \A n \in Fds : context[n] = None
             /\ UNCHANGED <<call, sockets, context, entered, tasks, work, collected, token, job,
                            how, answers, lost>>

-----------------------------------------------------------------------------
\* service_thread::run, what concerns the connector.
EpollWait(t) ==
    /\ At(t, "wait", "events")
    /\ \E events \in SUBSET {c \in linked \ entered : thread[c] = t} :
          work' = [work EXCEPT ![t] = events]
    /\ UNCHANGED <<call, sockets, context, entered, tasks, collected, token, job, how, answers, lost>>
\* EPOLLOUT calls on_send, EPOLLRDHUP on_close.
Event(t, c) ==
    /\ c \in work[t] /\ work' = [work EXCEPT ![t] = @ \ {c}]
    /\ \/ At(t, "events", "on_send") /\ UNCHANGED how
       \/ At(t, "events", "failed") /\ how' = [how EXCEPT ![t] = "on_close"]
    /\ job' = [job EXCEPT ![t] = c]
    /\ UNCHANGED <<call, sockets, context, entered, tasks, collected, token, answers, lost>>
SessionCloses(t, c) ==
    /\ at[t] = "events" /\ c \in entered \cap linked /\ thread[c] = t
    /\ CloseFd(c)
    /\ UNCHANGED <<call, context, entered, tasks, work, collected, token, at, job, how, answers>>
SwapTasks(t) ==
    /\ work[t] = {} /\ At(t, "events", "tasks")
    /\ work' = [work EXCEPT ![t] = tasks[t]] /\ tasks' = [tasks EXCEPT ![t] = {}]
    /\ UNCHANGED <<call, sockets, context, entered, collected, token, job, how, answers, lost>>
Task(t, c) ==
    /\ at[t] = "tasks" /\ c \in work[t] /\ work' = [work EXCEPT ![t] = @ \ {c}]
    /\ SessionEnters(c)
    /\ UNCHANGED <<call, socket, context, tasks, collected, token, at, job, how>>
TasksDone(t) ==
    /\ work[t] = {} /\ At(t, "tasks", "release")
    /\ UNCHANGED <<call, sockets, context, entered, tasks, work, collected, token, job, how,
                   answers, lost>>
ReleaseChannel(t) ==
    /\ At(t, "release", "wait") /\ collected' = [collected EXCEPT ![t] = {}]
    /\ UNCHANGED <<call, sockets, context, entered, tasks, work, token, job, how, answers, lost>>

-----------------------------------------------------------------------------
Init ==
    /\ begun = {} /\ linked = {} /\ entered = {} /\ token = None
    /\ fd = [c \in Conns |-> None] /\ thread = [c \in Conns |-> None]
    /\ socket = [n \in Fds |-> None] /\ context = [n \in Fds |-> None]
    /\ tasks = [t \in Threads |-> {}] /\ work = [t \in Threads |-> {}]
    /\ collected = [t \in Threads \cup {"leak"} |-> {}]
    /\ at = [a \in Actor |-> IF a = App THEN "idle" ELSE "wait"]
    /\ job = [a \in Actor |-> None] /\ how = [a \in Actor |-> "on_send"]
    /\ answers = [c \in Conns |-> 0] /\ lost = [c \in Conns |-> "no"]

AppStep == \/ \E c \in Conns : CreateSocket(c)
           \/ InsertContext \/ Connect \/ Link \/ LinkFailed
           \/ Destroy \/ Spin \/ (\E n \in Fds : Sweep(n)) \/ Destroyed
HandlerStep(a) == \/ OnSend(a) \/ Success(a) \/ Failed(a) \/ AddTcpSession(a)
                  \/ RecycleContext(a) \/ ReportFailed(a) \/ Unlock(a)
                  \/ OnCloseCancels(a) \/ HandlerCloses(a)
LoopStep(t) == \/ EpollWait(t) \/ SwapTasks(t) \/ TasksDone(t) \/ ReleaseChannel(t)
               \/ \E c \in Conns : Event(t, c) \/ SessionCloses(t, c) \/ Task(t, c)
Next == AppStep \/ (\E a \in Actor : HandlerStep(a)) \/ \E t \in Threads : LoopStep(t)
Spec == Init /\ [][Next]_vars

-----------------------------------------------------------------------------
\* Properties.

\* A service_thread that uses this_ref holds the token, and the destructor is
\* still in its loop: what the comment above cancel_token promises.
CallbackSeesLiveConnector ==
    \A t \in Threads :
        at[t] \in {"enter", "recycle", "unlock", "recycle_failed", "report", "unlock_failed"}
            => token = t /\ at[App] \notin {"sweep", "gone"}

Busy(a) == IF a = App THEN at[a] \notin {"idle", "spin", "sweep", "gone"}
           ELSE at[a] \notin {"wait", "events", "tasks", "release"}
Pending(c) == \/ c \in linked
              \/ \E a \in Actor : Busy(a) /\ job[a] = c
              \/ \E t \in Threads : c \in tasks[t] \cup work[t]

\* The ways in which async_connect ends without a callback: epoll_ctl failed for
\* this call (connector.ipp:80-83); the destructor swept its context; its result
\* found the token set, by the result of another call or by the destructor; its
\* number was closed, or its entry refused, on account of another call.
SilentlyEnded(c) ==
    \/ lost[c] = "unlinked"
    \/ lost[c] = "destroyed" /\ at[App] \in {"sweep", "gone"}
    \/ lost[c] = "held" /\ (begun # {c} \/ at[App] \in {"sweep", "gone"})
    \/ lost[c] = "closed" /\ begun # {c}

\* A call is answered at most once.  One without an answer is still under way, or
\* the code has ended it without a callback, in one of four ways: a connector that
\* makes a single call, whose registration succeeds, answers it or is destroyed.
ResultsAreDelivered ==
    \A c \in begun : answers[c] <= 1 /\ (answers[c] = 0 => Pending(c) \/ SilentlyEnded(c))

Alive(c) == \/ c \in {context[n] : n \in Fds} \cup UNION {collected[l] : l \in DOMAIN collected}
            \/ Busy(App) /\ job[App] = c
\* Epoll holds a raw pointer to the context, fetched events another: they stay
\* valid while the destructor, application and service threads drop their
\* references, as long as no result was dropped and no number closed twice.
ContextOutlivesEvents ==
    (\A c \in Conns : lost[c] \notin {"held", "closed"}) =>
        /\ \A c \in linked \ entered : Alive(c)
        /\ \A t \in Threads : /\ at[t] = "events" => \A c \in work[t] : Alive(c)
                              /\ Busy(t) => Alive(job[t])
=============================================================================

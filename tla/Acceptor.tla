------------------------------ MODULE Acceptor ------------------------------
(***************************************************************************)
(* acceptor.ipp and impl_linux/epoll_accept_channel.h: a tcp_acceptor, its *)
(* listen_thread_, and the descriptors of the process.  When none is left  *)
(* the channel gives up idle_fd_, accepts and closes the connection, and   *)
(* takes idle_fd_ back; sessions and other threads open and close          *)
(* descriptors all the time.                                               *)
(***************************************************************************)
EXTENDS Naturals

CONSTANTS Limit,       \* descriptors that the process may have, beside those of its threads
          MaxClients,  \* bound: connections that clients make
          MaxForeign   \* bound: descriptors that other threads have open

ASSUME AcceptorAssumption == Limit \in Nat /\ MaxClients \in Nat /\ MaxForeign \in Nat

VARIABLES
    acceptor,    \* where its owner is in start, stop or the destructor
    run_listen,  \* *run_listen_; "null" before start
    listen_at,   \* where listen_thread_ is: "none", "test", "wait", in on_recv, "tasks", "exit"
    linked,      \* the listen socket is in the epoll of the thread
    idle_fd,     \* idle_fd_ is a descriptor
    in_use,      \* descriptors of the process
    backlog,     \* connections that wait to be accepted
    connected,   \* history: connections that clients have made
    sessions,    \* accepted sockets
    foreign,     \* descriptors of other threads
    accept_fd,   \* the second accept has a connection
    channel,     \* who keeps accept_channel_: "acceptor", "collector", "leak"
    refused,     \* history: connections closed for want of descriptors
    missed,      \* history: on_recv has left a client without answer for want of them
    taken        \* history: idle_fd_ had none, or another thread took one while it was given up

acceptorVars == <<acceptor, run_listen>>
clientVars == <<backlog, connected, sessions, refused>>
idleVars == <<idle_fd, accept_fd, missed, taken>>
acceptVars == <<acceptorVars, listen_at, linked, in_use, foreign, channel, clientVars, idleVars>>

Free == Limit - in_use
Fds(has) == IF has THEN 1 ELSE 0
Listens(from, to) == listen_at = from /\ listen_at' = to
Owner(from, to) == acceptor = from /\ acceptor' = to

-----------------------------------------------------------------------------
(* The owner of the acceptor.                                                *)

\* create_listen_socket; then the channel opens idle_fd_, which may fail.
\* start throws if there is no listen socket.
StartListen ==
    /\ Owner("made", "run") /\ channel' = {"acceptor"}
    /\ \/ Free > 1 /\ idle_fd' = TRUE /\ in_use' = in_use + 2 /\ taken' = FALSE
       \/ Free = 1 /\ idle_fd' = FALSE /\ in_use' = in_use + 1 /\ taken' = TRUE
    /\ UNCHANGED <<run_listen, listen_at, linked, foreign, clientVars, accept_fd, missed>>
RunListenThread ==
    /\ Owner("run", "link") /\ run_listen' = "true" /\ listen_at' = "test"
    /\ UNCHANGED <<linked, in_use, foreign, channel, clientVars, idleVars>>
\* start_accept, or an exception when it fails: the thread runs either way.
StartAccept ==
    /\ Owner("link", "started") /\ linked' \in BOOLEAN
    /\ UNCHANGED <<run_listen, listen_at, in_use, foreign, channel, clientVars, idleVars>>
\* The owner calls stop, or the destructor, which hands the channel over first.
StopListening ==
    /\ Owner("started", "join") /\ run_listen' = "false"
    /\ UNCHANGED <<listen_at, linked, in_use, foreign, channel, clientVars, idleVars>>
\* put_channel and release_channel are not synchronised: the reference can be
\* lost, and the channel with it.
Destroy ==
    /\ Owner("started", "destroy")
    /\ \E list \in {"collector"} \cup (IF listen_at = "tasks" THEN {"leak"} ELSE {}) :
          channel' = channel \cup {list}
    /\ UNCHANGED <<run_listen, listen_at, linked, in_use, foreign, clientVars, idleVars>>
DestroyStops ==
    /\ Owner("destroy", "join_last") /\ run_listen' = "false"
    /\ UNCHANGED <<listen_at, linked, in_use, foreign, channel, clientVars, idleVars>>
\* The service_thread goes, with its epoll and its collector.
JoinListenThread ==
    /\ listen_at = "exit"
    /\ \/ Owner("join", "stopped") \/ Owner("join_last", "drop")
    /\ listen_at' = "none" /\ linked' = FALSE /\ channel' = channel \ {"collector"}
    /\ UNCHANGED <<run_listen, in_use, foreign, clientVars, idleVars>>
\* Undefined behaviour: stop reads *run_listen_, which only start sets; start
\* may have thrown before.
DestroyUnstarted ==
    /\ Owner("made", "fault")
    /\ UNCHANGED <<run_listen, listen_at, linked, in_use, foreign, channel, clientVars, idleVars>>
\* A stopped acceptor has nothing more to stop.
DestroyStopped ==
    /\ Owner("stopped", "drop")
    /\ UNCHANGED <<run_listen, listen_at, linked, in_use, foreign, channel, clientVars, idleVars>>
\* The members go: the channel closes idle_fd_, nobody the listen socket.
DropChannel ==
    /\ Owner("drop", "gone") /\ channel' = channel \ {"acceptor"}
    /\ IF channel = {"acceptor"}
       THEN idle_fd' = FALSE /\ in_use' = in_use - Fds(idle_fd)
       ELSE UNCHANGED <<idle_fd, in_use>>
    /\ UNCHANGED <<run_listen, listen_at, linked, foreign, clientVars, accept_fd, missed, taken>>

-----------------------------------------------------------------------------
(* listen_thread_.                                                           *)

TestRunListen ==
    /\ Listens("test", IF run_listen = "true" THEN "wait" ELSE "exit")
    /\ UNCHANGED <<acceptorVars, linked, in_use, foreign, channel, clientVars, idleVars>>
\* The listen socket is level-triggered; otherwise epoll_wait times out.
WaitForClients ==
    /\ IF linked /\ backlog > 0 THEN Listens("wait", "accept") ELSE Listens("wait", "tasks")
    /\ UNCHANGED <<acceptorVars, linked, in_use, foreign, channel, clientVars, idleVars>>
Accept ==
    /\ Listens("accept", "tasks") /\ Free > 0
    /\ in_use' = in_use + 1 /\ sessions' = sessions + 1 /\ backlog' = backlog - 1
    /\ UNCHANGED <<acceptorVars, linked, foreign, channel, connected, refused, idleVars>>
\* Mutant: EMFILE is an error like the others.
GiveUpIdle_Reports ==
    /\ Listens("accept", "tasks") /\ Free = 0
    /\ UNCHANGED <<acceptorVars, linked, in_use, foreign, channel, clientVars, idleVars>>
\* EMFILE; without idle_fd_ the close does nothing.
GiveUpIdle ==
    /\ Listens("accept", "again") /\ Free = 0
    /\ idle_fd' = FALSE /\ in_use' = in_use - Fds(idle_fd)
    /\ UNCHANGED <<acceptorVars, linked, foreign, channel, clientVars, accept_fd, missed, taken>>
AcceptAgain ==
    /\ Listens("again", "refuse")
    /\ IF Free > 0
       THEN /\ accept_fd' = TRUE /\ in_use' = in_use + 1 /\ backlog' = backlog - 1
            /\ UNCHANGED missed
       ELSE missed' = TRUE /\ UNCHANGED <<accept_fd, in_use, backlog>>
    /\ UNCHANGED <<acceptorVars, linked, foreign, channel, connected, sessions, refused, idle_fd,
                   taken>>
\* Mutant: the connection that was accepted is kept.
Refuse_KeepsFd ==
    /\ Listens("refuse", "reopen")
    /\ accept_fd' = FALSE /\ refused' = refused + Fds(accept_fd)
    /\ UNCHANGED <<acceptorVars, linked, in_use, foreign, channel, backlog, connected, sessions,
                   idle_fd, missed, taken>>
Refuse ==
    /\ Listens("refuse", "reopen")
    /\ accept_fd' = FALSE /\ in_use' = in_use - Fds(accept_fd)
    /\ refused' = refused + Fds(accept_fd)
    /\ UNCHANGED <<acceptorVars, linked, foreign, channel, backlog, connected, sessions, idle_fd,
                   missed, taken>>
ReopenIdle ==
    /\ Listens("reopen", "tasks")
    /\ \/ Free > 0 /\ idle_fd' = TRUE /\ in_use' = in_use + 1
       \/ Free = 0 /\ idle_fd' = FALSE /\ in_use' = in_use
    /\ UNCHANGED <<acceptorVars, linked, foreign, channel, clientVars, accept_fd, missed, taken>>
\* The executor, which has no tasks, and the collector.
ReleaseListenChannels ==
    /\ Listens("tasks", "test") /\ channel' = channel \ {"collector"}
    /\ UNCHANGED <<acceptorVars, linked, in_use, foreign, clientVars, idleVars>>

-----------------------------------------------------------------------------
(* Clients, sessions, other threads.                                         *)
Others == <<acceptorVars, listen_at, linked, channel, refused, idle_fd, accept_fd, missed>>
ClientConnects ==
    /\ acceptor \notin {"made", "fault"} /\ connected < MaxClients
    /\ connected' = connected + 1 /\ backlog' = backlog + 1
    /\ UNCHANGED <<Others, taken, in_use, foreign, sessions>>
AcceptedCloses ==
    /\ sessions > 0 /\ sessions' = sessions - 1 /\ in_use' = in_use - 1
    /\ UNCHANGED <<Others, taken, foreign, backlog, connected>>
ForeignOpens ==
    /\ Free > 0 /\ foreign < MaxForeign /\ foreign' = foreign + 1 /\ in_use' = in_use + 1
    /\ taken' = (taken \/ listen_at \in {"again", "refuse", "reopen"})
    /\ UNCHANGED <<Others, backlog, connected, sessions>>
ForeignCloses ==
    /\ foreign > 0 /\ foreign' = foreign - 1 /\ in_use' = in_use - 1
    /\ UNCHANGED <<Others, taken, backlog, connected, sessions>>

AcceptInit ==
    /\ acceptor = "made" /\ run_listen = "null" /\ listen_at = "none" /\ linked = FALSE
    /\ idle_fd = FALSE /\ in_use = 0 /\ backlog = 0 /\ connected = 0 /\ sessions = 0
    /\ foreign = 0 /\ accept_fd = FALSE /\ channel = {} /\ refused = 0
    /\ missed = FALSE /\ taken = FALSE
ListenStep ==
    \/ TestRunListen \/ WaitForClients \/ Accept \/ GiveUpIdle \/ AcceptAgain \/ Refuse
    \/ ReopenIdle \/ ReleaseListenChannels
AcceptNext ==
    \/ StartListen \/ RunListenThread \/ StartAccept \/ StopListening \/ Destroy
    \/ DestroyStops \/ JoinListenThread \/ DestroyUnstarted \/ DestroyStopped \/ DropChannel
    \/ ListenStep
    \/ ClientConnects \/ AcceptedCloses \/ ForeignOpens \/ ForeignCloses
AcceptSafety == AcceptInit /\ [][AcceptNext]_acceptVars
\* The thread is scheduled, and success_cb_ returns.
AcceptFairness == WF_acceptVars(ListenStep) /\ WF_acceptVars(JoinListenThread)

-----------------------------------------------------------------------------
\* Properties.

\* epoll keeps a raw pointer to the channel: while the listen thread may call
\* it the acceptor has it, although the owner may destroy the acceptor at any
\* moment and the collector drops its reference.
ListenThreadHasChannel ==
    /\ listen_at # "none" => "acceptor" \in channel /\ acceptor \notin {"drop", "gone"}
    /\ listen_at \in {"none", "exit"} \/ run_listen # "null"

\* Whenever on_recv returns the listen thread has its idle descriptor back, and
\* a client that met a full table was refused; unless another thread took a
\* descriptor in between.  And no descriptor leaks but the listen socket's and
\* that of a channel that the collector lost.
IdleFdComesBack ==
    /\ ~taken => /\ ~missed
                 /\ listen_at \in {"test", "wait", "accept", "tasks"} => idle_fd
    /\ in_use = foreign + sessions + Fds(acceptor \notin {"made", "fault"})
                  + Fds(idle_fd) + Fds(accept_fd)

\* A client that waits is accepted or refused, however full the table is, as
\* long as the acceptor listens.
ClientIsAnswered ==
    backlog > 0 ~> \/ backlog = 0 \/ ~linked \/ run_listen # "true"
                   \/ taken
=============================================================================

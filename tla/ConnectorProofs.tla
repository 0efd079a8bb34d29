-------------------------- MODULE ConnectorProofs --------------------------
(***************************************************************************)
(* For any number of threads and calls: what cancel_token_ promises, that a*)
(* call is answered at most once, in which ways the code ends it without an*)
(* answer, and how long its context lives.                                 *)
(***************************************************************************)
EXTENDS Connector, TLAPS

\* Where the token belongs to the actor; the destructor keeps it for good.
Locked == {"enter", "recycle", "unlock", "recycle_failed", "report", "unlock_failed",
           "sweep", "gone"}
Free == {"idle", "insert", "connect", "link", "unlinked", "on_send", "success", "failed",
         "cancel", "close", "spin", "wait", "events", "tasks", "release"}
TokenIsHeld == /\ at \in [Actor -> Locked \cup Free]
               /\ \A a \in Actor : at[a] \in Locked => token = a

\* A step inside or outside of the locked part keeps the invariant.
LEMMA MoveKeepsToken ==
    ASSUME TokenIsHeld, token' = token, NEW a \in Actor, NEW to \in Locked \cup Free,
           at' = [at EXCEPT ![a] = to], to \in Locked => at[a] \in Locked
    PROVE  TokenIsHeld'
<1>1. at' \in [Actor -> Locked \cup Free]
    BY DEF TokenIsHeld
<1>2. ASSUME NEW b \in Actor, at'[b] \in Locked  PROVE token' = b
    BY <1>2 DEF TokenIsHeld
<1> QED  BY <1>1, <1>2 DEF TokenIsHeld

\* Only a free token is taken.
LEMMA TakeKeepsToken ==
    ASSUME TokenIsHeld, NEW a \in Actor, NEW to \in Locked \cup Free,
           at' = [at EXCEPT ![a] = to], token = None, token' = a
    PROVE  TokenIsHeld'
<1>1. at' \in [Actor -> Locked \cup Free]
    BY DEF TokenIsHeld
<1>2. ASSUME NEW b \in Actor, b # a  PROVE at'[b] \notin Locked
    <2>1. at'[b] = at[b]
        BY <1>2 DEF TokenIsHeld
    <2>2. None \notin Actor
        BY ConnectorAssumption DEF Actor, App
    <2> QED  BY <1>2, <2>1, <2>2 DEF TokenIsHeld
<1> QED  BY <1>1, <1>2 DEF TokenIsHeld

\* The actor that gives the token back was the only one in the locked part.
LEMMA GiveKeepsToken ==
    ASSUME TokenIsHeld, NEW a \in Actor, at[a] \in Locked, NEW to \in Free, Free \cap Locked = {},
           at' = [at EXCEPT ![a] = to], token' = None
    PROVE  TokenIsHeld'
<1>1. at' \in [Actor -> Locked \cup Free]
    BY DEF TokenIsHeld
<1>2. ASSUME NEW b \in Actor  PROVE at'[b] \notin Locked
    <2>1. CASE b = a
        BY <2>1, <1>2 DEF TokenIsHeld
    <2>2. CASE b # a
        <3>1. at'[b] = at[b] /\ token = a
            BY <2>2, <1>2 DEF TokenIsHeld
        <3> QED  BY <2>2, <3>1, <1>2 DEF TokenIsHeld
    <2> QED  BY <2>1, <2>2
<1> QED  BY <1>1, <1>2 DEF TokenIsHeld

LEMMA StayKeepsToken ==
    ASSUME TokenIsHeld, UNCHANGED <<at, token>>
    PROVE  TokenIsHeld'
BY DEF TokenIsHeld

LEMMA AppKeepsToken ==
    ASSUME TokenIsHeld, AppStep
    PROVE  TokenIsHeld'
<1> App \in Actor
    BY DEF Actor
<1>1. ASSUME NEW c \in Conns, CreateSocket(c)  PROVE TokenIsHeld'
    BY <1>1, MoveKeepsToken DEF At, CreateSocket, Locked, Free
<1>2. CASE InsertContext
    BY <1>2, MoveKeepsToken DEF At, InsertContext, Locked, Free
<1>3. CASE Connect
    BY <1>3, MoveKeepsToken DEF At, Connect, Locked, Free
<1>4. CASE Link
    BY <1>4, MoveKeepsToken DEF At, Link, Locked, Free
<1>5. CASE LinkFailed
    BY <1>5, MoveKeepsToken DEF At, LinkFailed, Locked, Free
<1>6. CASE Destroy
    BY <1>6, MoveKeepsToken DEF At, Destroy, Locked, Free
<1>7. CASE Spin
    BY <1>7, TakeKeepsToken DEF At, Spin, Locked, Free
<1>8. ASSUME NEW n \in Fds, Sweep(n)  PROVE TokenIsHeld'
    BY <1>8, StayKeepsToken DEF Sweep
<1>9. CASE Destroyed
    BY <1>9, MoveKeepsToken DEF At, Destroyed, Locked, Free
<1> QED  BY <1>1, <1>2, <1>3, <1>4, <1>5, <1>6, <1>7, <1>8, <1>9 DEF AppStep

LEMMA HandlerKeepsToken ==
    ASSUME TokenIsHeld, NEW a \in Actor, HandlerStep(a)
    PROVE  TokenIsHeld'
<1> DEFINE back == Back(a)
<1> back \in Free /\ back \notin Locked
    BY DEF Back, Free, Locked
<1> DEFINE after == AfterFailed(a)
<1> after \in Free /\ after \notin Locked
    BY DEF AfterFailed, Free, Locked
<1> HIDE DEF back, after
<1>1. CASE OnSend(a)
    BY <1>1, MoveKeepsToken DEF At, OnSend, Locked, Free
<1>2. CASE Success(a)
    <2>1. CASE token = None
        BY <1>2, <2>1, TakeKeepsToken DEF At, Success, TryLock, Locked, Free
    <2>2. CASE token # None
        BY <1>2, <2>2, MoveKeepsToken DEF At, Success, TryLock, back, Free
    <2> QED  BY <2>1, <2>2
<1>3. CASE Failed(a)
    <2>1. CASE token = None
        BY <1>3, <2>1, TakeKeepsToken DEF At, Failed, TryLock, Locked, Free
    <2>2. CASE token # None
        BY <1>3, <2>2, MoveKeepsToken DEF At, Failed, TryLock, after, Free
    <2> QED  BY <2>1, <2>2
<1>4. CASE AddTcpSession(a)
    BY <1>4, MoveKeepsToken DEF At, AddTcpSession, Locked, Free
<1>5. CASE RecycleContext(a)
    BY <1>5, MoveKeepsToken DEF At, RecycleContext, Locked, Free
<1>6. CASE ReportFailed(a)
    BY <1>6, MoveKeepsToken DEF At, ReportFailed, Locked, Free
<1>7. CASE Unlock(a)
    <2>1. "unlock" \in Locked /\ "unlock_failed" \in Locked /\ Free \cap Locked = {}
        BY DEF Locked, Free
    <2> QED  BY <1>7, <2>1, GiveKeepsToken DEF At, Unlock, back, after, Free
<1>8. CASE OnCloseCancels(a)
    BY <1>8, MoveKeepsToken DEF At, OnCloseCancels, Locked, Free
<1>9. CASE HandlerCloses(a)
    BY <1>9, MoveKeepsToken DEF At, HandlerCloses, back, Free
<1> QED  BY <1>1, <1>2, <1>3, <1>4, <1>5, <1>6, <1>7, <1>8, <1>9 DEF HandlerStep

LEMMA LoopKeepsToken ==
    ASSUME TokenIsHeld, NEW t \in Threads, LoopStep(t)
    PROVE  TokenIsHeld'
<1> t \in Actor
    BY DEF Actor
<1>1. CASE EpollWait(t)
    BY <1>1, MoveKeepsToken DEF At, EpollWait, Locked, Free
<1>2. CASE SwapTasks(t)
    BY <1>2, MoveKeepsToken DEF At, SwapTasks, Locked, Free
<1>3. CASE TasksDone(t)
    BY <1>3, MoveKeepsToken DEF At, TasksDone, Locked, Free
<1>4. CASE ReleaseChannel(t)
    BY <1>4, MoveKeepsToken DEF At, ReleaseChannel, Locked, Free
<1>5. ASSUME NEW c \in Conns, Event(t, c)  PROVE TokenIsHeld'
    BY <1>5, MoveKeepsToken DEF At, Event, Locked, Free
<1>6. ASSUME NEW c \in Conns, SessionCloses(t, c) \/ Task(t, c)  PROVE TokenIsHeld'
    BY <1>6, StayKeepsToken DEF SessionCloses, Task
<1> QED  BY <1>1, <1>2, <1>3, <1>4, <1>5, <1>6 DEF LoopStep

\* Whoever is in the locked part of a callback, or past the destructor's loop,
\* has set cancel_token_.
THEOREM TokenHeld == Spec => []TokenIsHeld
<1>1. Init => TokenIsHeld
    BY DEF Init, TokenIsHeld, Locked, Free
<1>2. TokenIsHeld /\ [Next]_vars => TokenIsHeld'
    <2> SUFFICES ASSUME TokenIsHeld, [Next]_vars  PROVE TokenIsHeld'
        OBVIOUS
    <2>1. CASE Next
        BY <2>1, AppKeepsToken, HandlerKeepsToken, LoopKeepsToken DEF Next
    <2>2. CASE UNCHANGED vars
        BY <2>2, StayKeepsToken DEF vars
    <2> QED  BY <2>1, <2>2
<1> QED  BY <1>1, <1>2, PTL DEF Spec

\* The comment above cancel_token: no callback uses a destroyed connector.
THEOREM ConnectorIsLive == Spec => []CallbackSeesLiveConnector
<1>1. TokenIsHeld => CallbackSeesLiveConnector
    BY ConnectorAssumption DEF TokenIsHeld, CallbackSeesLiveConnector, Locked, Actor, App
<1> QED  BY <1>1, TokenHeld, PTL

-----------------------------------------------------------------------------
\* Where a handler stands before and after the call is answered, where the
\* application stands in async_connect, and where nobody has a context in hand.
Fresh == {"on_send", "success", "failed", "enter", "recycle_failed", "report"}
Done == {"recycle", "unlock", "unlock_failed", "cancel", "close"}
Handling == Fresh \cup Done
Calling == {"insert", "connect", "link", "unlinked"}
Apart == {"idle", "spin", "sweep", "gone"}
Looping == {"wait", "events", "tasks", "release"}
CallOrNone == Conns \cup {None}

\* The type invariant.
CTypeOK ==
    /\ begun \subseteq Conns /\ linked \subseteq begun /\ entered \subseteq begun
    /\ fd \in [Conns -> Fds \cup {None}] /\ thread \in [Conns -> Threads \cup {None}]
    /\ socket \in [Fds -> CallOrNone] /\ context \in [Fds -> CallOrNone]
    /\ tasks \in [Threads -> SUBSET Conns] /\ work \in [Threads -> SUBSET Conns]
    /\ collected \in [Threads \cup {"leak"} -> SUBSET Conns]
    /\ at \in [Actor -> Handling \cup Calling \cup Apart \cup Looping]
    /\ at[App] \notin Looping
    /\ \A t \in Threads : at[t] \notin Calling \cup Apart
    /\ job \in [Actor -> CallOrNone] /\ how \in [Actor -> {"on_send", "on_close"}]
    /\ answers \in [Conns -> Nat]
    /\ lost \in [Conns -> {"no", "held", "closed", "unlinked", "destroyed"}]
\* A socket, a context, a task and a handler belong to a call that has begun:
\* to its descriptor number, and to its service_thread.
Placed ==
    /\ \A c \in begun : fd[c] \in Fds /\ thread[c] \in Threads
    /\ \A c \in Conns \ begun : lost[c] = "no" /\ answers[c] = 0
    /\ \A n \in Fds : socket[n] # None => /\ socket[n] \in begun /\ fd[socket[n]] = n
                                          /\ lost[socket[n]] \notin {"unlinked", "destroyed"}
    /\ \A n \in Fds : context[n] # None => context[n] \in begun /\ fd[context[n]] = n
    /\ \A c \in linked : socket[fd[c]] = c
    /\ \A a \in Actor : at[a] \in Handling \cup Calling => job[a] \in begun
    /\ \A t \in Threads : at[t] \in Handling => thread[job[t]] = t
    /\ \A t \in Threads : \A c \in tasks[t] \cup work[t] : c \in begun /\ thread[c] = t
    /\ \A t \in Threads : at[t] \in {"wait", "release"} => work[t] = {}
PInv == CTypeOK /\ Placed

LEMMA AppIsNoThread == App \notin Threads /\ App \in Actor /\ None \notin Conns /\ None \notin Fds
                       /\ None \notin Threads /\ Threads \subseteq Actor /\ "leak" \notin Threads
BY ConnectorAssumption DEF App, Actor

\* put_channel on the lists of a service_thread.
LEMMA PutKeepsLists ==
    ASSUME CTypeOK, NEW a \in Actor, NEW t \in Threads, NEW c \in CallOrNone, Put(a, t, c)
    PROVE  collected' \in [Threads \cup {"leak"} -> SUBSET Conns]
BY DEF Put, CTypeOK, CallOrNone

\* A loss is written down once, for a call that has a socket.
LostKept == /\ lost' \in [Conns -> {"no", "held", "closed", "unlinked", "destroyed"}]
            /\ \A k \in Conns \ begun : lost'[k] = "no"
            /\ \A k \in Conns : lost'[k] \in {lost[k], "held", "closed"}

\* Lose and cancel_event take nothing from a call that has not begun.
LEMMA LoseKeepsReasons ==
    ASSUME PInv, NEW c \in begun, NEW why \in {"held", "closed"}, Lose(c, why)
    PROVE  LostKept
BY DEF PInv, CTypeOK, Placed, Lose, LostKept

LEMMA CancelKeepsPlaces ==
    ASSUME PInv, NEW c \in begun, CancelEvent(c)
    PROVE  linked' \subseteq linked /\ LostKept
<1>1. linked' \subseteq linked
    BY DEF CancelEvent
<1>2. CASE UNCHANGED lost
    BY <1>1, <1>2 DEF LostKept, PInv, CTypeOK, Placed
<1>3. CASE socket[fd[c]] \in linked /\ Lose(socket[fd[c]], "closed")
    BY <1>1, <1>3, LoseKeepsReasons DEF PInv, CTypeOK
<1> QED  BY <1>1, <1>2, <1>3 DEF CancelEvent

LEMMA CloseKeepsPlaces ==
    ASSUME PInv, NEW c \in begun, CloseFd(c)
    PROVE  /\ LostKept
           /\ socket' = [socket EXCEPT ![fd[c]] = None]
           /\ linked' = linked \ {socket[fd[c]]}
<1>1. CASE socket[fd[c]] \in {c, None}
    BY <1>1 DEF CloseFd, LostKept, PInv, CTypeOK, Placed
<1>2. CASE socket[fd[c]] \notin {c, None}
    <2>1. socket[fd[c]] \in begun /\ Lose(socket[fd[c]], "closed")
        BY <1>2 DEF CloseFd, PInv, CTypeOK, Placed
    <2> QED  BY <2>1, LoseKeepsReasons DEF CloseFd
<1> QED  BY <1>1, <1>2

LEMMA AppKeepsPlaced ==
    ASSUME PInv, AppStep
    PROVE  PInv'
<1> USE AppIsNoThread DEF PInv, At, CTypeOK, Placed, call, sockets, Handling, Fresh, Done, Calling,
                          Apart, Looping, CallOrNone
<1>1. ASSUME NEW c \in Conns, CreateSocket(c)  PROVE PInv'
    <2>1. CTypeOK'
        BY <1>1 DEF CreateSocket
    <2>2. PICK n \in Fds, t \in Threads :
              /\ socket[n] = None
              /\ fd' = [fd EXCEPT ![c] = n] /\ thread' = [thread EXCEPT ![c] = t]
              /\ socket' = [socket EXCEPT ![n] = c]
        BY <1>1 DEF CreateSocket
    <2>3. /\ c \notin begun /\ begun' = begun \cup {c} /\ job' = [job EXCEPT ![App] = c]
          /\ UNCHANGED <<linked, context, entered, tasks, work, answers, lost>>
          /\ at' = [at EXCEPT ![App] = "insert"]
        BY <1>1 DEF CreateSocket
    <2>4. \A k \in begun : fd'[k] = fd[k] /\ thread'[k] = thread[k]
        BY <2>2, <2>3
    <2>6. \A k \in Fds : socket'[k] # None =>
              /\ socket'[k] \in begun' /\ fd'[socket'[k]] = k
              /\ lost'[socket'[k]] \notin {"unlinked", "destroyed"}
        BY <2>2, <2>3, <2>4
    <2>7. Placed'
        <3>1. \A k \in linked : socket'[fd'[k]] = k
            BY <2>2, <2>3, <2>4
        <3>2. \A k \in begun' : fd'[k] \in Fds /\ thread'[k] \in Threads
            BY <2>2, <2>3, <2>4
        <3>3. \A k \in Fds : context'[k] # None => context'[k] \in begun' /\ fd'[context'[k]] = k
            BY <2>3, <2>4
        <3>4. \A a \in Actor : at'[a] \in Handling \cup Calling => job'[a] \in begun'
            BY <2>3
        <3>5. \A k \in Threads : at'[k] \in Handling => thread'[job'[k]] = k
            BY <2>3, <2>4
        <3>6. \A k \in Threads : \A x \in tasks'[k] \cup work'[k] : x \in begun' /\ thread'[x] = k
            BY <2>3, <2>4
        <3> QED  BY <2>3, <2>6, <3>1, <3>2, <3>3, <3>4, <3>5, <3>6
    <2> QED  BY <2>1, <2>7
<1>2. CASE InsertContext
    BY <1>2 DEF InsertContext
<1>3. CASE Connect
    <2>1. /\ UNCHANGED <<begun, fd, thread, socket, linked, context, entered, tasks, work>>
          /\ UNCHANGED <<collected, job, answers, lost>> /\ how' \in [Actor -> {"on_send", "on_close"}]
          /\ at[App] = "connect" /\ job[App] \in begun
          /\ \E s \in {"link", "on_send", "failed"} : at' = [at EXCEPT ![App] = s]
        BY <1>3 DEF Connect
    <2>2. CTypeOK'
        BY <2>1
    <2>3. Placed'
        BY <2>1
    <2> QED  BY <2>2, <2>3
<1>4. CASE Link
    BY <1>4 DEF Link
<1>5. CASE LinkFailed
    <2>1. thread[job[App]] \in Threads /\ context[fd[job[App]]] \in CallOrNone
        BY <1>5 DEF LinkFailed
    <2>2. collected' \in [Threads \cup {"leak"} -> SUBSET Conns]
        BY <1>5, <2>1, PutKeepsLists DEF LinkFailed, Recycle
    <2>3. PICK c \in begun, n \in Fds : c = job[App] /\ n = fd[c]
        BY <1>5 DEF LinkFailed
    <2>4. /\ at[App] = "unlinked" /\ at' = [at EXCEPT ![App] = "idle"]
          /\ context' = [context EXCEPT ![n] = None] /\ socket' = [socket EXCEPT ![n] = None]
          /\ linked' = linked \ {socket[n]}
          /\ UNCHANGED <<begun, fd, thread, entered, tasks, work, job, how, answers>>
        BY <1>5, <2>3 DEF LinkFailed, Recycle
    <2>5. lost' = [k \in Conns |-> IF lost[k] = "no" /\ k \in {c, socket[n]}
                                  THEN IF k = c THEN "unlinked" ELSE "closed" ELSE lost[k]]
        BY <1>5, <2>3 DEF LinkFailed
    <2>6. CTypeOK'
        <3>1. lost' \in [Conns -> {"no", "held", "closed", "unlinked", "destroyed"}]
            BY <2>5
        <3>2. linked' \subseteq begun' /\ socket' \in [Fds -> CallOrNone]
              /\ context' \in [Fds -> CallOrNone]
            BY <2>4
        <3> QED  BY <2>2, <2>4, <3>1, <3>2
    <2>7. Placed'
        <3>1. \A k \in Conns \ begun' : lost'[k] = "no" /\ answers'[k] = 0
            BY <2>4, <2>5
        <3>2. \A m \in Fds : socket'[m] # None =>
                  /\ socket'[m] \in begun' /\ fd'[socket'[m]] = m
                  /\ lost'[socket'[m]] \notin {"unlinked", "destroyed"}
            <4> SUFFICES ASSUME NEW m \in Fds, socket'[m] # None
                         PROVE  /\ socket'[m] \in begun' /\ fd'[socket'[m]] = m
                                /\ lost'[socket'[m]] \notin {"unlinked", "destroyed"}
                OBVIOUS
            <4>1. m # n /\ socket'[m] = socket[m]
                BY <2>4
            <4>2. socket[m] \in begun /\ fd[socket[m]] = m /\ socket[m] # c
                BY <2>3, <4>1
            <4>3. lost[socket[m]] \notin {"unlinked", "destroyed"}
                BY <4>1
            <4> QED  BY <2>4, <2>5, <4>1, <4>2, <4>3
        <3>3. \A k \in linked' : socket'[fd'[k]] = k
            BY <2>4
        <3>4. \A m \in Fds : context'[m] # None => context'[m] \in begun' /\ fd'[context'[m]] = m
            BY <2>4
        <3> QED  BY <2>4, <3>1, <3>2, <3>3, <3>4
    <2> QED  BY <2>6, <2>7
<1>6. CASE Destroy
    BY <1>6 DEF Destroy
<1>7. CASE Spin
    BY <1>7 DEF Spin
<1>8. ASSUME NEW n \in Fds, Sweep(n)  PROVE PInv'
    <2>1. context[n] \in begun /\ thread[context[n]] \in Threads
        BY <1>8 DEF Sweep
    <2>2. collected' \in [Threads \cup {"leak"} -> SUBSET Conns]
        BY <1>8, <2>1, PutKeepsLists DEF Sweep
    <2> QED  BY <1>8, <2>1, <2>2 DEF Sweep
<1>9. CASE Destroyed
    BY <1>9 DEF Destroyed
<1> QED  BY <1>1, <1>2, <1>3, <1>4, <1>5, <1>6, <1>7, <1>8, <1>9 DEF AppStep

LEMMA HandlerKeepsPlaced ==
    ASSUME PInv, NEW a \in Actor, HandlerStep(a)
    PROVE  PInv'
<1> USE AppIsNoThread DEF PInv, At, CTypeOK, Placed, call, sockets, Handling, Fresh, Done, Calling,
                          Apart, Looping, CallOrNone
<1>0. a \in Threads \/ a = App
    BY DEF Actor, App
<1>1. CASE OnSend(a)
    <2>1. job[a] \in begun
        BY <1>0, <1>1 DEF OnSend
    <2>2. linked' \subseteq linked /\ LostKept
        BY <1>1, <2>1, CancelKeepsPlaces DEF OnSend
    <2>3. CASE a \in Threads
        <3>1. CTypeOK'
            BY <1>1, <2>1, <2>2, <2>3 DEF OnSend, LostKept
        <3>2. Placed'
            BY <1>1, <2>1, <2>2, <2>3 DEF OnSend, LostKept
        <3> QED  BY <3>1, <3>2
    <2>4. CASE a = App
        <3>1. CTypeOK'
            <4>1. /\ UNCHANGED <<begun, fd, thread, socket, context, entered, tasks, work>>
                  /\ UNCHANGED <<collected, job, answers>>
                BY <1>1 DEF OnSend
            <4>2. /\ how' \in [Actor -> {"on_send", "on_close"}]
                  /\ \E s \in {"success", "failed"} : at' = [at EXCEPT ![App] = s]
                BY <1>1, <2>4 DEF OnSend
            <4> QED
                BY <2>2, <4>1, <4>2 DEF LostKept
        <3>2. Placed'
            BY <1>1, <2>1, <2>2, <2>4 DEF OnSend, LostKept
        <3> QED  BY <3>1, <3>2
    <2> QED  BY <1>0, <2>3, <2>4
<1>2. CASE Success(a)
    <2>1. CASE token = None
        BY <1>0, <1>2, <2>1 DEF Success, TryLock
    <2>2. CASE token # None
        <3>1. CASE a \in Threads
            BY <1>2, <2>2, <3>1 DEF Success, TryLock, Back, Lose
        <3>2. CASE a = App
            BY SMTT(40), <1>2, <2>2, <3>2 DEF Success, TryLock, Back, Lose
        <3> QED  BY <1>0, <3>1, <3>2
    <2> QED  BY <2>1, <2>2
<1>3. CASE Failed(a)
    <2>1. CASE token = None
        BY <1>0, <1>3, <2>1 DEF Failed, TryLock
    <2>2. CASE token # None
        <3>1. job[a] \in begun /\ LostKept
            BY <1>0, <1>3, <2>2, LoseKeepsReasons DEF Failed, TryLock
        <3>2. CASE a \in Threads
            BY SMTT(40), <1>3, <2>2, <3>1, <3>2 DEF Failed, TryLock, AfterFailed, LostKept
        <3>3. CASE a = App
            <4>1. at' = [at EXCEPT ![a] = "cancel"] \/ at' = [at EXCEPT ![a] = "close"]
                BY <1>3, <2>2 DEF Failed, TryLock, AfterFailed
            <4>2. /\ at[a] = "failed"
                  /\ UNCHANGED <<begun, fd, thread, socket, linked, context, entered, tasks, work,
                                 collected, job, how, answers>>
                BY <1>3 DEF Failed, TryLock
            <4>3. CTypeOK'
                <5>1. at' \in [Actor -> Handling \cup Calling \cup Apart \cup Looping]
                    BY <4>1, <3>3
                <5>2. at'[App] \notin Looping /\ \A t \in Threads : at'[t] \notin Calling \cup Apart
                    BY <4>1, <3>3
                <5> QED  BY <3>1, <4>2, <5>1, <5>2 DEF LostKept
            <4>4. Placed'
                BY <3>1, <3>3, <4>1, <4>2 DEF LostKept
            <4> QED  BY <4>3, <4>4
        <3> QED  BY <1>0, <3>2, <3>3
    <2> QED  BY <2>1, <2>2
<1>4. CASE AddTcpSession(a)
    BY SMTT(40), <1>0, <1>4 DEF AddTcpSession, SessionEnters, Lose
<1>5. CASE RecycleContext(a)
    <2>1. job[a] \in begun /\ context[fd[job[a]]] \in CallOrNone
        BY <1>5 DEF RecycleContext
    <2>2. collected' \in [Threads \cup {"leak"} -> SUBSET Conns]
        BY <1>5, <2>1, PutKeepsLists DEF RecycleContext, Recycle
    <2>3. CASE a \in Threads
        <3>1. /\ context' = [context EXCEPT ![fd[job[a]]] = None]
              /\ UNCHANGED <<begun, fd, thread, socket, linked, entered, tasks, work, job, how,
                             answers, lost>>
              /\ at[a] \in Handling
              /\ at' = [at EXCEPT ![a] = "unlock"] \/ at' = [at EXCEPT ![a] = "report"]
            BY <1>5 DEF RecycleContext, Recycle
        <3>2. CTypeOK'
            BY <2>1, <2>2, <2>3, <3>1
        <3>3. Placed'
            BY <2>1, <2>3, <3>1
        <3> QED  BY <3>2, <3>3
    <2>4. CASE a = App
        BY <1>5, <2>1, <2>2, <2>4 DEF RecycleContext, Recycle
    <2> QED  BY <1>0, <2>3, <2>4
<1>6. CASE ReportFailed(a)
    <2>1. /\ job[a] \in begun /\ LostKept
          /\ socket' = [socket EXCEPT ![fd[job[a]]] = None]
          /\ linked' = linked \ {socket[fd[job[a]]]}
        BY <1>0, <1>6, CloseKeepsPlaces DEF ReportFailed
    <2>2. CTypeOK'
        <3>1. answers' \in [Conns -> Nat]
            BY <1>6, <2>1 DEF ReportFailed
        <3>2. /\ at' \in [Actor -> Handling \cup Calling \cup Apart \cup Looping]
              /\ at'[App] \notin Looping /\ \A t \in Threads : at'[t] \notin Calling \cup Apart
            BY <1>0, <1>6 DEF ReportFailed
        <3>3. socket' \in [Fds -> CallOrNone] /\ linked' \subseteq begun
            BY <2>1
        <3> QED  BY <1>6, <2>1, <3>1, <3>2, <3>3 DEF ReportFailed, LostKept
    <2>3. Placed'
        BY <1>0, <1>6, <2>1 DEF ReportFailed, LostKept
    <2> QED  BY <2>2, <2>3
<1>7. CASE Unlock(a)
    BY <1>0, <1>7 DEF Unlock, Back, AfterFailed
<1>8. CASE OnCloseCancels(a)
    <2>1. linked' \subseteq linked /\ LostKept
        BY <1>0, <1>8, CancelKeepsPlaces DEF OnCloseCancels
    <2> QED  BY <1>0, <1>8, <2>1 DEF OnCloseCancels, LostKept
<1>9. CASE HandlerCloses(a)
    BY <1>0, <1>9 DEF HandlerCloses, CloseFd, Back, Lose
<1> QED  BY <1>1, <1>2, <1>3, <1>4, <1>5, <1>6, <1>7, <1>8, <1>9 DEF HandlerStep

LEMMA LoopKeepsPlaced ==
    ASSUME PInv, NEW t \in Threads, LoopStep(t)
    PROVE  PInv'
<1> USE AppIsNoThread DEF PInv, At, CTypeOK, Placed, call, sockets, Handling, Fresh, Done, Calling,
                          Apart, Looping, CallOrNone
<1>1. CASE EpollWait(t)
    BY <1>1 DEF EpollWait
<1>2. CASE SwapTasks(t)
    BY <1>2 DEF SwapTasks
<1>3. CASE TasksDone(t)
    BY <1>3 DEF TasksDone
<1>4. CASE ReleaseChannel(t)
    BY <1>4 DEF ReleaseChannel
<1>5. ASSUME NEW c \in Conns, Event(t, c)  PROVE PInv'
    <2>1. CTypeOK'
        <3>1. /\ work' = [work EXCEPT ![t] = @ \ {c}] /\ job' = [job EXCEPT ![t] = c]
              /\ at' = [at EXCEPT ![t] = "on_send"] \/ at' = [at EXCEPT ![t] = "failed"]
              /\ how' = how \/ how' = [how EXCEPT ![t] = "on_close"]
              /\ UNCHANGED <<begun, fd, thread, socket, linked, context, entered, tasks, collected,
                             answers, lost>>
            BY <1>5 DEF Event
        <3> QED  BY SMTT(40), <3>1
    <2>2. Placed'
        <3>1. /\ c \in work[t] /\ work' = [work EXCEPT ![t] = @ \ {c}]
              /\ job' = [job EXCEPT ![t] = c]
              /\ at' = [at EXCEPT ![t] = "on_send"] \/ at' = [at EXCEPT ![t] = "failed"]
              /\ UNCHANGED <<begun, fd, thread, socket, linked, context, entered, tasks, answers,
                             lost>>
            BY <1>5 DEF Event
        <3> QED  BY <3>1
    <2> QED  BY <2>1, <2>2
<1>6. ASSUME NEW c \in Conns, SessionCloses(t, c)  PROVE PInv'
    BY <1>6 DEF SessionCloses, CloseFd, Lose
<1>7. ASSUME NEW c \in Conns, Task(t, c)  PROVE PInv'
    BY <1>7 DEF Task, SessionEnters, Lose
<1> QED  BY <1>1, <1>2, <1>3, <1>4, <1>5, <1>6, <1>7 DEF LoopStep

-----------------------------------------------------------------------------
\* Who can still answer a call: epoll, an event that was fetched, a posted
\* task, a handler on a service_thread, or the application in async_connect.
Watched(c) == c \in linked \ entered
Fetched(t, c) == c \in work[t] /\ at[t] # "tasks"
Queued(t, c) == c \in tasks[t] \/ (c \in work[t] /\ at[t] = "tasks")
Handled(t, c) == at[t] \in Handling /\ job[t] = c
ByApp(c) == at[App] \in Handling \cup Calling /\ job[App] = c
\* At most one of them has the call, and none that could answer it once more
\* is left when it has an answer.
Claim(t, c) ==
    /\ ByApp(c) => ~Watched(c) /\ ~Fetched(t, c) /\ ~Handled(t, c)
    /\ ByApp(c) /\ at[App] \notin Done => answers[c] = 0
    /\ ByApp(c) /\ Queued(t, c) => at[App] \in {"recycle", "unlock"}
    /\ Queued(t, c) => ~Watched(c) /\ ~Fetched(t, c) /\ ~Handled(t, c) /\ answers[c] = 0
    /\ c \in tasks[t] => c \notin work[t]
    /\ Watched(c) \/ Fetched(t, c) => answers[c] = 0
    /\ Fetched(t, c) => ~Handled(t, c)
    /\ Handled(t, c) /\ at[t] \in Fresh => answers[c] = 0
    /\ c \in entered => answers[c] = 1
    /\ answers[c] <= 1
Claims == \A t \in Threads : \A c \in begun : Claim(t, c)

LEMMA AppKeepsClaims ==
    ASSUME PInv, PInv', Claims, AppStep, NEW t \in Threads, NEW c \in begun'
    PROVE  Claim(t, c)'
<1> USE AppIsNoThread DEF PInv, At, CTypeOK, Placed, call, sockets, Handling, Fresh, Done, Calling,
                          Apart, Looping, CallOrNone, Watched, Fetched, Queued, Handled, ByApp,
                          Claim, Claims
<1>1. ASSUME NEW k \in Conns, CreateSocket(k)  PROVE Claim(t, c)'
    BY <1>1 DEF CreateSocket
<1>2. CASE InsertContext
    BY <1>2 DEF InsertContext
<1>3. CASE Connect
    BY SMTT(40), <1>3 DEF Connect
<1>4. CASE Link
    BY SMTT(40), <1>4 DEF Link
<1>5. CASE LinkFailed
    BY <1>5 DEF LinkFailed, Recycle
<1>6. CASE Destroy
    BY <1>6 DEF Destroy
<1>7. CASE Spin
    BY <1>7 DEF Spin
<1>8. ASSUME NEW n \in Fds, Sweep(n)  PROVE Claim(t, c)'
    BY <1>8 DEF Sweep
<1>9. CASE Destroyed
    BY <1>9 DEF Destroyed
<1> QED  BY <1>1, <1>2, <1>3, <1>4, <1>5, <1>6, <1>7, <1>8, <1>9 DEF AppStep

LEMMA HandlerKeepsClaims ==
    ASSUME PInv, PInv', Claims, NEW a \in Actor, HandlerStep(a), NEW t \in Threads, NEW c \in begun'
    PROVE  Claim(t, c)'
<1> USE AppIsNoThread DEF PInv, At, CTypeOK, Placed, call, sockets, Handling, Fresh, Done, Calling,
                          Apart, Looping, CallOrNone, Watched, Fetched, Queued, Handled, ByApp,
                          Claim, Claims
<1>0. a \in Threads \/ a = App
    BY DEF Actor, App
<1>1. CASE OnSend(a)
    BY <1>0, <1>1 DEF OnSend, CancelEvent
<1>2. CASE Success(a)
    BY <1>0, <1>2 DEF Success, TryLock, Back
<1>3. CASE Failed(a)
    BY <1>0, <1>3 DEF Failed, TryLock, AfterFailed
<1>4. CASE AddTcpSession(a)
    BY <1>0, <1>4 DEF AddTcpSession, SessionEnters
<1>5. CASE RecycleContext(a)
    BY <1>0, <1>5 DEF RecycleContext, Recycle
<1>6. CASE ReportFailed(a)
    BY <1>0, <1>6 DEF ReportFailed, CloseFd
<1>7. CASE Unlock(a)
    BY <1>0, <1>7 DEF Unlock, Back, AfterFailed
<1>8. CASE OnCloseCancels(a)
    BY <1>0, <1>8 DEF OnCloseCancels, CancelEvent
<1>9. CASE HandlerCloses(a)
    BY <1>0, <1>9 DEF HandlerCloses, CloseFd, Back
<1> QED  BY <1>1, <1>2, <1>3, <1>4, <1>5, <1>6, <1>7, <1>8, <1>9 DEF HandlerStep

LEMMA LoopKeepsClaims ==
    ASSUME PInv, PInv', Claims, NEW u \in Threads, LoopStep(u), NEW t \in Threads, NEW c \in begun'
    PROVE  Claim(t, c)'
<1> USE AppIsNoThread DEF PInv, At, CTypeOK, Placed, call, sockets, Handling, Fresh, Done, Calling,
                          Apart, Looping, CallOrNone, Watched, Fetched, Queued, Handled, ByApp,
                          Claim, Claims
<1>1. CASE EpollWait(u)
    BY <1>1 DEF EpollWait
<1>2. CASE SwapTasks(u)
    BY <1>2 DEF SwapTasks
<1>3. CASE TasksDone(u)
    BY <1>3 DEF TasksDone
<1>4. CASE ReleaseChannel(u)
    BY <1>4 DEF ReleaseChannel
<1>5. ASSUME NEW k \in Conns, Event(u, k)  PROVE Claim(t, c)'
    BY <1>5 DEF Event
<1>6. ASSUME NEW k \in Conns, SessionCloses(u, k)  PROVE Claim(t, c)'
    BY <1>6 DEF SessionCloses, CloseFd
<1>7. ASSUME NEW k \in Conns, Task(u, k)  PROVE Claim(t, c)'
    BY <1>7 DEF Task, SessionEnters
<1> QED  BY <1>1, <1>2, <1>3, <1>4, <1>5, <1>6, <1>7 DEF LoopStep

-----------------------------------------------------------------------------
\* A call is answered or lost, or somebody still has it; a handler that is past
\* its answer leaves nothing behind.
Told(c) == answers[c] # 0 \/ lost[c] # "no"
UnderWay(c) == \/ c \in linked \/ ByApp(c) \/ Handled(thread[c], c)
               \/ c \in tasks[thread[c]] \cup work[thread[c]]
Settled == /\ \A a \in Actor : at[a] \in Done => Told(job[a]) \/ Queued(thread[job[a]], job[a])
           /\ \A c \in begun : Told(c) \/ UnderWay(c)

LEMMA AppKeepsSettled ==
    ASSUME PInv, PInv', Claims, Settled, AppStep
    PROVE  Settled'
<1> USE AppIsNoThread DEF PInv, At, CTypeOK, Placed, call, sockets, Handling, Fresh, Done, Calling,
                          Apart, Looping, CallOrNone, Queued, Handled, ByApp, Told, UnderWay,
                          Settled
<1>1. ASSUME NEW k \in Conns, CreateSocket(k)  PROVE Settled'
    BY <1>1 DEF CreateSocket
<1>2. CASE InsertContext
    BY <1>2 DEF InsertContext
<1>3. CASE Connect
    BY <1>3 DEF Connect
<1>4. CASE Link
    BY <1>4 DEF Link
<1>5. CASE LinkFailed
    BY <1>5 DEF LinkFailed, Recycle
<1>6. CASE Destroy
    BY <1>6 DEF Destroy
<1>7. CASE Spin
    BY <1>7 DEF Spin
<1>8. ASSUME NEW n \in Fds, Sweep(n)  PROVE Settled'
    BY <1>8 DEF Sweep
<1>9. CASE Destroyed
    BY <1>9 DEF Destroyed
<1> QED  BY <1>1, <1>2, <1>3, <1>4, <1>5, <1>6, <1>7, <1>8, <1>9 DEF AppStep

LEMMA HandlerKeepsSettled ==
    ASSUME PInv, PInv', Claims, Settled, NEW a \in Actor, HandlerStep(a)
    PROVE  Settled'
<1> USE AppIsNoThread DEF PInv, At, CTypeOK, Placed, call, sockets, Handling, Fresh, Done, Calling,
                          Apart, Looping, CallOrNone, Queued, Handled, ByApp, Told, UnderWay,
                          Settled
<1>0. a \in Threads \/ a = App
    BY DEF Actor, App
<1>1. CASE OnSend(a)
    BY <1>0, <1>1 DEF OnSend, CancelEvent, Lose
<1>2. CASE Success(a)
    BY <1>0, <1>2 DEF Success, TryLock, Back, Lose
<1>3. CASE Failed(a)
    BY <1>0, <1>3 DEF Failed, TryLock, AfterFailed, Lose
<1>4. CASE AddTcpSession(a)
    BY SMTT(40), <1>0, <1>4 DEF AddTcpSession, SessionEnters, Lose
<1>5. CASE RecycleContext(a)
    BY SMTT(40), <1>0, <1>5 DEF RecycleContext, Recycle
<1>6. CASE ReportFailed(a)
    BY <1>0, <1>6 DEF ReportFailed, CloseFd, Lose
<1>7. CASE Unlock(a)
    BY <1>0, <1>7 DEF Unlock, Back, AfterFailed
<1>8. CASE OnCloseCancels(a)
    BY <1>0, <1>8 DEF OnCloseCancels, CancelEvent, Lose
<1>9. CASE HandlerCloses(a)
    BY <1>0, <1>9 DEF HandlerCloses, CloseFd, Back, Lose
<1> QED  BY <1>1, <1>2, <1>3, <1>4, <1>5, <1>6, <1>7, <1>8, <1>9 DEF HandlerStep

LEMMA LoopKeepsSettled ==
    ASSUME PInv, PInv', Claims, Settled, NEW t \in Threads, LoopStep(t)
    PROVE  Settled'
<1> USE AppIsNoThread DEF PInv, At, CTypeOK, Placed, call, sockets, Handling, Fresh, Done, Calling,
                          Apart, Looping, CallOrNone, Queued, Handled, ByApp, Told, UnderWay,
                          Settled
<1>1. CASE EpollWait(t)
    BY <1>1 DEF EpollWait
<1>2. CASE SwapTasks(t)
    BY <1>2 DEF SwapTasks
<1>3. CASE TasksDone(t)
    BY <1>3 DEF TasksDone
<1>4. CASE ReleaseChannel(t)
    BY <1>4 DEF ReleaseChannel
<1>5. ASSUME NEW c \in Conns, Event(t, c)  PROVE Settled'
    <2>1. /\ at[t] = "events" /\ c \in work[t] /\ t \in Actor /\ t # App
          /\ at' = [at EXCEPT ![t] = "on_send"] \/ at' = [at EXCEPT ![t] = "failed"]
          /\ work' = [work EXCEPT ![t] = @ \ {c}] /\ job' = [job EXCEPT ![t] = c]
          /\ UNCHANGED <<begun, fd, thread, linked, tasks, answers, lost>>
        BY <1>5 DEF Event
    <2>2. c \in begun /\ thread[c] = t
        BY <2>1
    <2>3. \A a \in Actor : at'[a] \in Done => a # t /\ at[a] \in Done /\ job'[a] = job[a]
        BY <2>1
    <2>4. \A k \in begun : Queued(thread[k], k) => Queued(thread[k], k)'
        BY <2>1
    <2>5. \A a \in Actor : at'[a] \in Done => Told(job[a])' \/ Queued(thread[job[a]], job[a])'
        <3> SUFFICES ASSUME NEW a \in Actor, at'[a] \in Done
                     PROVE  Told(job[a])' \/ Queued(thread[job[a]], job[a])'
            OBVIOUS
        <3>1. at[a] \in Done /\ job'[a] = job[a] /\ job[a] \in begun
            BY <2>3
        <3>2. CASE Told(job[a])
            BY <2>1, <3>1, <3>2
        <3>3. CASE Queued(thread[job[a]], job[a])
            <4> HIDE DEF PInv, Claims, Settled
            <4> QED  BY <2>1, <2>4, <3>1, <3>3
        <3> QED  BY <3>1, <3>2, <3>3
    <2>6. \A k \in begun : Told(k)' \/ UnderWay(k)'
        BY <2>1, <2>2
    <2> QED  BY <2>1, <2>5, <2>6
<1>6. ASSUME NEW c \in Conns, SessionCloses(t, c)  PROVE Settled'
    BY <1>6 DEF SessionCloses, CloseFd, Lose, Claims, Claim
<1>7. ASSUME NEW c \in Conns, Task(t, c)  PROVE Settled'
    BY <1>7 DEF Task, SessionEnters, Lose
<1> QED  BY <1>1, <1>2, <1>3, <1>4, <1>5, <1>6, <1>7 DEF LoopStep

-----------------------------------------------------------------------------
\* Without a holder the token is free.
TokenHasHolder == token # None => token \in Actor /\ at[token] \in Locked

LEMMA NextKeepsHolder ==
    ASSUME PInv, TokenIsHeld, TokenHasHolder, Next
    PROVE  TokenHasHolder'
<1> USE AppIsNoThread DEF TokenHasHolder, PInv, CTypeOK, At, Locked, Actor
<1>1. CASE AppStep
    BY <1>1 DEF AppStep, CreateSocket, InsertContext, Connect, Link, LinkFailed, Destroy, Spin,
        Sweep, Destroyed
<1>2. ASSUME NEW a \in Actor, HandlerStep(a)  PROVE TokenHasHolder'
    BY <1>2 DEF HandlerStep, OnSend, Success, Failed, TryLock, AddTcpSession,
        RecycleContext, ReportFailed, Unlock, OnCloseCancels, HandlerCloses
<1>3. ASSUME NEW t \in Threads, LoopStep(t)  PROVE TokenHasHolder'
    BY <1>3 DEF LoopStep, EpollWait, SwapTasks, TasksDone, ReleaseChannel, Event, SessionCloses,
        Task
<1> QED  BY <1>1, <1>2, <1>3 DEF Next

\* A connector that has made one call.  Its number has its socket from connect()
\* until the session enters, unless the destructor has swept it; nothing is left
\* in epoll when the session enters, nor in the map once its task is posted.
Gone == at[App] \in {"sweep", "gone"}
Entering(c) == \/ ByApp(c) /\ at[App] \in {"on_send", "success", "enter"}
               \/ Handled(thread[c], c) /\ at[thread[c]] = "enter"
Alone(c) ==
    begun = {c} =>
        /\ lost[c] = "held" => Gone
        /\ lost[c] # "closed"
        /\ Entering(c) \/ Queued(thread[c], c) => socket[fd[c]] = c
        /\ Handled(thread[c], c) /\ at[thread[c]] = "success" => socket[fd[c]] = c \/ Gone
        /\ Handled(thread[c], c) /\ at[thread[c]] \in {"success", "enter"} => c \notin linked
        /\ Queued(thread[c], c) /\ context[fd[c]] = c => at[App] = "recycle"
\* Every reason for a loss, where the run has met it.
Reasons == /\ \A c \in begun : lost[c] = "destroyed" => Gone
           /\ \A c \in begun : Alone(c)

\* The token that the result of the only call has found set is the destructor's.
LEMMA HeldByAnother ==
    ASSUME PInv, Claims, TokenIsHeld, TokenHasHolder, token # None, NEW a \in Actor,
           at[a] \in {"success", "failed"}, job[a] \in begun
    PROVE  Gone \/ begun # {job[a]}
<1> SUFFICES ASSUME begun = {job[a]}, ~Gone  PROVE FALSE
    OBVIOUS
<1> USE AppIsNoThread DEF PInv, CTypeOK, Placed, Handling, Fresh, Done, Calling
<1>1. token \in Actor /\ at[token] \in Locked \ {"sweep", "gone"} /\ token # a
    BY DEF TokenHasHolder, Gone, Locked, Apart, Actor
<1>2. job[token] = job[a]
    BY <1>1 DEF Locked
<1>3. CASE a \in Threads /\ token \in Threads
    BY <1>1, <1>2, <1>3 DEF Locked
<1>4. CASE a = App /\ token \in Threads
    BY <1>1, <1>2, <1>4 DEF Claims, Claim, ByApp, Handled, Locked
<1>5. CASE token = App /\ a \in Threads
    BY <1>1, <1>2, <1>5 DEF Claims, Claim, ByApp, Handled, Locked
<1> QED  BY <1>1, <1>3, <1>4, <1>5 DEF Actor, App

LEMMA AppKeepsReasons ==
    ASSUME PInv, PInv', Claims, TokenIsHeld, Reasons, AppStep
    PROVE  Reasons'
<1> USE AppIsNoThread DEF PInv, At, CTypeOK, Placed, call, sockets, Handling, Fresh, Done, Calling,
                          Apart, Looping, CallOrNone, Queued, Handled, ByApp, Entering, Gone, Alone,
                          Reasons
<1>1. ASSUME NEW k \in Conns, CreateSocket(k)  PROVE Reasons'
    BY <1>1 DEF CreateSocket
<1>2. CASE InsertContext
    BY <1>2 DEF InsertContext, Claims, Claim
<1>3. CASE Connect
    BY <1>3 DEF Connect
<1>4. CASE Link
    BY <1>4 DEF Link, Claims, Claim
<1>5. CASE LinkFailed
    BY <1>5 DEF LinkFailed, Recycle, Claims, Claim
<1>6. CASE Destroy
    BY <1>6 DEF Destroy
<1>7. CASE Spin
    BY <1>7 DEF Spin
<1>8. ASSUME NEW n \in Fds, Sweep(n)  PROVE Reasons'
    <2>1. /\ at[App] = "sweep" /\ context[n] # None /\ context[n] \in begun
          /\ socket' = [socket EXCEPT ![n] = None] /\ linked' \subseteq linked
          /\ context' = [context EXCEPT ![n] = None]
          /\ UNCHANGED <<begun, fd, thread, tasks, work, at, job>>
        BY <1>8 DEF Sweep
    <2>2. \A k \in begun : lost'[k] = lost[k] \/ lost'[k] = "destroyed"
                          \/ (lost'[k] = "closed" /\ k # context[n])
        BY <1>8 DEF Sweep
    <2>3. \A t \in Threads : at[t] # "enter"
        BY <2>1 DEF TokenIsHeld, Locked, Actor
    <2>4. \A k \in begun' : lost'[k] = "destroyed" => Gone'
        BY <2>1
    <2>5. ASSUME NEW k \in begun, begun = {k}  PROVE Alone(k)'
        <3>1. context[n] = k /\ fd[k] = n /\ thread[k] \in Threads
            BY <2>1, <2>5
        <3>2. ~Queued(thread[k], k) /\ ~Entering(k)
            BY <2>1, <2>3, <2>5, <3>1
        <3> QED  BY <2>1, <2>2, <2>5, <3>1, <3>2
    <2> QED  BY <2>1, <2>4, <2>5
<1>9. CASE Destroyed
    BY <1>9 DEF Destroyed
<1> QED  BY <1>1, <1>2, <1>3, <1>4, <1>5, <1>6, <1>7, <1>8, <1>9 DEF AppStep

LEMMA HandlerKeepsReasons ==
    ASSUME PInv, PInv', Claims, TokenIsHeld, TokenHasHolder, Reasons, NEW a \in Actor,
           HandlerStep(a)
    PROVE  Reasons'
<1> USE AppIsNoThread DEF PInv, At, CTypeOK, Placed, call, sockets, Handling, Fresh, Done, Calling,
                          Apart, Looping, CallOrNone, Queued, Handled, ByApp, Entering, Gone, Alone,
                          Reasons
<1>0. a \in Threads \/ a = App
    BY DEF Actor, App
<1>1. CASE OnSend(a)
    BY <1>0, <1>1 DEF OnSend, CancelEvent, Lose, Claims, Claim
<1>2. CASE Success(a)
    <2>1. /\ at[a] = "success" /\ job[a] \in begun
          /\ UNCHANGED <<begun, fd, thread, socket, linked, context, tasks, work, job>>
        BY <1>0, <1>2 DEF Success, TryLock
    <2>2. CASE token = None
        <3>1. at' = [at EXCEPT ![a] = "enter"] /\ lost' = lost
            BY <1>2, <2>2 DEF Success, TryLock
        <3>2. ~Gone
            BY <2>2, ConnectorAssumption DEF TokenIsHeld, Locked, App
        <3>3. CASE a = App
            BY <2>1, <3>1, <3>2, <3>3
        <3>4. CASE a \in Threads
            BY <2>1, <3>1, <3>2, <3>4
        <3> QED  BY <1>0, <3>3, <3>4
    <2>3. CASE token # None
        <3>1. at' = [at EXCEPT ![a] = Back(a)] /\ Lose(job[a], "held")
            BY <1>2, <2>3 DEF Success, TryLock
        <3>2. a # App => Gone \/ begun # {job[a]}
            BY <2>1, <2>3, HeldByAnother
        <3>3. CASE a = App
            BY <2>1, <2>3, <3>1, <3>3, HeldByAnother DEF Back, Lose
        <3>4. CASE a \in Threads
            BY <2>1, <3>1, <3>2, <3>4 DEF Back, Lose
        <3> QED  BY <1>0, <3>3, <3>4
    <2> QED  BY <2>2, <2>3
<1>3. CASE Failed(a)
    <2>1. /\ at[a] = "failed" /\ job[a] \in begun
          /\ UNCHANGED <<begun, fd, thread, socket, linked, context, tasks, work, job>>
        BY <1>0, <1>3 DEF Failed, TryLock
    <2>2. CASE token = None
        BY <1>0, <1>3, <2>1, <2>2 DEF Failed, TryLock
    <2>3. CASE token # None
        <3>1. PICK to \in {"cancel", "close"} : at' = [at EXCEPT ![a] = to]
            BY <1>3, <2>3 DEF Failed, TryLock, AfterFailed
        <3>2. Lose(job[a], "held")
            BY <1>3, <2>3 DEF Failed, TryLock
        <3>3. Gone \/ begun # {job[a]}
            BY <2>1, <2>3, HeldByAnother
        <3>4. CASE a = App
            BY <2>1, <3>1, <3>2, <3>3, <3>4 DEF Lose
        <3>5. CASE a \in Threads
            BY <2>1, <3>1, <3>2, <3>3, <3>5 DEF Lose
        <3> QED  BY <1>0, <3>4, <3>5
    <2> QED  BY <2>2, <2>3
<1>4. CASE AddTcpSession(a)
    BY <1>0, <1>4 DEF AddTcpSession, SessionEnters, Lose, Claims, Claim
<1>5. CASE RecycleContext(a)
    BY <1>0, <1>5 DEF RecycleContext, Recycle, Claims, Claim
<1>6. CASE ReportFailed(a)
    BY <1>0, <1>6 DEF ReportFailed, CloseFd, Lose, Claims, Claim
<1>7. CASE Unlock(a)
    BY <1>0, <1>7 DEF Unlock, Back, AfterFailed
<1>8. CASE OnCloseCancels(a)
    BY <1>0, <1>8 DEF OnCloseCancels, CancelEvent, Lose
<1>9. CASE HandlerCloses(a)
    BY <1>0, <1>9 DEF HandlerCloses, CloseFd, Back, Lose, Claims, Claim
<1> QED  BY <1>1, <1>2, <1>3, <1>4, <1>5, <1>6, <1>7, <1>8, <1>9 DEF HandlerStep

LEMMA LoopKeepsReasons ==
    ASSUME PInv, PInv', Claims, Reasons, NEW t \in Threads, LoopStep(t)
    PROVE  Reasons'
<1> USE AppIsNoThread DEF PInv, At, CTypeOK, Placed, call, sockets, Handling, Fresh, Done, Calling,
                          Apart, Looping, CallOrNone, Queued, Handled, ByApp, Entering, Gone, Alone,
                          Reasons
<1>1. CASE EpollWait(t)
    BY <1>1 DEF EpollWait
<1>2. CASE SwapTasks(t)
    BY <1>2 DEF SwapTasks
<1>3. CASE TasksDone(t)
    BY <1>3 DEF TasksDone
<1>4. CASE ReleaseChannel(t)
    BY <1>4 DEF ReleaseChannel
<1>5. ASSUME NEW c \in Conns, Event(t, c)  PROVE Reasons'
    BY <1>5 DEF Event
<1>6. ASSUME NEW c \in Conns, SessionCloses(t, c)  PROVE Reasons'
    BY <1>6 DEF SessionCloses, CloseFd, Lose, Claims, Claim
<1>7. ASSUME NEW c \in Conns, Task(t, c)  PROVE Reasons'
    <2>1. /\ c \in work[t] /\ at[t] = "tasks" /\ c \in begun /\ thread[c] = t /\ Queued(t, c)
          /\ work' = [work EXCEPT ![t] = @ \ {c}]
          /\ UNCHANGED <<begun, fd, thread, socket, context, tasks, at, job>>
        BY <1>7 DEF Task
    <2>2. (answers[c] = 0 /\ ~ByApp(c)) \/ at[App] \in {"recycle", "unlock"}
        BY <2>1 DEF Claims, Claim
    <2>3. begun = {c} => lost' = lost
        BY <1>7, <2>1 DEF Task, SessionEnters, Claims, Claim, Watched
    <2>4. lost' = lost \/ Lose(c, "closed")
        BY <1>7 DEF Task, SessionEnters
    <2>5. \A k \in begun : lost'[k] = "destroyed" => lost[k] = "destroyed"
        BY <2>4 DEF Lose
    <2>6. \A k \in begun : begun = {k} => k = c
        BY <2>1
    <2>7. \A u \in Threads : ~(at[u] \in Handling /\ u = t)
        BY <2>1
    <2>8. Alone(c)'
        BY <2>1, <2>3, <2>7
    <2> QED  BY <2>1, <2>5, <2>6, <2>8
<1> QED  BY <1>1, <1>2, <1>3, <1>4, <1>5, <1>6, <1>7 DEF LoopStep

-----------------------------------------------------------------------------
\* No result was dropped and no number closed twice: what the lifetime of a
\* context depends on.
Clean == \A c \in Conns : lost[c] \notin {"held", "closed"}
\* A handler before recycle_context.
Early == {"on_send", "success", "failed", "enter", "recycle", "recycle_failed"}
\* The number of the call still has its socket and, in connecting_context_, its
\* context; or the destructor has handed the context to the collector, which
\* the thread empties only after its events and handlers.
Whole(c) == socket[fd[c]] = c /\ context[fd[c]] = c
Kept(c) == c \in collected[thread[c]] \cup collected["leak"]
Swept(c) == at[App] \in {"sweep", "gone"} /\ Kept(c)
Safe ==
    /\ \A c \in begun : Watched(c) => Whole(c) \/ Handled(thread[c], c)
    /\ \A t \in Threads : \A c \in begun : Fetched(t, c) => Whole(c) \/ Swept(c)
    /\ \A t \in Threads : at[t] \in Early => Whole(job[t]) \/ Swept(job[t])
    /\ \A t \in Threads : at[t] \in Handling \ Early => Kept(job[t])
    /\ at[App] \in {"insert", "connect", "link"} => socket[fd[job[App]]] = job[App]
    /\ at[App] \in Early \cup {"connect", "link", "unlinked"} => context[fd[job[App]]] = job[App]

\* A loss is never taken back, so what holds of a clean run held before the step.
LEMMA LossIsForGood ==
    ASSUME PInv, Next, Clean'
    PROVE  Clean
<1> USE DEF PInv, CTypeOK, Clean
<1>1. CASE AppStep
    BY <1>1 DEF AppStep, CreateSocket, InsertContext, Connect, Link, LinkFailed, Destroy, Spin,
        Sweep, Destroyed
<1>2. ASSUME NEW a \in Actor, HandlerStep(a)  PROVE Clean
    BY <1>2 DEF HandlerStep, OnSend, Success, Failed, TryLock, AddTcpSession, SessionEnters,
        RecycleContext, ReportFailed, Unlock, OnCloseCancels, HandlerCloses, CancelEvent, CloseFd,
        Lose
<1>3. ASSUME NEW t \in Threads, LoopStep(t)  PROVE Clean
    BY <1>3 DEF LoopStep, EpollWait, SwapTasks, TasksDone, ReleaseChannel, Event, SessionCloses,
        Task, SessionEnters, CloseFd, Lose
<1> QED  BY <1>1, <1>2, <1>3 DEF Next

\* What stays while an actor moves on and at most loses sockets from epoll.
Frame == /\ linked' \subseteq linked
         /\ UNCHANGED <<call, socket, context, entered, work, collected, job>>

\* A handler on a service_thread goes on, or returns to the loop.
LEMMA HandlerMoves ==
    ASSUME PInv, Safe, Frame, NEW t \in Threads, NEW to \in Handling \cup {"events"},
           at[t] \in Handling, at' = [at EXCEPT ![t] = to],
           to \in Early => at[t] \in Early,
           to \in Handling \ Early => Kept(job[t]),
           to = "events" => ~Watched(job[t])
    PROVE  Safe'
<1> USE AppIsNoThread DEF Frame, call, Handling, Fresh, Done, Whole, Kept, Swept, Watched, Handled,
                          Fetched
<1> at \in [Actor -> Handling \cup Calling \cup Apart \cup Looping] /\ t \in Actor /\ t # App
    BY DEF PInv, CTypeOK
<1>1. at'[App] = at[App] /\ at'[t] = to /\ \A u \in Threads : u # t => at'[u] = at[u]
    BY DEF Actor
<1>2. \A c : /\ Whole(c)' <=> Whole(c)
             /\ Swept(c)' <=> Swept(c)
             /\ Watched(c)' => Watched(c)
    BY <1>1
<1>3. \A u \in Threads : \A c : Fetched(u, c)' => Fetched(u, c)
    BY <1>1
<1>4. \A c \in begun : Watched(c)' => Whole(c)' \/ Handled(thread[c], c)'
    BY <1>1, <1>2 DEF Safe, PInv, Placed
<1>5. \A u \in Threads : \A c \in begun : Fetched(u, c)' => Whole(c)' \/ Swept(c)'
    BY <1>2, <1>3 DEF Safe
<1>6. \A u \in Threads : /\ at'[u] \in Early => at[u] \in Early
                         /\ at'[u] \in Handling \ Early /\ u # t => at[u] \in Handling \ Early
    BY <1>1 DEF Early
<1>7. \A u \in Threads : at'[u] \in Early => Whole(job[u])' \/ Swept(job[u])'
    BY <1>2, <1>6 DEF Safe
<1>8. \A u \in Threads : at'[u] \in Handling \ Early => Kept(job[u])'
    BY <1>1, <1>6 DEF Safe
<1> QED  BY <1>1, <1>4, <1>5, <1>7, <1>8 DEF Safe

\* The application goes on.
LEMMA AppMoves ==
    ASSUME PInv, Safe, Frame, NEW to, at' = [at EXCEPT ![App] = to],
           at[App] \in {"sweep", "gone"} => to \in {"sweep", "gone"},
           to \in {"insert", "connect", "link"} => at[App] \in {"insert", "connect", "link"},
           to \in Early \cup {"connect", "link", "unlinked"} =>
               at[App] \in Early \cup {"connect", "link", "unlinked"}
    PROVE  Safe'
<1> USE AppIsNoThread DEF Frame, call, Whole, Kept, Swept, Watched, Handled, Fetched
<1> at \in [Actor -> Handling \cup Calling \cup Apart \cup Looping]
    BY DEF PInv, CTypeOK
<1>1. at'[App] = to /\ \A u \in Threads : at'[u] = at[u]
    OBVIOUS
<1>2. \A c : /\ Whole(c)' <=> Whole(c)
             /\ Swept(c) => Swept(c)'
             /\ Watched(c)' => Watched(c)
    BY <1>1 DEF Whole, Swept, Kept, Watched
<1>3. \A u \in Threads : \A c : /\ Handled(u, c) <=> Handled(u, c)'
                               /\ Fetched(u, c)' <=> Fetched(u, c)
    BY <1>1 DEF Handled, Fetched
<1>4. \A c \in begun : Watched(c)' => Whole(c)' \/ Handled(thread[c], c)'
    BY <1>2, <1>3 DEF Safe, PInv, Placed
<1>5. \A u \in Threads : \A c \in begun : Fetched(u, c)' => Whole(c)' \/ Swept(c)'
    BY <1>2, <1>3 DEF Safe
<1>6. \A u \in Threads : at'[u] \in Early => Whole(job[u])' \/ Swept(job[u])'
    BY <1>1, <1>2 DEF Safe
<1>7. \A u \in Threads : at'[u] \in Handling \ Early => Kept(job[u])'
    BY <1>1 DEF Safe, Kept
<1> QED  BY <1>1, <1>4, <1>5, <1>6, <1>7 DEF Safe

LEMMA AppKeepsSafe ==
    ASSUME PInv, PInv', Claims, Clean, Clean', Safe, AppStep
    PROVE  Safe'
<1> USE AppIsNoThread DEF PInv, At, CTypeOK, Placed, call, sockets, Handling, Fresh, Done, Calling,
                          Apart, Looping, CallOrNone, Watched, Fetched, Handled, ByApp, Early,
                          Whole, Kept, Swept, Safe, Clean
<1>1. ASSUME NEW k \in Conns, CreateSocket(k)  PROVE Safe'
    BY <1>1 DEF CreateSocket
<1>2. CASE InsertContext
    BY <1>2 DEF InsertContext, Claims, Claim
<1>3. CASE Connect
    <2>1. Frame
        BY <1>3 DEF Connect, Frame, sockets
    <2>2. \/ at[App] = "connect" /\ at' = [at EXCEPT ![App] = "link"]
          \/ at[App] = "connect" /\ at' = [at EXCEPT ![App] = "on_send"]
          \/ at[App] = "connect" /\ at' = [at EXCEPT ![App] = "failed"]
        BY <1>3 DEF Connect
    <2> QED  BY <2>1, <2>2, AppMoves DEF Early
<1>4. CASE Link
    <2>1. at[App] = "link" /\ socket[fd[job[App]]] = job[App] /\ context[fd[job[App]]] = job[App]
        BY <1>4 DEF Link
    <2>2. CASE at' = [at EXCEPT ![App] = "idle"] /\ linked' = linked \cup {job[App]}
        BY <1>4, <2>1, <2>2 DEF Link
    <2>3. CASE at' = [at EXCEPT ![App] = "unlinked"] /\ UNCHANGED linked
        BY <1>4, <2>1, <2>3 DEF Link
    <2> QED  BY <1>4, <2>2, <2>3 DEF Link
<1>5. CASE LinkFailed
    BY <1>5 DEF LinkFailed, Recycle, Put, Claims, Claim
<1>6. CASE Destroy
    BY <1>6 DEF Destroy
<1>7. CASE Spin
    BY <1>7 DEF Spin
<1>8. ASSUME NEW n \in Fds, Sweep(n)  PROVE Safe'
    BY <1>8 DEF Sweep, Put
<1>9. CASE Destroyed
    BY <1>9 DEF Destroyed
<1> QED  BY <1>1, <1>2, <1>3, <1>4, <1>5, <1>6, <1>7, <1>8, <1>9 DEF AppStep

\* A handler past its answer has no socket in epoll that could call it again.
LEMMA DoneIsUnwatched ==
    ASSUME PInv, Claims, Settled, Clean, NEW t \in Threads, at[t] \in Done
    PROVE  ~Watched(job[t])
<1>1. Told(job[t]) \/ Queued(thread[job[t]], job[t])
    BY AppIsNoThread DEF Settled
<1>2. job[t] \in begun /\ job[t] \in Conns /\ thread[job[t]] = t /\ at[t] # "tasks"
    BY AppIsNoThread DEF PInv, CTypeOK, Placed, Handling, Done
<1>3. ASSUME job[t] \in linked  PROVE lost[job[t]] = "no"
    BY <1>2, <1>3, AppIsNoThread DEF PInv, CTypeOK, Placed, Clean
<1> QED  BY <1>1, <1>2, <1>3 DEF Claims, Claim, Told, Watched

\* A result dropped in a clean run was the destructor's.
LEMMA DroppedIsSwept ==
    ASSUME PInv, Safe, Clean, Clean', NEW t \in Threads, at[t] \in Early, Lose(job[t], "held")
    PROVE  ~Watched(job[t]) /\ Kept(job[t])
<1> USE AppIsNoThread
<1>1. job[t] \in begun /\ job[t] \in Conns /\ fd[job[t]] \in Fds
    BY DEF PInv, CTypeOK, Placed, Early, Handling, Fresh, Done
<1>2. lost[job[t]] # "no"
    BY <1>1 DEF Lose, Clean, PInv, CTypeOK
<1>3. lost[job[t]] \in {"unlinked", "destroyed"}
    BY <1>1, <1>2 DEF Clean, PInv, CTypeOK
<1>4. socket[fd[job[t]]] # job[t]
    BY <1>1, <1>3 DEF PInv, Placed
<1> QED  BY <1>1, <1>4 DEF Safe, Whole, Swept, Watched, PInv, Placed

LEMMA HandlerKeepsSafe ==
    ASSUME PInv, PInv', Claims, Settled, TokenIsHeld, Clean, Clean', Safe, NEW a \in Actor,
           HandlerStep(a)
    PROVE  Safe'
<1> USE AppIsNoThread DEF PInv, At, CTypeOK, Placed, call, sockets, Handling, Fresh, Done, Calling,
                          Apart, Looping, CallOrNone, Watched, Fetched, Handled, ByApp, Early,
                          Whole, Kept, Swept, Safe, Clean
<1>0. a \in Threads \/ a = App
    BY DEF Actor, App
<1>1. CASE OnSend(a)
    <2>1. Frame /\ at[a] = "on_send"
        BY <1>1 DEF OnSend, CancelEvent, Frame
    <2>2. PICK to \in {"success", "failed"} : at' = [at EXCEPT ![a] = to]
        BY <1>1 DEF OnSend
    <2>3. CASE a = App
        BY ZenonT(40), <2>1, <2>2, <2>3, AppMoves
    <2>4. CASE a \in Threads
        BY <2>1, <2>2, <2>4, HandlerMoves
    <2> QED  BY <1>0, <2>3, <2>4
<1>2. CASE Success(a)
    <2>1. Frame /\ at[a] = "success"
        BY <1>2 DEF Success, TryLock, Frame
    <2>2. CASE token = None
        <3>1. at' = [at EXCEPT ![a] = "enter"]
            BY <1>2, <2>2 DEF Success, TryLock
        <3>2. CASE a = App
            BY <2>1, <3>1, <3>2, AppMoves
        <3>3. CASE a \in Threads
            BY <2>1, <3>1, <3>3, HandlerMoves
        <3> QED  BY <1>0, <3>2, <3>3
    <2>3. CASE token # None
        <3>1. CASE a = App
            <4>1. at' = [at EXCEPT ![a] = "idle"]
                BY <1>2, <2>3, <3>1 DEF Success, TryLock, Back
            <4> QED  BY <2>1, <3>1, <4>1, AppMoves
        <3>2. CASE a \in Threads
            <4>1. at' = [at EXCEPT ![a] = "events"] /\ Lose(job[a], "held")
                BY <1>2, <2>3, <3>2 DEF Success, TryLock, Back
            <4>2. ~Watched(job[a])
                BY <2>1, <3>2, <4>1, DroppedIsSwept
            <4> HIDE DEF Watched, Safe, PInv, Kept, Frame
            <4> QED  BY <2>1, <3>2, <4>1, <4>2, HandlerMoves
        <3> QED  BY <1>0, <3>1, <3>2
    <2> QED  BY <2>2, <2>3
<1>3. CASE Failed(a)
    <2>1. Frame /\ at[a] = "failed"
        BY <1>3 DEF Failed, TryLock, Frame
    <2>2. CASE token = None
        <3>1. at' = [at EXCEPT ![a] = "recycle_failed"]
            BY <1>3, <2>2 DEF Failed, TryLock
        <3>2. CASE a = App
            BY <2>1, <3>1, <3>2, AppMoves
        <3>3. CASE a \in Threads
            BY <2>1, <3>1, <3>3, HandlerMoves
        <3> QED  BY <1>0, <3>2, <3>3
    <2>3. CASE token # None
        <3>1. PICK to \in {"cancel", "close"} : at' = [at EXCEPT ![a] = to]
            BY <1>3, <2>3 DEF Failed, TryLock, AfterFailed
        <3>2. CASE a = App
            BY <2>1, <3>1, <3>2, AppMoves
        <3>3. CASE a \in Threads
            <4>1. Lose(job[a], "held")
                BY <1>3, <2>3 DEF Failed, TryLock
            <4>2. Kept(job[a])
                BY <2>1, <3>3, <4>1, DroppedIsSwept
            <4> HIDE DEF Kept, Safe, PInv, Watched, Frame
            <4> QED  BY <2>1, <3>1, <3>3, <4>2, HandlerMoves
        <3> QED  BY <1>0, <3>2, <3>3
    <2> QED  BY <2>2, <2>3
<1>4. CASE AddTcpSession(a)
    BY <1>0, <1>4 DEF AddTcpSession, SessionEnters, Lose
<1>5. CASE RecycleContext(a)
    <2> DEFINE c == job[a]
    <2>1. /\ c \in begun /\ at[a] \in {"recycle", "recycle_failed"}
          /\ context' = [context EXCEPT ![fd[c]] = None]
          /\ at' = [at EXCEPT ![a] = "unlock"] \/ at' = [at EXCEPT ![a] = "report"]
          /\ UNCHANGED <<begun, fd, thread, socket, linked, entered, work, job>>
        BY <1>5 DEF RecycleContext, Recycle
    <2>2. context[fd[c]] = c
        <3>1. CASE a = App
            BY <2>1, <3>1
        <3>2. CASE a \in Threads
            <4>1. token = a
                BY <2>1, <3>2 DEF TokenIsHeld, Locked
            <4>2. at[App] \notin {"sweep", "gone"}
                BY <3>2, <4>1 DEF TokenIsHeld, Locked
            <4> QED  BY <2>1, <3>2, <4>2
        <3> QED  BY <1>0, <3>1, <3>2
    <2>3. Kept(c)' /\ \A k \in begun : Kept(k) => Kept(k)'
        <3>1. PICK list \in {thread[c], "leak"} :
                  collected' = [collected EXCEPT ![list] = @ \cup ({c} \ {None})]
            <4>1. Put(a, thread[c], c)
                BY <1>5, <2>2 DEF RecycleContext, Recycle
            <4>2. PICK list \in {thread[c]} \cup (IF a # thread[c] /\ at[thread[c]] = "release"
                                                 THEN {"leak"} ELSE {}) :
                      collected' = [collected EXCEPT ![list] = @ \cup ({c} \ {None})]
                BY <4>1 DEF Put
            <4>3. list \in {thread[c], "leak"}
                OBVIOUS
            <4> QED  BY <4>2, <4>3
        <3> QED  BY <2>1, <3>1
    <2>4. \A k \in begun : k # c /\ Whole(k) => Whole(k)'
        BY <2>1, <2>2
    <2> HIDE DEF c
    <2>5. \A k \in begun : Swept(k) => Swept(k)'
        BY <2>1, <2>3
    <2>6. \A k \in begun : Watched(k) => Whole(k)' \/ Handled(thread[k], k)'
        BY <1>0, <2>1, <2>4 DEF Claims, Claim, c
    <2>7. \A t \in Threads : \A k \in begun : Fetched(t, k) => Whole(k)' \/ Swept(k)'
        BY <1>0, <2>1, <2>4, <2>5 DEF Claims, Claim, c
    <2>8. \A t \in Threads : at'[t] \in Early => Whole(job[t])' \/ Swept(job[t])'
        <3> SUFFICES ASSUME NEW t \in Threads, at'[t] \in Early
                     PROVE  Whole(job[t])' \/ Swept(job[t])'
            OBVIOUS
        <3>1. at[t] \in Early /\ t # a
            BY <1>0, <2>1
        <3>2. job[t] \in begun /\ job[t] # c
            BY <1>0, <2>1, <3>1 DEF Claims, Claim, c
        <3>3. Whole(job[t]) \/ Swept(job[t])
            BY <3>1
        <3>4. CASE Whole(job[t])
            <4> HIDE DEF Swept, Safe, PInv
            <4>1. socket'[fd'[job[t]]] = job[t] /\ context'[fd'[job[t]]] = job[t]
                BY <2>1, <2>4, <3>2, <3>4
            <4> QED  BY <2>1, <4>1
        <3>5. CASE Swept(job[t])
            BY <2>1, <2>5, <3>2, <3>5
        <3> QED  BY <3>3, <3>4, <3>5
    <2>9. \A t \in Threads : at'[t] \in Handling \ Early => Kept(job[t])'
        BY <1>0, <2>1, <2>3 DEF c
    <2>10. at'[App] \in Early \cup {"connect", "link", "unlinked"} =>
               context'[fd[job[App]]] = job[App]
        BY <1>0, <2>1, <2>2 DEF Claims, Claim, c
    <2>11. at'[App] \in {"insert", "connect", "link"} => socket[fd[job[App]]] = job[App]
        BY <1>0, <2>1
    <2>12. \A t \in Threads : \A k \in begun : Fetched(t, k)' => Fetched(t, k)
        BY <1>0, <2>1
    <2> QED  BY <2>1, <2>6, <2>7, <2>8, <2>9, <2>10, <2>11, <2>12
<1>6. CASE ReportFailed(a)
    <2>1. socket[fd[job[a]]] \in {job[a], None}
        BY <1>0, <1>6 DEF ReportFailed, CloseFd, Lose
    <2>2. /\ socket' = [socket EXCEPT ![fd[job[a]]] = None] /\ job[a] \in begun
          /\ linked' = linked \ {socket[fd[job[a]]]}
          /\ at[a] = "report" /\ at' = [at EXCEPT ![a] = "unlock_failed"]
          /\ UNCHANGED <<begun, fd, thread, context, entered, work, collected, job>>
        BY <1>0, <1>6 DEF ReportFailed, CloseFd
    <2>3. CASE a \in Threads
        BY <2>1, <2>2, <2>3 DEF Claims, Claim
    <2>4. CASE a = App
        BY <2>1, <2>2, <2>4 DEF Claims, Claim
    <2> QED  BY <1>0, <2>3, <2>4
<1>7. CASE Unlock(a)
    <2>1. CASE a = App
        BY SMTT(40), <1>7, <2>1 DEF Unlock, Back, AfterFailed
    <2>2. CASE a \in Threads
        <3>1. ~Watched(job[a])
            BY <1>7, <2>2, DoneIsUnwatched DEF Unlock
        <3> QED  BY <1>7, <2>2, <3>1 DEF Unlock, Back, AfterFailed
    <2> QED  BY <1>0, <2>1, <2>2
<1>8. CASE OnCloseCancels(a)
    BY <1>0, <1>8 DEF OnCloseCancels, CancelEvent, Lose
<1>9. CASE HandlerCloses(a)
    <2>1. socket[fd[job[a]]] \in {job[a], None}
        BY <1>0, <1>9 DEF HandlerCloses, CloseFd, Lose
    <2>2. /\ socket' = [socket EXCEPT ![fd[job[a]]] = None] /\ job[a] \in begun
          /\ linked' = linked \ {socket[fd[job[a]]]}
          /\ at[a] = "close" /\ at' = [at EXCEPT ![a] = Back(a)]
          /\ UNCHANGED <<begun, fd, thread, context, entered, work, collected, job>>
        BY <1>0, <1>9 DEF HandlerCloses, CloseFd
    <2>3. CASE a \in Threads
        <3>1. ~Watched(job[a])
            BY <2>2, <2>3, DoneIsUnwatched
        <3> QED  BY <2>1, <2>2, <2>3, <3>1 DEF Claims, Claim, Back
    <2>4. CASE a = App
        BY <2>1, <2>2, <2>4 DEF Claims, Claim, Back
    <2> QED  BY <1>0, <2>3, <2>4
<1> QED  BY <1>1, <1>2, <1>3, <1>4, <1>5, <1>6, <1>7, <1>8, <1>9 DEF HandlerStep

LEMMA LoopKeepsSafe ==
    ASSUME PInv, PInv', Claims, Clean, Clean', Safe, NEW t \in Threads, LoopStep(t)
    PROVE  Safe'
<1> USE AppIsNoThread DEF PInv, At, CTypeOK, Placed, call, sockets, Handling, Fresh, Done, Calling,
                          Apart, Looping, CallOrNone, Watched, Fetched, Handled, ByApp, Early,
                          Whole, Kept, Swept, Safe, Clean
<1>1. CASE EpollWait(t)
    BY <1>1 DEF EpollWait
<1>2. CASE SwapTasks(t)
    BY <1>2 DEF SwapTasks
<1>3. CASE TasksDone(t)
    BY <1>3 DEF TasksDone
<1>4. CASE ReleaseChannel(t)
    <2>1. /\ at[t] = "release" /\ at' = [at EXCEPT ![t] = "wait"]
          /\ collected' = [collected EXCEPT ![t] = {}] /\ t \in Actor
          /\ UNCHANGED <<begun, fd, thread, socket, context, linked, entered, work, job>>
        BY <1>4 DEF ReleaseChannel, Actor
    <2>2. \A c \in begun : Kept(c) /\ thread[c] # t => Kept(c)'
        BY <2>1
    <2>3. \A c \in begun : Whole(c)' = Whole(c) /\ Watched(c)' = Watched(c)
        BY <2>1
    <2>4. \A u \in Threads : at'[u] \in Handling => u # t /\ at'[u] = at[u]
        BY <2>1
    <2>5. \A u \in Threads : \A c \in begun : Fetched(u, c)' => u # t /\ Fetched(u, c)
        BY <2>1
    <2>6. at'[App] = at[App]
        BY <2>1
    <2>7. \A c \in begun : Watched(c) => Whole(c) \/ Handled(thread[c], c)'
        BY <2>1
    <2>8. \A u \in Threads : \A c \in begun : Fetched(u, c)' => Whole(c) \/ Swept(c)'
        BY <2>1, <2>2, <2>5, <2>6
    <2>9. \A u \in Threads : at'[u] \in Early => Whole(job[u]) \/ Swept(job[u])'
        BY <2>1, <2>2, <2>4, <2>6
    <2>10. \A u \in Threads : at'[u] \in Handling \ Early => Kept(job[u])'
        BY <2>1, <2>2, <2>4
    <2> QED  BY <2>1, <2>3, <2>6, <2>7, <2>8, <2>9, <2>10
<1>5. ASSUME NEW c \in Conns, Event(t, c)  PROVE Safe'
    BY <1>5 DEF Event
<1>6. ASSUME NEW c \in Conns, SessionCloses(t, c)  PROVE Safe'
    BY <1>6 DEF SessionCloses, CloseFd, Lose, Claims, Claim
<1>7. ASSUME NEW c \in Conns, Task(t, c)  PROVE Safe'
    BY <1>7 DEF Task, SessionEnters, Lose
<1> QED  BY <1>1, <1>2, <1>3, <1>4, <1>5, <1>6, <1>7 DEF LoopStep

-----------------------------------------------------------------------------
CInv == /\ PInv /\ Claims /\ Settled /\ TokenIsHeld /\ TokenHasHolder /\ Reasons
        /\ (Clean => Safe)

\* The inductive invariant of the connector.
THEOREM ConnectorInvariant == Spec => []CInv
<1>1. Init => CInv
    <2> SUFFICES ASSUME Init  PROVE CInv
        OBVIOUS
    <2> USE AppIsNoThread DEF Init, Handling, Fresh, Done, Calling, Apart, Looping, CallOrNone
    <2>1. CTypeOK
        BY DEF CTypeOK
    <2>2. Placed
        BY DEF Placed
    <2>3. Claims /\ Settled /\ TokenIsHeld
        BY DEF Claims, Settled, TokenIsHeld, Locked, Free
    <2>4. Safe
        BY DEF Safe, Fetched, Early
    <2>5. TokenHasHolder /\ Reasons
        BY DEF TokenHasHolder, Reasons
    <2> QED  BY <2>1, <2>2, <2>3, <2>4, <2>5 DEF CInv, PInv
<1>2. CInv /\ [Next]_vars => CInv'
    <2> SUFFICES ASSUME CInv, [Next]_vars  PROVE CInv'
        OBVIOUS
    <2> USE DEF CInv
    <2>1. CASE Next
        <3>1. TokenIsHeld'
            BY <2>1, AppKeepsToken, HandlerKeepsToken, LoopKeepsToken DEF Next
        <3>2. PInv'
            BY <2>1, AppKeepsPlaced, HandlerKeepsPlaced, LoopKeepsPlaced DEF Next
        <3>3. Claims'
            <4> SUFFICES ASSUME NEW t \in Threads, NEW c \in begun'  PROVE Claim(t, c)'
                BY DEF Claims
            <4> QED  BY <2>1, <3>2, AppKeepsClaims, HandlerKeepsClaims, LoopKeepsClaims DEF Next
        <3>4. Settled'
            BY <2>1, <3>2, AppKeepsSettled, HandlerKeepsSettled, LoopKeepsSettled DEF Next
        <3>5. ASSUME Clean'  PROVE Safe'
            <4>1. Clean
                BY <2>1, <3>5, LossIsForGood
            <4> QED  BY <2>1, <3>2, <3>5, <4>1, AppKeepsSafe, HandlerKeepsSafe, LoopKeepsSafe DEF
                Next
        <3>6. TokenHasHolder'
            BY <2>1, NextKeepsHolder
        <3>7. Reasons'
            BY <2>1, <3>2, AppKeepsReasons, HandlerKeepsReasons, LoopKeepsReasons DEF Next
        <3> QED  BY <3>1, <3>2, <3>3, <3>4, <3>5, <3>6, <3>7
    <2>2. CASE UNCHANGED vars
        <3> USE <2>2 DEF vars, call, sockets
        <3>1. PInv'
            BY DEF PInv, CTypeOK, Placed
        <3>2. Claims' /\ Settled'
            BY DEF Claims, Claim, Settled, Told, UnderWay, Watched, Fetched, Queued, Handled, ByApp
        <3>3. Clean' => Safe'
            BY DEF Clean, Safe, Whole, Kept, Swept, Watched, Fetched, Handled
        <3>4. TokenHasHolder' /\ Reasons'
            BY DEF TokenHasHolder, Reasons, Alone, Entering, Gone, Queued, Handled, ByApp
        <3> QED  BY <3>1, <3>2, <3>3, <3>4, StayKeepsToken
    <2> QED  BY <2>1, <2>2
<1> QED  BY <1>1, <1>2, PTL DEF Spec

\* enter_cb or failed_cb runs at most once for a call; a call without an answer
\* is under way, or was ended in one of the four ways of SilentlyEnded, two of
\* which take another call of the same connector.
THEOREM ResultsDelivered == Spec => []ResultsAreDelivered
<1>1. CInv => ResultsAreDelivered
    <2> SUFFICES ASSUME CInv, NEW c \in begun
                 PROVE  answers[c] <= 1 /\ (answers[c] = 0 => Pending(c) \/ SilentlyEnded(c))
        BY DEF ResultsAreDelivered
    <2>1. thread[c] \in Threads
        BY DEF CInv, PInv, Placed
    <2>2. answers[c] <= 1
        BY <2>1 DEF CInv, Claims, Claim
    <2>3. ASSUME UnderWay(c)  PROVE Pending(c)
        BY <2>1, <2>3, AppIsNoThread
           DEF UnderWay, Pending, ByApp, Handled, Busy, Handling, Fresh, Done, Calling
    <2>4. ASSUME lost[c] # "no"  PROVE SilentlyEnded(c)
        <3>1. lost[c] \in {"held", "closed", "unlinked", "destroyed"}
            BY <2>4 DEF CInv, PInv, CTypeOK
        <3> QED  BY <3>1 DEF CInv, Reasons, Alone, Gone, SilentlyEnded
    <2> QED  BY <2>2, <2>3, <2>4 DEF CInv, Settled, Told
<1> QED  BY <1>1, ConnectorInvariant, PTL

\* The raw pointers to a connect_context, in epoll and in a fetched event, are
\* valid in every run without a dropped result or a twice closed number.
THEOREM ContextsOutlive == Spec => []ContextOutlivesEvents
<1>1. CInv => ContextOutlivesEvents
    <2> SUFFICES ASSUME CInv, Clean
                 PROVE  /\ \A c \in linked \ entered : Alive(c)
                        /\ \A t \in Threads : /\ at[t] = "events" => \A c \in work[t] : Alive(c)
                                              /\ Busy(t) => Alive(job[t])
        BY DEF ContextOutlivesEvents, Clean
    <2> USE AppIsNoThread DEF CInv, PInv
    <2>1. ASSUME NEW c \in begun, Kept(c)  PROVE Alive(c)
        BY <2>1 DEF Kept, Alive, CTypeOK, Placed
    <2>2. ASSUME NEW c \in begun, Whole(c) \/ Swept(c)  PROVE Alive(c)
        BY <2>1, <2>2 DEF Whole, Swept, Alive, Placed
    <2>3. ASSUME NEW t \in Threads, Busy(t)  PROVE Alive(job[t])
        <3>1. at[t] \in Handling /\ job[t] \in begun
            BY <2>3 DEF Busy, CTypeOK, Placed, Handling, Fresh, Done, Calling, Apart, Looping
        <3> QED  BY <2>1, <2>2, <3>1 DEF Safe
    <2>4. ASSUME NEW c \in linked \ entered  PROVE Alive(c)
        <3>1. c \in begun /\ thread[c] \in Threads
            BY DEF CTypeOK, Placed
        <3>2. CASE Handled(thread[c], c)
            BY <2>3, <3>1, <3>2 DEF Handled, Busy, Handling, Fresh, Done
        <3> QED  BY <2>2, <3>1, <3>2 DEF Safe, Watched
    <2>5. ASSUME NEW t \in Threads, at[t] = "events", NEW c \in work[t]  PROVE Alive(c)
        <3>1. c \in begun /\ Fetched(t, c)
            BY <2>5 DEF Placed, Fetched
        <3> QED  BY <2>2, <3>1 DEF Safe
    <2> QED  BY <2>3, <2>4, <2>5
<1> QED  BY <1>1, ConnectorInvariant, PTL
=============================================================================

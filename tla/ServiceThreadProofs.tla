------------------------ MODULE ServiceThreadProofs ------------------------
(***************************************************************************)
(* Proofs about ServiceThread, for any set of threads, any kinds of task    *)
(* and any queue bound.                                                     *)
(***************************************************************************)
EXTENDS ServiceThread, TLAPS, SequenceTheorems

\* The inductive invariant of a pass: the types, and the lists' discipline.
PassInv == ThreadTypeOK /\ SwapsAreClean

-----------------------------------------------------------------------------

LEMMA PassInvInit == ThreadInit => PassInv
<1> SUFFICES ASSUME ThreadInit PROVE PassInv
    OBVIOUS
<1>1. ThreadTypeOK
    <2>1. /\ async_tasks \in Seq(Task) /\ tmp_async_tasks \in Seq(Task)
          /\ sync_tasks \in Seq(Task) /\ tmp_sync_tasks \in Seq(Task)
        BY EmptySeq DEF ThreadInit
    <2>2. started \in 0 .. Len(tmp_async_tasks) + Len(tmp_sync_tasks)
        BY EmptySeq DEF ThreadInit
    <2>3. post_pc \in [Threads -> {"idle", "exchange", "write"}]
        BY DEF ThreadInit
    <2>4. /\ loop \in LoopPhase
          /\ wakeup_flag \in BOOLEAN /\ eventfd \in BOOLEAN /\ is_run \in BOOLEAN
          /\ owner \in {"running", "joining", "joined"}
        BY DEF ThreadInit, LoopPhase
    <2> QED
        BY <2>1, <2>2, <2>3, <2>4 DEF ThreadTypeOK
<1>2. SwapsAreClean
    BY DEF ThreadInit, SwapsAreClean, AfterAsyncSwap, AfterSyncSwap
<1> QED
    BY <1>1, <1>2 DEF PassInv

LEMMA AppendMarked ==
    ASSUME NEW s \in Seq(Task), \A i \in DOMAIN s : s[i].late,
           NEW x \in Task, x.late
    PROVE  \A i \in DOMAIN Append(s, x) : Append(s, x)[i].late
<1>1. /\ DOMAIN Append(s, x) = 1 .. Len(s) + 1
      /\ \A i \in 1 .. Len(s) : Append(s, x)[i] = s[i]
      /\ Append(s, x)[Len(s) + 1] = x
    BY AppendProperties, LenProperties
<1>2. DOMAIN s = 1 .. Len(s) /\ Len(s) \in Nat
    BY LenProperties
<1> QED
    BY <1>1, <1>2

\* Posting appends to the caller's list; the mark of the new task is what
\* SwapsAreClean asks of it.
LEMMA PostKeepsPassInv ==
    ASSUME PassInv, NEW t \in Threads, NEW kind \in TaskKind, Post(t, kind)
    PROVE  PassInv'
<1> USE DEF PassInv
<1> DEFINE marked(phases) == [kind |-> kind, late |-> loop \in phases]
<1>1. marked(AfterAsyncSwap) \in Task /\ marked(AfterSyncSwap) \in Task
    BY DEF Task
<1>2. /\ async_tasks' \in Seq(Task) /\ sync_tasks' \in Seq(Task)
      /\ UNCHANGED <<loop, tmp_async_tasks, tmp_sync_tasks, started>>
    <2>1. async_tasks \in Seq(Task) /\ sync_tasks \in Seq(Task)
        BY DEF ThreadTypeOK
    <2>2. /\ Append(async_tasks, marked(AfterAsyncSwap)) \in Seq(Task)
          /\ Append(sync_tasks, marked(AfterSyncSwap)) \in Seq(Task)
        BY <1>1, <2>1, AppendProperties
    <2> QED
        BY <2>1, <2>2 DEF Post
<1>3. ThreadTypeOK'
    <2>1. post_pc' \in [Threads -> {"idle", "exchange", "write"}]
        BY DEF Post, ThreadTypeOK
    <2>2. UNCHANGED <<wakeup_flag, eventfd, is_run, owner>>
        BY DEF Post, ownerVars
    <2> QED
        BY <1>2, <2>1, <2>2 DEF ThreadTypeOK
<1>4. CASE t = Io
    <2>1. /\ sync_tasks' = Append(sync_tasks, marked(AfterSyncSwap))
          /\ UNCHANGED async_tasks
        BY <1>4 DEF Post
    <2>2. loop \in AfterSyncSwap => \A i \in DOMAIN sync_tasks' : sync_tasks'[i].late
        <3> SUFFICES ASSUME loop \in AfterSyncSwap
                     PROVE  \A i \in DOMAIN sync_tasks' : sync_tasks'[i].late
            OBVIOUS
        <3>1. sync_tasks \in Seq(Task) /\ \A i \in DOMAIN sync_tasks : sync_tasks[i].late
            BY DEF SwapsAreClean, ThreadTypeOK
        <3>2. marked(AfterSyncSwap).late
            OBVIOUS
        <3>3. \A i \in DOMAIN Append(sync_tasks, marked(AfterSyncSwap)) :
                  Append(sync_tasks, marked(AfterSyncSwap))[i].late
            BY ONLY <3>1, <3>2, <1>1, AppendMarked
        <3> QED
            BY <2>1, <3>3
    <2> QED
        BY <1>2, <1>3, <2>1, <2>2 DEF SwapsAreClean, AfterAsyncSwap, AfterSyncSwap
<1>5. CASE t # Io
    <2>1. /\ async_tasks' = Append(async_tasks, marked(AfterAsyncSwap))
          /\ UNCHANGED sync_tasks
        BY <1>5 DEF Post
    <2>2. loop \in AfterAsyncSwap => \A i \in DOMAIN async_tasks' : async_tasks'[i].late
        <3> SUFFICES ASSUME loop \in AfterAsyncSwap
                     PROVE  \A i \in DOMAIN async_tasks' : async_tasks'[i].late
            OBVIOUS
        <3>1. async_tasks \in Seq(Task) /\ \A i \in DOMAIN async_tasks : async_tasks[i].late
            BY DEF SwapsAreClean, ThreadTypeOK
        <3>2. marked(AfterAsyncSwap).late
            OBVIOUS
        <3>3. \A i \in DOMAIN Append(async_tasks, marked(AfterAsyncSwap)) :
                  Append(async_tasks, marked(AfterAsyncSwap))[i].late
            BY ONLY <3>1, <3>2, <1>1, AppendMarked
        <3> QED
            BY <2>1, <3>3
    <2> QED
        BY <1>2, <1>3, <2>1, <2>2 DEF SwapsAreClean, AfterAsyncSwap, AfterSyncSwap
<1> QED
    BY <1>4, <1>5

LEMMA LoopStepKeepsPassInv == PassInv /\ LoopStep => PassInv'
<1> SUFFICES ASSUME PassInv, LoopStep PROVE PassInv'
    OBVIOUS
<1> USE DEF PassInv, ThreadTypeOK, SwapsAreClean, LoopPhase, AfterAsyncSwap,
            AfterSyncSwap, IoAt, queueVars, wakeVars, ownerVars
<1>1. CASE CheckRun
    BY <1>1 DEF CheckRun
<1>2. CASE EpollReturn
    BY <1>2 DEF EpollReturn
<1>3. CASE EndEvents
    BY <1>3 DEF EndEvents
<1>4. CASE ClearWakeupFlag
    BY <1>4 DEF ClearWakeupFlag
<1>5. CASE SwapAsync
    BY <1>5 DEF SwapAsync
<1>6. CASE BeginAsync
    BY <1>6 DEF BeginAsync
<1>7. CASE ClearAsync
    BY <1>7 DEF ClearAsync
<1>8. CASE SwapSync
    BY <1>8 DEF SwapSync
<1>9. CASE BeginSync
    BY <1>9 DEF BeginSync
<1>10. CASE ClearSync
    BY <1>10 DEF ClearSync
<1>11. CASE EndTask
    BY <1>11 DEF EndTask
<1>12. CASE ReleaseChannel
    BY <1>12 DEF ReleaseChannel
<1> QED
    BY <1>1, <1>2, <1>3, <1>4, <1>5, <1>6, <1>7, <1>8, <1>9, <1>10, <1>11, <1>12
    DEF LoopStep

LEMMA WakeupKeepsPassInv ==
    ASSUME PassInv, NEW t \in Threads, Wakeup(t)
    PROVE  PassInv'
<1> QED
    BY DEF Wakeup, ExchangeFlag, WriteEventfd, PassInv, ThreadTypeOK,
           SwapsAreClean, queueVars, ownerVars, WakeupBytes, EventfdBytes

LEMMA PassInvStep == PassInv /\ [ThreadNext]_threadVars => PassInv'
<1> SUFFICES ASSUME PassInv, [ThreadNext]_threadVars PROVE PassInv'
    OBVIOUS
<1>1. CASE LoopStep
    BY <1>1, LoopStepKeepsPassInv
<1>2. ASSUME NEW t \in Threads, EnvPost(t) PROVE PassInv'
    BY <1>2, PostKeepsPassInv DEF EnvPost
<1>3. ASSUME NEW t \in Threads, Wakeup(t) PROVE PassInv'
    BY <1>3, WakeupKeepsPassInv
<1>4. CASE Stop \/ Join
    BY <1>4 DEF Stop, Join, PassInv, ThreadTypeOK, SwapsAreClean, queueVars, wakeVars
<1>5. CASE UNCHANGED threadVars
    BY <1>5 DEF threadVars, queueVars, wakeVars, ownerVars, PassInv, ThreadTypeOK,
                SwapsAreClean
<1> QED
    BY <1>1, <1>2, <1>3, <1>4, <1>5 DEF ThreadNext

LEMMA PassInvHolds == ThreadSafety => []PassInv
<1> QED
    BY PassInvInit, PassInvStep, PTL DEF ThreadSafety

\* The types hold, and no pass runs beyond its task list.
THEOREM ThreadTypeCorrect == ThreadSafety => []ThreadTypeOK
<1>1. PassInv => ThreadTypeOK
    BY DEF PassInv
<1> QED
    BY <1>1, PassInvHolds, PTL

\* The swaps of task_executor::run are clean in every execution.
THEOREM SwapsClean == ThreadSafety => []SwapsAreClean
<1>1. PassInv => SwapsAreClean
    BY DEF PassInv
<1> QED
    BY <1>1, PassInvHolds, PTL

-----------------------------------------------------------------------------
(* The executor implements the two mailboxes.                                *)

\* Facts about the part of a list behind a position.
LEMMA NothingLeft ==
    ASSUME NEW s \in Seq(Task), NEW l \in Seq(Task), NEW n \in Nat, n >= Len(s)
    PROVE  SubSeq(s, n + 1, Len(s)) \o l = l
<1>1. Len(s) \in Nat
    BY LenProperties
<1>2. SubSeq(s, n + 1, Len(s)) = <<>>
    BY <1>1, SubSeqEmpty
<1> QED
    BY <1>2, ConcatEmptySeq

LEMMA AllLeft ==
    ASSUME NEW s \in Seq(Task)
    PROVE  SubSeq(s, 0 + 1, Len(s)) \o <<>> = s
<1>1. SubSeq(s, 0 + 1, Len(s)) = s
    BY SubSeqFull
<1> QED
    BY <1>1, ConcatEmptySeq

LEMMA RestIsSeq ==
    ASSUME NEW s \in Seq(Task), NEW n \in Nat
    PROVE  SubSeq(s, n + 1, Len(s)) \in Seq(Task)
<1>1. Len(s) \in Nat /\ DOMAIN s = 1 .. Len(s)
    BY LenProperties
<1>2. \A i \in n + 1 .. Len(s) : s[i] \in Task
    BY <1>1, ElementOfSeq
<1> QED
    BY <1>1, <1>2, SubSeqProperties

LEMMA TailOfConcat ==
    ASSUME NEW S, NEW s \in Seq(S), NEW l \in Seq(S), s # <<>>
    PROVE  /\ s \o l # <<>>
           /\ Head(s \o l) = Head(s) /\ Tail(s \o l) = Tail(s) \o l
<1>1. Len(s) \in Nat /\ Len(s) # 0 /\ Len(l) \in Nat
    BY LenProperties, EmptySeq
<1>2. /\ s \o l \in Seq(S) /\ Len(s \o l) = Len(s) + Len(l)
      /\ \A i \in 1 .. Len(s) + Len(l) :
             (s \o l)[i] = IF i <= Len(s) THEN s[i] ELSE l[i - Len(s)]
    BY ConcatProperties
<1>3. s \o l # <<>>
    BY ConcatEqualIffEmpty
<1>4. /\ Tail(s) \in Seq(S) /\ Len(Tail(s)) = Len(s) - 1
      /\ \A i \in 1 .. Len(s) - 1 : Tail(s)[i] = s[i + 1]
    BY HeadTailProperties
<1>5. /\ Tail(s \o l) \in Seq(S) /\ Len(Tail(s \o l)) = Len(s) + Len(l) - 1
      /\ \A i \in 1 .. Len(s) + Len(l) - 1 : Tail(s \o l)[i] = (s \o l)[i + 1]
    BY <1>2, <1>3, HeadTailProperties
<1>6. /\ Tail(s) \o l \in Seq(S) /\ Len(Tail(s) \o l) = Len(s) - 1 + Len(l)
      /\ \A i \in 1 .. Len(s) - 1 + Len(l) :
             (Tail(s) \o l)[i] = IF i <= Len(s) - 1 THEN Tail(s)[i] ELSE l[i - (Len(s) - 1)]
    BY <1>4, ConcatProperties
<1>7. ASSUME NEW i \in 1 .. Len(s) + Len(l) - 1
      PROVE  Tail(s \o l)[i] = (Tail(s) \o l)[i]
    <2>1. /\ i + 1 \in 1 .. Len(s) + Len(l)
          /\ i <= Len(s) - 1 <=> i + 1 <= Len(s)
          /\ i + 1 - Len(s) = i - (Len(s) - 1)
        BY <1>1
    <2>2. (s \o l)[i + 1] = IF i + 1 <= Len(s) THEN s[i + 1] ELSE l[i + 1 - Len(s)]
        BY <1>2, <2>1
    <2>3. (Tail(s) \o l)[i] = IF i <= Len(s) - 1 THEN Tail(s)[i] ELSE l[i - (Len(s) - 1)]
        BY <1>1, <1>6
    <2>4. i <= Len(s) - 1 => Tail(s)[i] = s[i + 1]
        BY <1>1, <1>4
    <2> QED
        BY <1>5, <2>1, <2>2, <2>3, <2>4
<1>8. Len(Tail(s \o l)) = Len(Tail(s) \o l)
    BY <1>1, <1>5, <1>6
<1>9. Tail(s \o l) = Tail(s) \o l
    BY <1>5, <1>6, <1>7, <1>8, SeqEqual
<1>10. Head(s \o l) = Head(s)
    BY <1>1, <1>2
<1> QED
    BY <1>3, <1>9, <1>10

\* Beginning the next task takes the head.
LEMMA BeginTakesHead ==
    ASSUME NEW s \in Seq(Task), NEW l \in Seq(Task), NEW n \in Nat, n < Len(s)
    PROVE  /\ SubSeq(s, n + 1, Len(s)) \o l # <<>>
           /\ SubSeq(s, (n + 1) + 1, Len(s)) \o l = Tail(SubSeq(s, n + 1, Len(s)) \o l)
<1> DEFINE rest == SubSeq(s, n + 1, Len(s))
<1>1. Len(s) \in Nat /\ n + 1 \in 1 .. Len(s) /\ Len(s) \in n + 1 .. Len(s)
    BY LenProperties
<1>2. Tail(rest) = SubSeq(s, (n + 1) + 1, Len(s))
    BY <1>1, HeadTailOfSubSeq
<1>3. rest \in Seq(Task)
    BY RestIsSeq
<1>4. Len(rest) = Len(s) - (n + 1) + 1
    BY <1>1, SubSeqProperties, ElementOfSeq, LenProperties
<1> HIDE DEF rest
<1>5. rest # <<>>
    <2>1. Len(rest) # 0
        BY <1>1, <1>4
    <2> QED
        BY <2>1, EmptySeq
<1>6. rest \o l # <<>> /\ Tail(rest \o l) = Tail(rest) \o l
    BY <1>3, <1>5, TailOfConcat
<1> QED
    BY <1>2, <1>6 DEF rest

\* A posted task goes behind everything that has not begun.
LEMMA PostGoesLast ==
    ASSUME NEW S, NEW s \in Seq(S), NEW l \in Seq(S), NEW x \in S
    PROVE  s \o Append(l, x) = Append(s \o l, x)
<1>1. Append(l, x) = l \o <<x>> /\ Append(s \o l, x) = (s \o l) \o <<x>>
    BY AppendIsConcat, ConcatProperties
<1>2. <<x>> \in Seq(S)
    OBVIOUS
<1> QED
    BY <1>1, <1>2, ConcatAssociative

LEMMA MailInitially == ThreadInit => Mail!MailInit
<1> SUFFICES ASSUME ThreadInit PROVE Mail!MailInit
    OBVIOUS
<1>1. SubSeq(<<>>, 0 + 1, Len(<<>>)) \o <<>> = <<>>
    BY EmptySeq, AllLeft
<1> QED
    BY <1>1 DEF ThreadInit, NotBegun, Mail!MailInit

\* Both mailboxes and the flag: what a step of the loop leaves alone, or takes.
LEMMA LoopStepMail ==
    ASSUME PassInv, LoopStep
    PROVE  \/ UNCHANGED Mail!mailVars
           \/ Mail!Take(NotBegun(tmp_async_tasks, async_tasks), NotBegun(tmp_sync_tasks, sync_tasks))
           \/ Mail!Take(NotBegun(tmp_sync_tasks, sync_tasks), NotBegun(tmp_async_tasks, async_tasks))
<1>1. /\ async_tasks \in Seq(Task) /\ tmp_async_tasks \in Seq(Task)
      /\ sync_tasks \in Seq(Task) /\ tmp_sync_tasks \in Seq(Task)
      /\ started \in Nat /\ <<>> \in Seq(Task)
    BY EmptySeq, LenProperties DEF PassInv, ThreadTypeOK
<1>2. /\ loop \notin {"async", "in_async"} => tmp_async_tasks = <<>>
      /\ loop \notin {"sync", "in_sync"} => tmp_sync_tasks = <<>>
      /\ loop \notin {"async", "in_async", "sync", "in_sync"} => started = 0
    BY DEF PassInv, SwapsAreClean
<1>3. \A n \in Nat, l \in Seq(Task) : SubSeq(<<>>, n + 1, Len(<<>>)) \o l = l
    BY <1>1, NothingLeft, EmptySeq
<1>4. \A s \in Seq(Task) : SubSeq(s, 0 + 1, Len(s)) \o <<>> = s
    BY AllLeft
<1>5. \A s, l \in Seq(Task) : SubSeq(s, Len(s) + 1, Len(s)) \o l = l
    BY NothingLeft, LenProperties
<1>6. UNCHANGED is_run
    BY DEF LoopStep, CheckRun, EpollReturn, EndEvents, ClearWakeupFlag, SwapAsync,
           BeginAsync, ClearAsync, SwapSync, BeginSync, ClearSync, EndTask,
           ReleaseChannel, ownerVars
<1>7. CASE CheckRun \/ EpollReturn \/ EndEvents \/ ClearWakeupFlag \/ EndTask \/ ReleaseChannel
    <2>1. UNCHANGED queueVars
        BY <1>7 DEF CheckRun, EpollReturn, EndEvents, ClearWakeupFlag, EndTask, ReleaseChannel
    <2> QED
        BY <1>6, <2>1 DEF queueVars, NotBegun, Mail!mailVars
<1>8. CASE SwapAsync
    <2>1. /\ tmp_async_tasks = <<>> /\ tmp_sync_tasks = <<>> /\ started = 0
          /\ tmp_async_tasks' = async_tasks /\ async_tasks' = <<>>
          /\ UNCHANGED <<sync_tasks, tmp_sync_tasks, started>>
        BY <1>2, <1>8 DEF SwapAsync, IoAt
    <2> QED
        BY <1>1, <1>3, <1>4, <1>6, <2>1 DEF NotBegun, Mail!mailVars
<1>9. CASE SwapSync
    <2>1. /\ tmp_async_tasks = <<>> /\ tmp_sync_tasks = <<>> /\ started = 0
          /\ tmp_sync_tasks' = sync_tasks /\ sync_tasks' = <<>>
          /\ UNCHANGED <<async_tasks, tmp_async_tasks, started>>
        BY <1>2, <1>9 DEF SwapSync, IoAt
    <2> QED
        BY <1>1, <1>3, <1>4, <1>6, <2>1 DEF NotBegun, Mail!mailVars
<1>10. CASE ClearAsync
    <2>1. /\ tmp_sync_tasks = <<>> /\ started = Len(tmp_async_tasks)
          /\ tmp_async_tasks' = <<>> /\ started' = 0
          /\ UNCHANGED <<async_tasks, sync_tasks, tmp_sync_tasks>>
        BY <1>2, <1>10 DEF ClearAsync, IoAt
    <2> QED
        BY <1>1, <1>3, <1>5, <1>6, <2>1 DEF NotBegun, Mail!mailVars
<1>11. CASE ClearSync
    <2>1. /\ tmp_async_tasks = <<>> /\ started = Len(tmp_sync_tasks)
          /\ tmp_sync_tasks' = <<>> /\ started' = 0
          /\ UNCHANGED <<async_tasks, tmp_async_tasks, sync_tasks>>
        BY <1>2, <1>11 DEF ClearSync, IoAt
    <2> QED
        BY <1>1, <1>3, <1>5, <1>6, <2>1 DEF NotBegun, Mail!mailVars
<1>12. CASE BeginAsync
    <2>1. /\ tmp_sync_tasks = <<>> /\ started < Len(tmp_async_tasks) /\ started' = started + 1
          /\ UNCHANGED <<async_tasks, tmp_async_tasks, sync_tasks, tmp_sync_tasks>>
        BY <1>2, <1>12 DEF BeginAsync, IoAt
    <2>2. UNCHANGED NotBegun(tmp_sync_tasks, sync_tasks)
        BY <1>1, <1>3, <2>1 DEF NotBegun
    <2>3. /\ NotBegun(tmp_async_tasks, async_tasks) # <<>>
          /\ NotBegun(tmp_async_tasks, async_tasks)' = Tail(NotBegun(tmp_async_tasks, async_tasks))
        BY <1>1, <2>1, BeginTakesHead DEF NotBegun
    <2> QED
        BY <1>6, <2>2, <2>3 DEF Mail!Take
<1>13. CASE BeginSync
    <2>1. /\ tmp_async_tasks = <<>> /\ started < Len(tmp_sync_tasks) /\ started' = started + 1
          /\ UNCHANGED <<async_tasks, tmp_async_tasks, sync_tasks, tmp_sync_tasks>>
        BY <1>2, <1>13 DEF BeginSync, IoAt
    <2>2. UNCHANGED NotBegun(tmp_async_tasks, async_tasks)
        BY <1>1, <1>3, <2>1 DEF NotBegun
    <2>3. /\ NotBegun(tmp_sync_tasks, sync_tasks) # <<>>
          /\ NotBegun(tmp_sync_tasks, sync_tasks)' = Tail(NotBegun(tmp_sync_tasks, sync_tasks))
        BY <1>1, <2>1, BeginTakesHead DEF NotBegun
    <2> QED
        BY <1>6, <2>2, <2>3 DEF Mail!Take
<1> QED
    BY <1>7, <1>8, <1>9, <1>10, <1>11, <1>12, <1>13 DEF LoopStep

LEMMA PostMail ==
    ASSUME PassInv, NEW t \in Threads, NEW kind \in TaskKind, Post(t, kind)
    PROVE  Mail!MailNext
<1>1. /\ async_tasks \in Seq(Task) /\ sync_tasks \in Seq(Task)
      /\ tmp_async_tasks \in Seq(Task) /\ tmp_sync_tasks \in Seq(Task) /\ started \in Nat
    BY LenProperties DEF PassInv, ThreadTypeOK
<1>2. UNCHANGED <<tmp_async_tasks, tmp_sync_tasks, started, is_run>>
    BY DEF Post, ownerVars
<1>3. ASSUME NEW s \in Seq(Task), NEW l \in Seq(Task), NEW x \in Task
      PROVE  SubSeq(s, started + 1, Len(s)) \o Append(l, x)
             = Append(SubSeq(s, started + 1, Len(s)) \o l, x)
    <2>1. SubSeq(s, started + 1, Len(s)) \in Seq(Task)
        BY <1>1, RestIsSeq
    <2>2. \A r \in Seq(Task) : r \o Append(l, x) = Append(r \o l, x)
        BY PostGoesLast
    <2> QED
        BY <2>1, <2>2
<1>4. CASE t = Io
    <2> DEFINE x == [kind |-> kind, late |-> loop \in AfterSyncSwap]
    <2>1. x \in Task
        BY DEF Task
    <2>2. sync_tasks' = Append(sync_tasks, x) /\ UNCHANGED async_tasks
        BY <1>4 DEF Post
    <2> HIDE DEF x
    <2>3. NotBegun(tmp_sync_tasks, sync_tasks)' = Append(NotBegun(tmp_sync_tasks, sync_tasks), x)
        BY <1>1, <1>2, <1>3, <2>1, <2>2 DEF NotBegun
    <2>4. UNCHANGED NotBegun(tmp_async_tasks, async_tasks)
        BY <1>2, <2>2 DEF NotBegun
    <2> QED
        BY <1>2, <2>1, <2>3, <2>4 DEF Mail!MailNext, Mail!Put
<1>5. CASE t # Io
    <2> DEFINE x == [kind |-> kind, late |-> loop \in AfterAsyncSwap]
    <2>1. x \in Task
        BY DEF Task
    <2>2. async_tasks' = Append(async_tasks, x) /\ UNCHANGED sync_tasks
        BY <1>5 DEF Post
    <2> HIDE DEF x
    <2>3. NotBegun(tmp_async_tasks, async_tasks)' = Append(NotBegun(tmp_async_tasks, async_tasks), x)
        BY <1>1, <1>2, <1>3, <2>1, <2>2 DEF NotBegun
    <2>4. UNCHANGED NotBegun(tmp_sync_tasks, sync_tasks)
        BY <1>2, <2>2 DEF NotBegun
    <2> QED
        BY <1>2, <2>1, <2>3, <2>4 DEF Mail!MailNext, Mail!Put
<1> QED
    BY <1>4, <1>5

LEMMA MailStep == PassInv /\ [ThreadNext]_threadVars => [Mail!MailNext]_(Mail!mailVars)
<1> SUFFICES ASSUME PassInv, [ThreadNext]_threadVars
             PROVE  Mail!MailNext \/ UNCHANGED Mail!mailVars
    OBVIOUS
<1>1. CASE LoopStep
    BY <1>1, LoopStepMail DEF Mail!MailNext
<1>2. ASSUME NEW t \in Threads, EnvPost(t) PROVE Mail!MailNext
    BY <1>2, PostMail DEF EnvPost
<1>3. ASSUME NEW t \in Threads, Wakeup(t) PROVE UNCHANGED Mail!mailVars
    BY <1>3 DEF Wakeup, ExchangeFlag, WriteEventfd, queueVars, ownerVars, NotBegun, Mail!mailVars
<1>4. CASE Stop
    <2>1. UNCHANGED <<NotBegun(tmp_async_tasks, async_tasks), NotBegun(tmp_sync_tasks, sync_tasks)>>
        BY <1>4 DEF Stop, queueVars, NotBegun
    <2>2. is_run' = FALSE /\ is_run \in BOOLEAN
        BY <1>4 DEF Stop, PassInv, ThreadTypeOK
    <2> QED
        BY <2>1, <2>2 DEF Mail!MailNext, Mail!Close, Mail!mailVars
<1>5. CASE Join \/ UNCHANGED threadVars
    BY <1>5 DEF Join, threadVars, queueVars, ownerVars, NotBegun, Mail!mailVars
<1> QED
    BY <1>1, <1>2, <1>3, <1>4, <1>5 DEF ThreadNext

\* task_executor implements the two mailboxes: every task posted to a running
\* thread is begun once at most, in the order of its class.
THEOREM ExecutorIsMailbox == ThreadSafety => ImplementsMailbox
<1> QED
    BY MailInitially, MailStep, PassInvHolds, PTL DEF ThreadSafety, ImplementsMailbox, Mail!MailSafety
=============================================================================

--------------------------- MODULE AcceptorProofs ---------------------------
(***************************************************************************)
(* Acceptor for any number of descriptors, clients and other threads.      *)
(***************************************************************************)
EXTENDS Acceptor, TLAPS

Owners == {"made", "run", "link", "started", "join", "destroy", "join_last", "stopped",
           "drop", "gone", "fault"}
Places == {"none", "test", "wait", "accept", "again", "refuse", "reopen", "tasks", "exit"}
TypesOK ==
    /\ acceptor \in Owners /\ listen_at \in Places
    /\ idle_fd \in BOOLEAN /\ accept_fd \in BOOLEAN /\ taken \in BOOLEAN /\ missed \in BOOLEAN
    /\ in_use \in Nat /\ foreign \in Nat /\ sessions \in Nat

\* The thread lives between its start and its join, and meanwhile its owner
\* keeps the channel.
ThreadIsOwned ==
    /\ listen_at # "none" =>
           acceptor \in {"link", "started", "join", "destroy", "join_last"} /\ run_listen # "null"
    /\ acceptor \in Owners \ {"made", "drop", "gone", "fault"} => "acceptor" \in channel

\* Until idle_fd_ is back, the descriptor given up for it is free or with the
\* connection that is refused.
IdleInReserve ==
    /\ accept_fd => listen_at = "refuse"
    /\ acceptor = "made" => ~idle_fd /\ ~missed
    /\ listen_at \in {"again", "refuse", "reopen"} => ~idle_fd
    /\ ~taken => /\ ~missed
                 /\ acceptor = "run" \/ listen_at \in {"test", "wait", "accept", "tasks"} => idle_fd
                 /\ listen_at \in {"again", "reopen"} => Free > 0
                 /\ listen_at = "refuse" => accept_fd

Accounted ==
    /\ in_use = foreign + sessions + Fds(acceptor \notin {"made", "fault"})
                + Fds(idle_fd) + Fds(accept_fd)
    /\ in_use <= Limit

IInv == TypesOK /\ ThreadIsOwned /\ IdleInReserve /\ Accounted

-----------------------------------------------------------------------------
\* The shorthands of the actions.
USE DEF Owner, Listens, Others, acceptorVars, clientVars, idleVars

LEMMA FdsAreNat == ASSUME NEW has  PROVE Fds(has) \in Nat
BY DEF Fds

\* The account bounds what the subtractions leave.
LEMMA InUseIsNat ==
    ASSUME Accounted', foreign' \in Nat, sessions' \in Nat
    PROVE  in_use' \in Nat
<1>1. /\ Fds(acceptor' \notin {"made", "fault"}) \in Nat
      /\ Fds(idle_fd') \in Nat /\ Fds(accept_fd') \in Nat
    BY FdsAreNat
<1> QED  BY <1>1 DEF Accounted

OwnerStep ==
    \/ StartListen \/ RunListenThread \/ StartAccept \/ StopListening \/ Destroy
    \/ DestroyStops \/ JoinListenThread \/ DestroyUnstarted \/ DestroyStopped \/ DropChannel
OtherStep == ClientConnects \/ AcceptedCloses \/ ForeignOpens \/ ForeignCloses

LEMMA OwnerKeepsIInv ==
    ASSUME IInv, OwnerStep
    PROVE  IInv'
<1>1. CASE StartListen
  <2>1. ThreadIsOwned'
    BY <1>1 DEF IInv, TypesOK, ThreadIsOwned, StartListen
  <2>2. IdleInReserve'
    BY <1>1 DEF IInv, ThreadIsOwned, IdleInReserve, StartListen
  <2>3. Accounted'
    BY <1>1, AcceptorAssumption
       DEF IInv, TypesOK, ThreadIsOwned, IdleInReserve, Accounted, Fds, Free, StartListen
  <2>4. TypesOK'
    <3>1. in_use' \in Nat
      BY <1>1, <2>3, InUseIsNat DEF IInv, TypesOK, StartListen
    <3> QED  BY <1>1, <3>1, AcceptorAssumption
          DEF IInv, TypesOK, Owners, Places, Free, StartListen
  <2> QED  BY <2>1, <2>2, <2>3, <2>4 DEF IInv
<1>2. CASE RunListenThread
  <2>1. ThreadIsOwned'
    BY <1>2 DEF IInv, TypesOK, ThreadIsOwned, RunListenThread
  <2>2. IdleInReserve'
    BY <1>2, AcceptorAssumption
       DEF IInv, TypesOK, ThreadIsOwned, IdleInReserve, Free, RunListenThread
  <2>3. Accounted'
    BY <1>2, AcceptorAssumption
       DEF IInv, TypesOK, ThreadIsOwned, IdleInReserve, Accounted, Fds, Free, RunListenThread
  <2>4. TypesOK'
    <3>1. in_use' \in Nat
      BY <1>2, <2>3, InUseIsNat DEF IInv, TypesOK, RunListenThread
    <3> QED  BY <1>2, <3>1, AcceptorAssumption
          DEF IInv, TypesOK, Owners, Places, Free, RunListenThread
  <2> QED  BY <2>1, <2>2, <2>3, <2>4 DEF IInv
<1>3. CASE StartAccept
  <2>1. ThreadIsOwned'
    BY <1>3 DEF IInv, TypesOK, ThreadIsOwned, StartAccept
  <2>2. IdleInReserve'
    BY <1>3, AcceptorAssumption
       DEF IInv, TypesOK, ThreadIsOwned, IdleInReserve, Free, StartAccept
  <2>3. Accounted'
    BY <1>3, AcceptorAssumption
       DEF IInv, TypesOK, ThreadIsOwned, IdleInReserve, Accounted, Fds, Free, StartAccept
  <2>4. TypesOK'
    <3>1. in_use' \in Nat
      BY <1>3, <2>3, InUseIsNat DEF IInv, TypesOK, StartAccept
    <3> QED  BY <1>3, <3>1, AcceptorAssumption
          DEF IInv, TypesOK, Owners, Places, Free, StartAccept
  <2> QED  BY <2>1, <2>2, <2>3, <2>4 DEF IInv
<1>4. CASE StopListening
  <2>1. ThreadIsOwned'
    BY <1>4 DEF IInv, TypesOK, ThreadIsOwned, StopListening
  <2>2. IdleInReserve'
    BY <1>4, AcceptorAssumption
       DEF IInv, TypesOK, ThreadIsOwned, IdleInReserve, Free, StopListening
  <2>3. Accounted'
    BY <1>4, AcceptorAssumption
       DEF IInv, TypesOK, ThreadIsOwned, IdleInReserve, Accounted, Fds, Free, StopListening
  <2>4. TypesOK'
    <3>1. in_use' \in Nat
      BY <1>4, <2>3, InUseIsNat DEF IInv, TypesOK, StopListening
    <3> QED  BY <1>4, <3>1, AcceptorAssumption
          DEF IInv, TypesOK, Owners, Places, Free, StopListening
  <2> QED  BY <2>1, <2>2, <2>3, <2>4 DEF IInv
<1>5. CASE Destroy
  <2>1. ThreadIsOwned'
    BY <1>5 DEF IInv, TypesOK, ThreadIsOwned, Destroy
  <2>2. IdleInReserve'
    BY <1>5, AcceptorAssumption DEF IInv, TypesOK, ThreadIsOwned, IdleInReserve, Free, Destroy
  <2>3. Accounted'
    BY <1>5, AcceptorAssumption
       DEF IInv, TypesOK, ThreadIsOwned, IdleInReserve, Accounted, Fds, Free, Destroy
  <2>4. TypesOK'
    <3>1. in_use' \in Nat
      BY <1>5, <2>3, InUseIsNat DEF IInv, TypesOK, Destroy
    <3> QED  BY <1>5, <3>1, AcceptorAssumption DEF IInv, TypesOK, Owners, Places, Free, Destroy
  <2> QED  BY <2>1, <2>2, <2>3, <2>4 DEF IInv
<1>6. CASE DestroyStops
  <2>1. ThreadIsOwned'
    BY <1>6 DEF IInv, TypesOK, ThreadIsOwned, DestroyStops
  <2>2. IdleInReserve'
    BY <1>6, AcceptorAssumption
       DEF IInv, TypesOK, ThreadIsOwned, IdleInReserve, Free, DestroyStops
  <2>3. Accounted'
    BY <1>6, AcceptorAssumption
       DEF IInv, TypesOK, ThreadIsOwned, IdleInReserve, Accounted, Fds, Free, DestroyStops
  <2>4. TypesOK'
    <3>1. in_use' \in Nat
      BY <1>6, <2>3, InUseIsNat DEF IInv, TypesOK, DestroyStops
    <3> QED  BY <1>6, <3>1, AcceptorAssumption
          DEF IInv, TypesOK, Owners, Places, Free, DestroyStops
  <2> QED  BY <2>1, <2>2, <2>3, <2>4 DEF IInv
<1>7. CASE JoinListenThread
  <2>1. ThreadIsOwned'
    BY <1>7 DEF IInv, TypesOK, ThreadIsOwned, JoinListenThread
  <2>2. IdleInReserve'
    BY <1>7, AcceptorAssumption
       DEF IInv, TypesOK, ThreadIsOwned, IdleInReserve, Free, JoinListenThread
  <2>3. Accounted'
    BY <1>7, AcceptorAssumption
       DEF IInv, TypesOK, ThreadIsOwned, IdleInReserve, Accounted, Fds, Free, JoinListenThread
  <2>4. TypesOK'
    <3>1. in_use' \in Nat
      BY <1>7, <2>3, InUseIsNat DEF IInv, TypesOK, JoinListenThread
    <3> QED  BY <1>7, <3>1, AcceptorAssumption
          DEF IInv, TypesOK, Owners, Places, Free, JoinListenThread
  <2> QED  BY <2>1, <2>2, <2>3, <2>4 DEF IInv
<1>8. CASE DestroyUnstarted
  <2>1. ThreadIsOwned'
    BY <1>8 DEF IInv, TypesOK, ThreadIsOwned, DestroyUnstarted
  <2>2. IdleInReserve'
    BY <1>8, AcceptorAssumption
       DEF IInv, TypesOK, ThreadIsOwned, IdleInReserve, Free, DestroyUnstarted
  <2>3. Accounted'
    BY <1>8, AcceptorAssumption
       DEF IInv, TypesOK, ThreadIsOwned, IdleInReserve, Accounted, Fds, Free, DestroyUnstarted
  <2>4. TypesOK'
    <3>1. in_use' \in Nat
      BY <1>8, <2>3, InUseIsNat DEF IInv, TypesOK, DestroyUnstarted
    <3> QED  BY <1>8, <3>1, AcceptorAssumption
          DEF IInv, TypesOK, Owners, Places, Free, DestroyUnstarted
  <2> QED  BY <2>1, <2>2, <2>3, <2>4 DEF IInv
<1>9. CASE DestroyStopped
  <2>1. ThreadIsOwned'
    BY <1>9 DEF IInv, TypesOK, ThreadIsOwned, DestroyStopped
  <2>2. IdleInReserve'
    BY <1>9, AcceptorAssumption
       DEF IInv, TypesOK, ThreadIsOwned, IdleInReserve, Free, DestroyStopped
  <2>3. Accounted'
    BY <1>9, AcceptorAssumption
       DEF IInv, TypesOK, ThreadIsOwned, IdleInReserve, Accounted, Fds, Free, DestroyStopped
  <2>4. TypesOK'
    <3>1. in_use' \in Nat
      BY <1>9, <2>3, InUseIsNat DEF IInv, TypesOK, DestroyStopped
    <3> QED  BY <1>9, <3>1, AcceptorAssumption
          DEF IInv, TypesOK, Owners, Places, Free, DestroyStopped
  <2> QED  BY <2>1, <2>2, <2>3, <2>4 DEF IInv
<1>10. CASE DropChannel
  <2>1. ThreadIsOwned'
    BY <1>10 DEF IInv, TypesOK, ThreadIsOwned, DropChannel
  <2>2. IdleInReserve'
    BY <1>10, AcceptorAssumption
       DEF IInv, TypesOK, ThreadIsOwned, IdleInReserve, Free, DropChannel
  <2>3. Accounted'
    BY <1>10, AcceptorAssumption
       DEF IInv, TypesOK, ThreadIsOwned, IdleInReserve, Accounted, Fds, Free, DropChannel
  <2>4. TypesOK'
    <3>1. in_use' \in Nat
      BY <1>10, <2>3, InUseIsNat DEF IInv, TypesOK, DropChannel
    <3> QED  BY <1>10, <3>1, AcceptorAssumption
          DEF IInv, TypesOK, Owners, Places, Free, DropChannel
  <2> QED  BY <2>1, <2>2, <2>3, <2>4 DEF IInv
<1> QED  BY <1>1, <1>2, <1>3, <1>4, <1>5, <1>6, <1>7, <1>8, <1>9, <1>10 DEF OwnerStep

LEMMA ThreadKeepsIInv ==
    ASSUME IInv, ListenStep
    PROVE  IInv'
<1>1. CASE TestRunListen
  <2>1. ThreadIsOwned'
    BY <1>1 DEF IInv, TypesOK, ThreadIsOwned, TestRunListen
  <2>2. IdleInReserve'
    BY <1>1, AcceptorAssumption
       DEF IInv, TypesOK, ThreadIsOwned, IdleInReserve, Free, TestRunListen
  <2>3. Accounted'
    BY <1>1, AcceptorAssumption
       DEF IInv, TypesOK, ThreadIsOwned, IdleInReserve, Accounted, Fds, Free, TestRunListen
  <2>4. TypesOK'
    <3>1. in_use' \in Nat
      BY <1>1, <2>3, InUseIsNat DEF IInv, TypesOK, TestRunListen
    <3> QED  BY <1>1, <3>1, AcceptorAssumption
          DEF IInv, TypesOK, Owners, Places, Free, TestRunListen
  <2> QED  BY <2>1, <2>2, <2>3, <2>4 DEF IInv
<1>2. CASE WaitForClients
  <2>1. ThreadIsOwned'
    BY <1>2 DEF IInv, TypesOK, ThreadIsOwned, WaitForClients
  <2>2. IdleInReserve'
    BY <1>2, AcceptorAssumption
       DEF IInv, TypesOK, ThreadIsOwned, IdleInReserve, Free, WaitForClients
  <2>3. Accounted'
    BY <1>2, AcceptorAssumption
       DEF IInv, TypesOK, ThreadIsOwned, IdleInReserve, Accounted, Fds, Free, WaitForClients
  <2>4. TypesOK'
    <3>1. in_use' \in Nat
      BY <1>2, <2>3, InUseIsNat DEF IInv, TypesOK, WaitForClients
    <3> QED  BY <1>2, <3>1, AcceptorAssumption
          DEF IInv, TypesOK, Owners, Places, Free, WaitForClients
  <2> QED  BY <2>1, <2>2, <2>3, <2>4 DEF IInv
<1>3. CASE Accept
  <2>1. ThreadIsOwned'
    BY <1>3 DEF IInv, TypesOK, ThreadIsOwned, Accept
  <2>2. IdleInReserve'
    BY <1>3, AcceptorAssumption DEF IInv, TypesOK, ThreadIsOwned, IdleInReserve, Free, Accept
  <2>3. Accounted'
    BY <1>3, AcceptorAssumption
       DEF IInv, TypesOK, ThreadIsOwned, IdleInReserve, Accounted, Fds, Free, Accept
  <2>4. TypesOK'
    <3>1. in_use' \in Nat
      BY <1>3, <2>3, InUseIsNat DEF IInv, TypesOK, Accept
    <3> QED  BY <1>3, <3>1, AcceptorAssumption DEF IInv, TypesOK, Owners, Places, Free, Accept
  <2> QED  BY <2>1, <2>2, <2>3, <2>4 DEF IInv
<1>4. CASE GiveUpIdle
  <2>1. ThreadIsOwned'
    BY <1>4 DEF IInv, TypesOK, ThreadIsOwned, GiveUpIdle
  <2>2. IdleInReserve'
    BY <1>4, AcceptorAssumption
       DEF IInv, TypesOK, ThreadIsOwned, IdleInReserve, Accounted, Fds, Free, GiveUpIdle
  <2>3. Accounted'
    BY <1>4, AcceptorAssumption
       DEF IInv, TypesOK, ThreadIsOwned, IdleInReserve, Accounted, Fds, Free, GiveUpIdle
  <2>4. TypesOK'
    <3>1. in_use' \in Nat
      BY <1>4, <2>3, InUseIsNat DEF IInv, TypesOK, GiveUpIdle
    <3> QED  BY <1>4, <3>1, AcceptorAssumption
          DEF IInv, TypesOK, Owners, Places, Free, GiveUpIdle
  <2> QED  BY <2>1, <2>2, <2>3, <2>4 DEF IInv
<1>5. CASE AcceptAgain
  <2>1. ThreadIsOwned'
    BY <1>5 DEF IInv, TypesOK, ThreadIsOwned, AcceptAgain
  <2>2. IdleInReserve'
    BY <1>5, AcceptorAssumption
       DEF IInv, TypesOK, ThreadIsOwned, IdleInReserve, Free, AcceptAgain
  <2>3. Accounted'
    BY <1>5, AcceptorAssumption
       DEF IInv, TypesOK, ThreadIsOwned, IdleInReserve, Accounted, Fds, Free, AcceptAgain
  <2>4. TypesOK'
    <3>1. in_use' \in Nat
      BY <1>5, <2>3, InUseIsNat DEF IInv, TypesOK, AcceptAgain
    <3> QED  BY <1>5, <3>1, AcceptorAssumption
          DEF IInv, TypesOK, Owners, Places, Free, AcceptAgain
  <2> QED  BY <2>1, <2>2, <2>3, <2>4 DEF IInv
<1>6. CASE Refuse
  <2>1. ThreadIsOwned'
    BY <1>6 DEF IInv, TypesOK, ThreadIsOwned, Refuse
  <2>2. IdleInReserve'
    BY <1>6, AcceptorAssumption
       DEF IInv, TypesOK, ThreadIsOwned, IdleInReserve, Accounted, Fds, Free, Refuse
  <2>3. Accounted'
    BY <1>6, AcceptorAssumption
       DEF IInv, TypesOK, ThreadIsOwned, IdleInReserve, Accounted, Fds, Free, Refuse
  <2>4. TypesOK'
    <3>1. in_use' \in Nat
      BY <1>6, <2>3, InUseIsNat DEF IInv, TypesOK, Refuse
    <3> QED  BY <1>6, <3>1, AcceptorAssumption DEF IInv, TypesOK, Owners, Places, Free, Refuse
  <2> QED  BY <2>1, <2>2, <2>3, <2>4 DEF IInv
<1>7. CASE ReopenIdle
  <2>1. ThreadIsOwned'
    BY <1>7 DEF IInv, TypesOK, ThreadIsOwned, ReopenIdle
  <2>2. IdleInReserve'
    BY <1>7, AcceptorAssumption
       DEF IInv, TypesOK, ThreadIsOwned, IdleInReserve, Free, ReopenIdle
  <2>3. Accounted'
    BY <1>7, AcceptorAssumption
       DEF IInv, TypesOK, ThreadIsOwned, IdleInReserve, Accounted, Fds, Free, ReopenIdle
  <2>4. TypesOK'
    <3>1. in_use' \in Nat
      BY <1>7, <2>3, InUseIsNat DEF IInv, TypesOK, ReopenIdle
    <3> QED  BY <1>7, <3>1, AcceptorAssumption
          DEF IInv, TypesOK, Owners, Places, Free, ReopenIdle
  <2> QED  BY <2>1, <2>2, <2>3, <2>4 DEF IInv
<1>8. CASE ReleaseListenChannels
  <2>1. ThreadIsOwned'
    BY <1>8 DEF IInv, TypesOK, ThreadIsOwned, ReleaseListenChannels
  <2>2. IdleInReserve'
    BY <1>8, AcceptorAssumption
       DEF IInv, TypesOK, ThreadIsOwned, IdleInReserve, Free, ReleaseListenChannels
  <2>3. Accounted'
    BY <1>8, AcceptorAssumption
       DEF IInv, TypesOK, ThreadIsOwned, IdleInReserve, Accounted, Fds, Free, ReleaseListenChannels
  <2>4. TypesOK'
    <3>1. in_use' \in Nat
      BY <1>8, <2>3, InUseIsNat DEF IInv, TypesOK, ReleaseListenChannels
    <3> QED  BY <1>8, <3>1, AcceptorAssumption
          DEF IInv, TypesOK, Owners, Places, Free, ReleaseListenChannels
  <2> QED  BY <2>1, <2>2, <2>3, <2>4 DEF IInv
<1> QED  BY <1>1, <1>2, <1>3, <1>4, <1>5, <1>6, <1>7, <1>8 DEF ListenStep

LEMMA OthersKeepIInv ==
    ASSUME IInv, OtherStep
    PROVE  IInv'
<1>1. CASE ClientConnects
  <2>1. ThreadIsOwned'
    BY <1>1 DEF IInv, TypesOK, ThreadIsOwned, ClientConnects
  <2>2. IdleInReserve'
    BY <1>1, AcceptorAssumption
       DEF IInv, TypesOK, ThreadIsOwned, IdleInReserve, Free, ClientConnects
  <2>3. Accounted'
    BY <1>1, AcceptorAssumption
       DEF IInv, TypesOK, ThreadIsOwned, IdleInReserve, Accounted, Fds, Free, ClientConnects
  <2>4. TypesOK'
    <3>1. in_use' \in Nat
      BY <1>1, <2>3, InUseIsNat DEF IInv, TypesOK, ClientConnects
    <3> QED  BY <1>1, <3>1, AcceptorAssumption
          DEF IInv, TypesOK, Owners, Places, Free, ClientConnects
  <2> QED  BY <2>1, <2>2, <2>3, <2>4 DEF IInv
<1>2. CASE AcceptedCloses
  <2>1. ThreadIsOwned'
    BY <1>2 DEF IInv, TypesOK, ThreadIsOwned, AcceptedCloses
  <2>2. IdleInReserve'
    BY <1>2, AcceptorAssumption
       DEF IInv, TypesOK, ThreadIsOwned, IdleInReserve, Free, AcceptedCloses
  <2>3. Accounted'
    BY <1>2, AcceptorAssumption
       DEF IInv, TypesOK, ThreadIsOwned, IdleInReserve, Accounted, Fds, Free, AcceptedCloses
  <2>4. TypesOK'
    <3>1. in_use' \in Nat
      BY <1>2, <2>3, InUseIsNat DEF IInv, TypesOK, AcceptedCloses
    <3> QED  BY <1>2, <3>1, AcceptorAssumption
          DEF IInv, TypesOK, Owners, Places, Free, AcceptedCloses
  <2> QED  BY <2>1, <2>2, <2>3, <2>4 DEF IInv
<1>3. CASE ForeignOpens
  <2>1. ThreadIsOwned'
    BY <1>3 DEF IInv, TypesOK, ThreadIsOwned, ForeignOpens
  <2>2. IdleInReserve'
    BY <1>3, AcceptorAssumption
       DEF IInv, TypesOK, ThreadIsOwned, IdleInReserve, Free, ForeignOpens
  <2>3. Accounted'
    BY <1>3, AcceptorAssumption
       DEF IInv, TypesOK, ThreadIsOwned, IdleInReserve, Accounted, Fds, Free, ForeignOpens
  <2>4. TypesOK'
    <3>1. in_use' \in Nat
      BY <1>3, <2>3, InUseIsNat DEF IInv, TypesOK, ForeignOpens
    <3> QED  BY <1>3, <3>1, AcceptorAssumption
          DEF IInv, TypesOK, Owners, Places, Free, ForeignOpens
  <2> QED  BY <2>1, <2>2, <2>3, <2>4 DEF IInv
<1>4. CASE ForeignCloses
  <2>1. ThreadIsOwned'
    BY <1>4 DEF IInv, TypesOK, ThreadIsOwned, ForeignCloses
  <2>2. IdleInReserve'
    BY <1>4, AcceptorAssumption
       DEF IInv, TypesOK, ThreadIsOwned, IdleInReserve, Free, ForeignCloses
  <2>3. Accounted'
    BY <1>4, AcceptorAssumption
       DEF IInv, TypesOK, ThreadIsOwned, IdleInReserve, Accounted, Fds, Free, ForeignCloses
  <2>4. TypesOK'
    <3>1. in_use' \in Nat
      BY <1>4, <2>3, InUseIsNat DEF IInv, TypesOK, ForeignCloses
    <3> QED  BY <1>4, <3>1, AcceptorAssumption
          DEF IInv, TypesOK, Owners, Places, Free, ForeignCloses
  <2> QED  BY <2>1, <2>2, <2>3, <2>4 DEF IInv
<1> QED  BY <1>1, <1>2, <1>3, <1>4 DEF OtherStep

LEMMA IInvHolds == AcceptSafety => []IInv
<1>1. AcceptInit => IInv
  <2> SUFFICES ASSUME AcceptInit  PROVE IInv
    OBVIOUS
  <2>1. TypesOK /\ ThreadIsOwned
    BY DEF AcceptInit, TypesOK, Owners, Places, ThreadIsOwned
  <2>2. IdleInReserve
    BY DEF AcceptInit, IdleInReserve
  <2>3. Accounted
    BY AcceptorAssumption DEF AcceptInit, Accounted, Fds
  <2> QED  BY <2>1, <2>2, <2>3 DEF IInv
<1>2. IInv /\ [AcceptNext]_acceptVars => IInv'
  <2> SUFFICES ASSUME IInv, [AcceptNext]_acceptVars  PROVE IInv'
    OBVIOUS
  <2>1. CASE UNCHANGED acceptVars
    BY <2>1 DEF acceptVars, IInv, TypesOK, ThreadIsOwned,
                IdleInReserve, Accounted, Fds, Free
  <2>2. CASE OwnerStep \/ ListenStep \/ OtherStep
    BY <2>2, OwnerKeepsIInv, ThreadKeepsIInv, OthersKeepIInv
  <2> QED  BY <2>1, <2>2 DEF AcceptNext, OwnerStep, OtherStep
<1> QED  BY <1>1, <1>2, PTL DEF AcceptSafety

(* epoll never calls a channel that is gone: while listen_thread_ lives, its
   owner keeps accept_channel_ and *run_listen_ is set, although the
   collector drops the reference that the destructor gives it. *)
THEOREM ListenThreadKeepsChannel == AcceptSafety => []ListenThreadHasChannel
<1>1. IInv => ListenThreadHasChannel
    BY DEF IInv, TypesOK, Owners, ThreadIsOwned, ListenThreadHasChannel
<1> QED  BY <1>1, IInvHolds, PTL

(* idle_fd_ is back whenever on_recv returns, and no descriptor is lost but
   the listen socket's, with any limit and any number of clients. *)
THEOREM IdleFdIsKept == AcceptSafety => []IdleFdComesBack
<1>1. IInv => IdleFdComesBack
    BY DEF IInv, IdleInReserve, Accounted, IdleFdComesBack
<1> QED  BY <1>1, IInvHolds, PTL
=============================================================================

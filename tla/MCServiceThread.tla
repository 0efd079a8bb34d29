--------------------------- MODULE MCServiceThread ---------------------------
(***************************************************************************)
(* Two kinds of thread side by side: a service_thread with its tasks, and  *)
(* the listen thread of an acceptor.  They share no state, and a behaviour *)
(* exercises one of them.                                                  *)
(***************************************************************************)
EXTENDS ServiceThread, Acceptor

CONSTANTS a1, io, k1, k2,
          MaxQueue    \* bound: length of a task list

ASSUME QueueAssumption == MaxQueue \in Nat

VARIABLE part
MCTaskKind == {k1, k2}

MCInit == part \in {"thread", "acceptor"} /\ ThreadInit /\ AcceptInit
FewTasks == Len(async_tasks) <= MaxQueue /\ Len(sync_tasks) <= MaxQueue
Thread == part = "thread" /\ ThreadNext /\ FewTasks' /\ UNCHANGED <<part, acceptVars>>
Listen == part = "acceptor" /\ AcceptNext /\ UNCHANGED <<part, threadVars>>
MCSpec == /\ MCInit /\ [][Thread \/ Listen]_<<part, threadVars, acceptVars>>
          /\ part = "thread" => ThreadFairness
          /\ part = "acceptor" => AcceptFairness
=============================================================================

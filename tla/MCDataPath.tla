----------------------------- MODULE MCDataPath -----------------------------
(***************************************************************************)
(* Three parts of the way of a byte, side by side: the receive buffer, the *)
(* pool of the send buffers and the sends of the completion port.  They    *)
(* share no state, and a behaviour exercises one of them.                  *)
(***************************************************************************)
EXTENDS RecvBuffer, BufferPool, Iocp, TLC

VARIABLE part
Sym == Permutations(Buffers) \cup Permutations(Allocators)

\* A part that is not exercised starts in one way.
Init ==
    /\ part \in {"recv", "pool", "iocp"} /\ RecvInit /\ PoolInit /\ IocpInit
    /\ part # "recv" => channel = "epoll" /\ ~has_callback
    /\ part # "iocp" => site = "app"
Recv == part = "recv" /\ RecvNext /\ UNCHANGED <<part, poolVars, iocpVars>>
Pool == part = "pool" /\ PoolNext /\ UNCHANGED <<part, recvVars, iocpVars>>
Iocps == part = "iocp" /\ IocpNext /\ UNCHANGED <<part, recvVars, poolVars>>
Spec == Init /\ [][Recv \/ Pool \/ Iocps]_<<part, recvVars, poolVars, iocpVars>>
=============================================================================

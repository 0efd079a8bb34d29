--------------------------- MODULE OrderedChannel ---------------------------
(***************************************************************************)
(* What a tcp_session promises to those who send on it: packets are         *)
(* completed one at a time, in the order in which they were queued, and     *)
(* none is completed once the session is closed.                            *)
(***************************************************************************)
EXTENDS Sequences

CONSTANT Packet

VARIABLES queue, completed, closed

channelVars == <<queue, completed, closed>>

ChannelInit == queue = <<>> /\ completed = <<>> /\ closed = FALSE

Enqueue ==
    /\ \E packet \in Packet : queue' = Append(queue, packet)
    /\ UNCHANGED <<completed, closed>>

Complete ==
    /\ ~closed /\ queue # <<>>
    /\ completed' = Append(completed, Head(queue))
    /\ queue' = Tail(queue)
    /\ UNCHANGED closed

CloseChannel == ~closed /\ closed' = TRUE /\ UNCHANGED <<queue, completed>>

ChannelNext == Enqueue \/ Complete \/ CloseChannel

ChannelSafety == ChannelInit /\ [][ChannelNext]_channelVars
=============================================================================

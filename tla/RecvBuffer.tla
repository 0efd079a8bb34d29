----------------------------- MODULE RecvBuffer -----------------------------
(***************************************************************************)
(* How received bytes get from the kernel to the data callback: do_recv of *)
(* epoll_socket_channel.h, which reads into the receive buffer and a block *)
(* on the stack, and do_complete of iocp_recv_channel.h.  The bytes of the *)
(* stream are numbered.  One turn of do_recv's loop is a step.             *)
(***************************************************************************)
EXTENDS Buffer

CONSTANTS StackSize,   \* sizeof(stack_buffer)
          DefaultMaxSize, \* 64 * 1024
          MaxSizes,    \* arguments of set_max_recv_buffer_size, which takes any size_t
          Channels,    \* "epoll", "iocp"
          MaxBytes     \* bound: bytes that the peer sends

ASSUME RecvAssumption ==
    /\ MinBufferSize \in Nat \ {0} /\ StackSize \in Nat \ {0} /\ Wrap \in Nat
    /\ DefaultMaxSize \in MinBufferSize .. Wrap - 1 /\ MaxSizes \subseteq 0 .. Wrap - 1
    /\ MaxBytes \in 0 .. Wrap - 1   \* a stream of fewer than 2^64 bytes

VARIABLES
    channel,      \* which implementation reads
    max_size,     \* max_recv_buffer_size_
    has_callback, \* data_callback_ is set
    recv_buffer,
    at,           \* "idle", "reading", "closed", "broken"
    arrived,      \* bytes that the peer has sent
    taken,        \* how many of them the kernel has handed out
    consumed,     \* history: bytes that the callback has taken
    over,         \* history: the callback has left more than the limit then in force
    lowered,      \* history: the limit has been set below the size of the block
    skipped       \* history: a turn dropped bytes, see below

recvVars == <<channel, max_size, has_callback, recv_buffer, at, arrived, taken, consumed,
              over, lowered, skipped>>

Numbers(from, to) == [i \in 1 .. to - from |-> from + i]

PeerSends == /\ arrived < MaxBytes /\ at # "closed"
             /\ \E n \in arrived + 1 .. MaxBytes : arrived' = n
             /\ UNCHANGED <<channel, max_size, has_callback, recv_buffer, at, taken, consumed,
                            over, lowered, skipped>>
SetDataCallback == /\ ~has_callback /\ at = "idle" /\ has_callback' = TRUE
                   /\ UNCHANGED <<channel, max_size, recv_buffer, at, arrived, taken, consumed,
                                  over, lowered, skipped>>
\* By any thread and at any time.
SetMaxRecvBufferSize ==
    /\ \E size \in MaxSizes : /\ max_size' = size
                             /\ lowered' = (lowered \/ size < recv_buffer.size)
    /\ UNCHANGED <<channel, has_callback, recv_buffer, at, arrived, taken, consumed, over, skipped>>

\* Mutant: the block doubles whatever the limit.
GrowLength_NoLimit(b, limit) == b.size

\* After the callback: larger after a full read, to the head when that is due.
\* A limit that the double size exceeds is read again for the difference, and
\* may be another one by then.
Rereads(b, full) == full /\ b.size * 2 > max_size
GrowLength(b, limit) == IF b.size * 2 <= max_size THEN b.size ELSE (limit - b.size) % Wrap
Enlarged(b, full, limit) == IF full THEN Grow(b, GrowLength(b, limit)) ELSE b
Settled(b) == IF WriteValidCount(b) = 0 \/ Length(b) = 0 THEN AdjustToHead(b) ELSE b
\* The buffer that a turn leaves, and what grow() does before when it shrinks.
Leave(b, full, to) ==
    \E limit \in IF Rereads(b, full) THEN {max_size} \cup MaxSizes ELSE {max_size} :
        LET wide == Enlarged(b, full, limit)
        IN /\ max_size' = limit /\ lowered' = (lowered \/ (limit # max_size /\ limit < b.size))
           /\ IF Overrun(wide) THEN recv_buffer' = wide /\ at' = "broken"
              ELSE recv_buffer' = Settled(wide) /\ at' = to

\* Mutant: what the callback leaves of the buffer makes the rest forgotten.
CallBack_DropsRest(b, rest, n, k) ==
    IF n < Length(b) THEN RemoveLength(b, n) ELSE Write(RemoveLength(b, n), SubSeq(rest, k + 1, Len(rest)))

\* The callback takes n bytes of the buffer and, if that is all, k of the rest.
CallBack(b, rest, n, k) ==
    IF n < Length(b) \/ rest = <<>> THEN Write(RemoveLength(b, n), rest)
    ELSE IF k = Len(rest) THEN RemoveLength(b, n)
    ELSE Write(RemoveLength(b, n), SubSeq(rest, k + 1, Len(rest)))
\* One turn: b is the buffer after the read, rest what is on the stack.
Turn(b, rest, result, to) ==
    IF ~has_callback
    THEN /\ Leave(b, result >= b.size, to)
         /\ skipped' = (skipped \/ rest # <<>>)
         /\ UNCHANGED <<consumed, over>>
    ELSE \E n \in 0 .. Length(b), k \in 0 .. Len(rest) :
            LET after == CallBack(b, rest, n, k)
            IN /\ k > 0 => n = Length(b)
               /\ consumed' = consumed \o SubSeq(Held(b), 1, n) \o SubSeq(rest, 1, k)
               /\ over' = (over \/ Length(after) > max_size)
               /\ Leave(after, result >= after.size, to)
               /\ UNCHANGED skipped

-----------------------------------------------------------------------------
OnRecv == /\ channel = "epoll" /\ at = "idle" /\ arrived > taken /\ at' = "reading"
          /\ UNCHANGED <<channel, max_size, has_callback, recv_buffer, arrived, taken, consumed,
                         over, lowered, skipped>>
\* readv fills the buffer first, then the stack; a full read is repeated.
Readv ==
    LET valid == WriteValidCount(recv_buffer)
        n == Least(arrived - taken, valid + StackSize)
        direct == Least(n, valid)
    IN /\ channel = "epoll" /\ at = "reading" /\ n > 0
       /\ taken' = taken + n
       /\ Turn(AddWritePos(recv_buffer, Numbers(taken, taken + direct)),
               Numbers(taken + direct, taken + n), n,
               IF n < valid + StackSize THEN "idle" ELSE "reading")
       /\ UNCHANGED <<channel, has_callback, arrived>>
\* EAGAIN is no error here, and -1 goes on as the number of bytes read: the
\* last byte of an unread rest is dropped, and the callback called again.
ReadvAgain ==
    /\ channel = "epoll" /\ at = "reading" /\ arrived = taken
    /\ \E n \in 0 .. Length(AddWritePosMinusOne(recv_buffer)) :
          LET b == AddWritePosMinusOne(recv_buffer)
              after == RemoveLength(b, n)
          IN /\ n > 0 => has_callback
             /\ consumed' = consumed \o SubSeq(Held(b), 1, n)
             /\ Leave(after, FALSE, "idle")
    /\ skipped' = (skipped \/ Length(recv_buffer) > 0)
    /\ UNCHANGED <<channel, has_callback, arrived, taken, over>>

\* A WSARecv into the free part of the buffer completes; one of no bytes is
\* taken for the end of the stream.
WsaRecvCompletes ==
    LET post_len == WriteValidCount(recv_buffer)
    IN /\ channel = "iocp" /\ at = "idle" /\ (post_len > 0 => arrived > taken)
       /\ IF post_len = 0
          THEN /\ at' = "closed"
               /\ UNCHANGED <<max_size, recv_buffer, taken, consumed, over, lowered, skipped>>
          ELSE \E n \in 1 .. Least(post_len, arrived - taken) :
                  LET b == AddWritePos(recv_buffer, Numbers(taken, taken + n))
                  IN /\ taken' = taken + n
                     /\ \E k \in 0 .. Length(b) :
                           /\ k > 0 => has_callback
                           /\ consumed' = consumed \o SubSeq(Held(b), 1, k)
                           /\ over' = (over \/ Length(b) - k > max_size)
                           /\ Leave(RemoveLength(b, k), n = post_len, "idle")
                     /\ UNCHANGED skipped
       /\ UNCHANGED <<channel, has_callback, arrived>>

-----------------------------------------------------------------------------
RecvInit ==
    /\ channel \in Channels /\ max_size = DefaultMaxSize /\ has_callback \in BOOLEAN
    /\ recv_buffer = NewBuffer(MinBufferSize) /\ at = "idle"
    /\ arrived = 0 /\ taken = 0 /\ consumed = <<>>
    /\ over = FALSE /\ lowered = FALSE /\ skipped = FALSE
RecvNext == \/ PeerSends \/ SetDataCallback \/ SetMaxRecvBufferSize
            \/ OnRecv \/ Readv \/ ReadvAgain \/ WsaRecvCompletes
RecvSpec == RecvInit /\ [][RecvNext]_recvVars

-----------------------------------------------------------------------------
\* Properties.

\* What the callback has taken and what waits in the buffer is the stream, in
\* order and without a gap, however the reads fall, whatever the callback
\* leaves and wherever the buffer moves or grows.  Bytes are skipped only when
\* the stack block was used without a callback, or by EAGAIN after a full read.
StreamKept == at # "broken" /\ ~skipped => consumed \o Held(recv_buffer) = Numbers(0, taken)

\* The positions stay inside the block, and the block inside the limit, as long
\* as nobody sets a limit below what the block has already and the callback of
\* an epoll channel never leaves more than the limit unread.  Only then is grow()
\* asked for less than there is.
BlockNotOverrun == /\ at = "broken" \/ recv_buffer.size > max_size
                         => lowered \/ (over /\ channel = "epoll")
                   /\ at # "broken" => recv_buffer.read <= Len(recv_buffer.bytes)
                                       /\ Len(recv_buffer.bytes) <= recv_buffer.size
=============================================================================

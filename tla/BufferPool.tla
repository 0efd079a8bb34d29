----------------------------- MODULE BufferPool -----------------------------
(***************************************************************************)
(* base/buffer_pool.h: a stack of buffers per size class, changed by       *)
(* compare-and-exchange of its head.  Threads allocate a buffer for each   *)
(* packet they send, the IO thread recycles it when it is written, and a   *)
(* session that dies deletes the buffers of the packets it still has.      *)
(***************************************************************************)
EXTENDS Buffer, FiniteSets

CONSTANTS Buffers,     \* addresses
          Allocators,  \* threads that send
          Sizes,       \* lengths of packets
          Classes,     \* max_pool_size
          Null

ASSUME PoolAssumption == /\ IsFiniteSet(Buffers) /\ Null \notin Buffers
                         /\ Sizes \subseteq Nat \ {0} /\ MinBufferSize \in Nat /\ Classes \in Nat

VARIABLES
    head,       \* pool_
    next,       \* next_ of a buffer, also of one in use
    capacity,   \* data_size_; 0 while the address is free
    in_use,     \* buffers of packets in the lists of sessions
    allocAt, want, ptr, after,  \* alloc_buffer of a thread: size, ptr, ptr->get_next()
    recycled, below,            \* recycle_buffer on the IO thread: buf, ptr
    stale                       \* history: an exchange has stored a next_ that was out of date

poolVars == <<head, next, capacity, in_use, allocAt, want, ptr, after, recycled, below, stale>>

\* get_index: the first class whose size is at least that.
InClass(size, i) == /\ size <= MinBufferSize * 2 ^ i
                    /\ \A j \in 0 .. i - 1 : size > MinBufferSize * 2 ^ j
GetIndex(size) == CHOOSE i \in 0 .. Classes - 1 : InClass(size, i)

\* assert(index < pool_.size()), for a packet and for the block of its buffer.
ASSUME ClassAssumption ==
    \A size \in Sizes : \A length \in {size, NewBuffer(size).size} :
        \E i \in 0 .. Classes - 1 : InClass(length, i)

StartAlloc(t) ==
    /\ allocAt[t] = "idle" /\ allocAt' = [allocAt EXCEPT ![t] = "load"]
    /\ \E size \in Sizes : want' = [want EXCEPT ![t] = size]
    /\ UNCHANGED <<head, next, capacity, in_use, ptr, after, recycled, below, stale>>
Load(t) ==
    /\ allocAt[t] = "load"
    /\ ptr' = [ptr EXCEPT ![t] = head[GetIndex(want[t])]]
    /\ allocAt' = [allocAt EXCEPT ![t] = IF ptr'[t] = Null THEN "new" ELSE "next"]
    /\ UNCHANGED <<head, next, capacity, in_use, want, after, recycled, below, stale>>
\* The packet is written to the buffer, which grows if it is too small; the
\* variables of the call end with it.
Lend(t, b) == /\ in_use' = in_use \cup {b}
              /\ capacity' = [capacity EXCEPT ![b] = Most(@, NewBuffer(want[t]).size)]
              /\ allocAt' = [allocAt EXCEPT ![t] = "idle"] /\ want' = [want EXCEPT ![t] = 0]
              /\ ptr' = [ptr EXCEPT ![t] = Null] /\ after' = [after EXCEPT ![t] = Null]
New(t) ==
    /\ allocAt[t] = "new"
    /\ \E b \in Buffers : capacity[b] = 0 /\ Lend(t, b) /\ next' = [next EXCEPT ![b] = Null]
    /\ UNCHANGED <<head, recycled, below, stale>>
\* The buffer may be another thread's by now, or deleted: then anything is read.
ReadNext(t) ==
    /\ allocAt[t] = "next" /\ allocAt' = [allocAt EXCEPT ![t] = "exchange"]
    /\ \E b \in IF capacity[ptr[t]] > 0 THEN {next[ptr[t]]} ELSE Buffers \cup {Null} :
          after' = [after EXCEPT ![t] = b]
    /\ UNCHANGED <<head, next, capacity, in_use, want, ptr, recycled, below, stale>>
\* Mutant: the head is stored and not compared.
Exchange_Unchecked(t) ==
    /\ allocAt[t] = "exchange"
    /\ head' = [head EXCEPT ![GetIndex(want[t])] = after[t]]
    /\ stale' = (stale \/ after[t] # next[ptr[t]])
    /\ Lend(t, ptr[t])
    /\ UNCHANGED <<next, recycled, below>>

\* The head is compared and its next_ is not: since ReadNext the buffer may have
\* been taken by another thread and recycled above others.  The exchange may
\* also fail without cause.
Exchange(t) ==
    /\ allocAt[t] = "exchange"
    /\ \/ /\ head[GetIndex(want[t])] = ptr[t]
          /\ head' = [head EXCEPT ![GetIndex(want[t])] = after[t]]
          /\ stale' = (stale \/ after[t] # next[ptr[t]])
          /\ Lend(t, ptr[t])
       \/ /\ allocAt' = [allocAt EXCEPT ![t] = "load"]
          /\ ptr' = [ptr EXCEPT ![t] = Null] /\ after' = [after EXCEPT ![t] = Null]
          /\ UNCHANGED <<head, in_use, capacity, want, stale>>
    /\ UNCHANGED <<next, recycled, below>>

\* The IO thread: load of the head with set_next, then the exchange.
RecycleLoad(b) ==
    /\ \/ recycled = Null /\ b \in in_use
       \/ recycled = b /\ below # head[GetIndex(capacity[b])]
    /\ recycled' = b /\ in_use' = in_use \ {b}
    /\ below' = head[GetIndex(capacity[b])]
    /\ next' = [next EXCEPT ![b] = below']
    /\ UNCHANGED <<head, capacity, allocAt, want, ptr, after, stale>>
RecycleExchange ==
    /\ recycled # Null /\ head[GetIndex(capacity[recycled])] = below
    /\ head' = [head EXCEPT ![GetIndex(capacity[recycled])] = recycled]
    /\ recycled' = Null /\ below' = Null
    /\ UNCHANGED <<next, capacity, in_use, allocAt, want, ptr, after, stale>>
\* ~socket_data: the address may be given out again.
Delete(b) ==
    /\ b \in in_use /\ in_use' = in_use \ {b} /\ capacity' = [capacity EXCEPT ![b] = 0]
    /\ UNCHANGED <<head, next, allocAt, want, ptr, after, recycled, below, stale>>

PoolInit ==
    /\ head = [i \in 0 .. Classes - 1 |-> Null] /\ next = [b \in Buffers |-> Null]
    /\ capacity = [b \in Buffers |-> 0] /\ in_use = {}
    /\ allocAt = [t \in Allocators |-> "idle"] /\ want = [t \in Allocators |-> 0]
    /\ ptr = [t \in Allocators |-> Null] /\ after = [t \in Allocators |-> Null]
    /\ recycled = Null /\ below = Null /\ stale = FALSE
PoolNext ==
    \/ \E t \in Allocators : StartAlloc(t) \/ Load(t) \/ New(t) \/ ReadNext(t) \/ Exchange(t)
    \/ RecycleExchange
    \/ \E b \in Buffers : RecycleLoad(b) \/ Delete(b)
PoolSpec == PoolInit /\ [][PoolNext]_poolVars

-----------------------------------------------------------------------------
\* Properties.
Chain(i) == LET walk[k \in 0 .. Cardinality(Buffers)] ==
                    IF k = 0 THEN head[i]
                    ELSE IF walk[k - 1] = Null THEN Null ELSE next[walk[k - 1]]
            IN walk
Pooled(i) == {Chain(i)[k] : k \in DOMAIN Chain(i)} \ {Null}

\* However many threads allocate: until an exchange has stored a next_ that was
\* out of date, which takes two of them, every buffer is in one place: in a packet,
\* in the IO thread's hands, or once in the stack of its class; none is lost.
OneOwner ==
    ~stale =>
    LET owners == {in_use, {recycled} \ {Null}} \cup {Pooled(i) : i \in DOMAIN head}
    IN /\ UNION owners = {b \in Buffers : capacity[b] > 0}
       /\ in_use \cap UNION {Pooled(i) : i \in DOMAIN head} = {} /\ recycled \notin in_use
       /\ \A i \in DOMAIN head : /\ Chain(i)[Cardinality(Buffers)] = Null
                                 /\ \A b \in Pooled(i) : b # recycled /\ GetIndex(capacity[b]) = i
=============================================================================

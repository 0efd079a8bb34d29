--------------------------- MODULE DataPathProofs ---------------------------
(***************************************************************************)
(* The bytes that come and the packets that go.  RecvBuffer, for any sizes *)
(* of the buffer and of the stack block, any limits set at any time, and   *)
(* any stream shorter than the range of size_t: no byte is lost or         *)
(* repeated on the way to the callback, and the positions stay inside the  *)
(* block until a limit is set below what the block has, or the callback    *)
(* leaves more than the limit.  Iocp, for any number of packets, any       *)
(* lengths and either sender: a packet that is queued has a carrier, so it *)
(* never waits in vain, and the units leave in the order of the sends.     *)
(* BufferPool, for any number of buffers, sizes, classes and threads that  *)
(* allocate: each buffer is in one place until an exchange stores a next_  *)
(* that was out of date.                                                   *)
(***************************************************************************)
EXTENDS RecvBuffer, BufferPool, Iocp, SequenceTheorems, FiniteSetTheorems,
        WellFoundedInduction, TLAPS

Buf == [bytes : Seq(Int), read : Nat, size : Nat]
\* The positions of b are inside its block.
Sane(b) == b \in Buf /\ b.read <= Len(b.bytes) /\ Len(b.bytes) <= b.size /\ b.size < Wrap

-----------------------------------------------------------------------------
(* The operations of a buffer.                                               *)

LEMMA ModSmall == ASSUME NEW a \in Nat, NEW b \in Nat, a < b PROVE a % b = a
  OBVIOUS

LEMMA Splits ==
    ASSUME NEW s \in Seq(Int), NEW n \in 0 .. Len(s)
    PROVE  /\ SubSeq(s, 1, n) \in Seq(Int) /\ Len(SubSeq(s, 1, n)) = n
           /\ SubSeq(s, n + 1, Len(s)) \in Seq(Int) /\ Len(SubSeq(s, n + 1, Len(s))) = Len(s) - n
           /\ SubSeq(s, 1, n) \o SubSeq(s, n + 1, Len(s)) = s
           /\ \A i \in 1 .. Len(s) - n : SubSeq(s, n + 1, Len(s))[i] = s[n + i]
  <1>1. Len(s) \in Nat /\ \A i \in 1 .. Len(s) : s[i] \in Int
    OBVIOUS
  <1>2. SubSeq(s, 1, n) \in Seq(Int) /\ Len(SubSeq(s, 1, n)) = n
    BY <1>1, SubSeqProperties
  <1>3. /\ SubSeq(s, n + 1, Len(s)) \in Seq(Int) /\ Len(SubSeq(s, n + 1, Len(s))) = Len(s) - n
        /\ \A i \in 1 .. Len(s) - n : SubSeq(s, n + 1, Len(s))[i] = s[n + i]
    BY <1>1, SubSeqProperties
  <1>4. SubSeq(s, 1, n) \o SubSeq(s, n + 1, Len(s)) = s
    <2>1. /\ 1 \in 1 .. Len(s) + 1 /\ n \in 1 - 1 .. Len(s) /\ Len(s) \in n .. Len(s)
      BY <1>1
    <2>2. SubSeq(s, 1, n) \o SubSeq(s, n + 1, Len(s)) = SubSeq(s, 1, Len(s))
      BY <2>1, ConcatAdjacentSubSeq
    <2> QED  BY <2>2, SubSeqFull
  <1> QED  BY <1>2, <1>3, <1>4

LEMMA DropDrop ==
    ASSUME NEW s \in Seq(Int), NEW m \in 0 .. Len(s), NEW n \in 0 .. Len(s) - m
    PROVE  SubSeq(SubSeq(s, m + 1, Len(s)), n + 1, Len(s) - m) = SubSeq(s, m + n + 1, Len(s))
  <1> DEFINE u == SubSeq(s, m + 1, Len(s))
             v == SubSeq(u, n + 1, Len(u))
             w == SubSeq(s, m + n + 1, Len(s))
  <1>1. Len(s) \in Nat /\ m \in Nat /\ n \in Nat /\ m + n <= Len(s)
    OBVIOUS
  <1>2. u \in Seq(Int) /\ Len(u) = Len(s) - m /\ \A i \in 1 .. Len(s) - m : u[i] = s[m + i]
    BY Splits
  <1> HIDE DEF u
  <1>3. n \in 0 .. Len(u)
    BY <1>1, <1>2
  <1>4. v \in Seq(Int) /\ Len(v) = Len(u) - n /\ \A i \in 1 .. Len(u) - n : v[i] = u[n + i]
    BY <1>2, <1>3, Splits
  <1>5. m + n \in 0 .. Len(s)
    BY <1>1
  <1>6. /\ w \in Seq(Int) /\ Len(w) = Len(s) - (m + n)
        /\ \A i \in 1 .. Len(s) - (m + n) : w[i] = s[(m + n) + i]
    BY <1>5, Splits
  <1> HIDE DEF v, w
  <1>7. \A i \in 1 .. Len(v) : v[i] = w[i]
    <2> SUFFICES ASSUME NEW i \in 1 .. Len(v) PROVE v[i] = w[i]
      OBVIOUS
    <2>1. i \in 1 .. Len(u) - n /\ n + i \in 1 .. Len(s) - m /\ i \in 1 .. Len(s) - (m + n)
      BY <1>1, <1>2, <1>4
    <2>2. v[i] = s[m + (n + i)]
      BY <1>2, <1>4, <2>1
    <2>3. w[i] = s[(m + n) + i]
      BY <1>6, <2>1
    <2>4. m + (n + i) = (m + n) + i
      BY <1>1, <2>1
    <2> QED  BY <2>2, <2>3, <2>4
  <1>8. Len(v) = Len(w)
    BY <1>1, <1>2, <1>4, <1>6
  <1>9. v = w
    BY <1>4, <1>6, <1>7, <1>8, SeqEqual
  <1> QED  BY <1>2, <1>9 DEF u, v, w

LEMMA DropConcat ==
    ASSUME NEW s \in Seq(Int), NEW t \in Seq(Int), NEW m \in 0 .. Len(s)
    PROVE  SubSeq(s \o t, m + 1, Len(s \o t)) = SubSeq(s, m + 1, Len(s)) \o t
  <1> DEFINE st == s \o t
             u == SubSeq(s, m + 1, Len(s))
             v == SubSeq(st, m + 1, Len(st))
             w == u \o t
  <1>1. Len(s) \in Nat /\ Len(t) \in Nat /\ m \in Nat /\ m <= Len(s)
    OBVIOUS
  <1>2. /\ st \in Seq(Int) /\ Len(st) = Len(s) + Len(t)
        /\ \A i \in 1 .. Len(s) + Len(t) : st[i] = IF i <= Len(s) THEN s[i] ELSE t[i - Len(s)]
    BY ConcatProperties
  <1>3. u \in Seq(Int) /\ Len(u) = Len(s) - m /\ \A i \in 1 .. Len(s) - m : u[i] = s[m + i]
    BY Splits
  <1> HIDE DEF st, u
  <1>4. /\ w \in Seq(Int) /\ Len(w) = Len(u) + Len(t)
        /\ \A i \in 1 .. Len(u) + Len(t) : w[i] = IF i <= Len(u) THEN u[i] ELSE t[i - Len(u)]
    BY <1>3, ConcatProperties
  <1>5. m \in 0 .. Len(st)
    BY <1>1, <1>2
  <1>6. v \in Seq(Int) /\ Len(v) = Len(st) - m /\ \A i \in 1 .. Len(st) - m : v[i] = st[m + i]
    BY <1>2, <1>5, Splits
  <1> HIDE DEF v, w
  <1>7. \A i \in 1 .. Len(v) : v[i] = w[i]
    <2> SUFFICES ASSUME NEW i \in 1 .. Len(v) PROVE v[i] = w[i]
      OBVIOUS
    <2>1. /\ i \in 1 .. Len(st) - m /\ m + i \in 1 .. Len(s) + Len(t) /\ i \in 1 .. Len(u) + Len(t)
          /\ (m + i) - Len(s) = i - Len(u)
      BY <1>1, <1>2, <1>3, <1>6
    <2>2. v[i] = IF m + i <= Len(s) THEN s[m + i] ELSE t[(m + i) - Len(s)]
      BY <1>2, <1>6, <2>1
    <2>3. CASE i <= Len(u)
      <3>1. i \in 1 .. Len(s) - m /\ m + i <= Len(s)
        BY <1>1, <1>3, <2>1, <2>3
      <3> QED  BY <1>3, <1>4, <2>1, <2>2, <2>3, <3>1
    <2>4. CASE ~(i <= Len(u))
      <3>1. ~(m + i <= Len(s))
        BY <1>1, <1>3, <2>1, <2>4
      <3> QED  BY <1>4, <2>1, <2>2, <2>4, <3>1
    <2> QED  BY <2>3, <2>4
  <1>8. Len(v) = Len(w)
    BY <1>1, <1>2, <1>3, <1>4, <1>6
  <1>9. v = w
    BY <1>4, <1>6, <1>7, <1>8, SeqEqual
  <1> QED  BY <1>9 DEF st, u, v, w

LEMMA SaneLengths ==
    ASSUME NEW b, Sane(b)
    PROVE  /\ b.bytes \in Seq(Int) /\ b.read \in 0 .. Len(b.bytes) /\ b.size \in Nat
           /\ Length(b) = Len(b.bytes) - b.read /\ Length(b) \in Nat
           /\ WriteValidCount(b) = b.size - Len(b.bytes) /\ WriteValidCount(b) \in Nat
           /\ Held(b) \in Seq(Int) /\ Len(Held(b)) = Length(b)
           /\ Len(b.bytes) \in Nat /\ Len(b.bytes) <= b.size /\ b.size < Wrap
  <1>1. b.bytes \in Seq(Int) /\ b.read \in Nat /\ b.size \in Nat /\ Len(b.bytes) \in Nat
    BY DEF Sane, Buf
  <1>2. Wrap \in Nat /\ b.read <= Len(b.bytes) /\ Len(b.bytes) <= b.size /\ b.size < Wrap
    BY RecvAssumption DEF Sane
  <1>3. Length(b) = Len(b.bytes) - b.read /\ WriteValidCount(b) = b.size - Len(b.bytes)
    <2>1. /\ Len(b.bytes) - b.read \in Nat /\ Len(b.bytes) - b.read < Wrap
          /\ b.size - Len(b.bytes) \in Nat /\ b.size - Len(b.bytes) < Wrap
      BY <1>1, <1>2
    <2> QED  BY <1>2, <2>1, ModSmall DEF Length, WriteValidCount
  <1>4. Held(b) \in Seq(Int) /\ Len(Held(b)) = Len(b.bytes) - b.read
    <2>1. b.read \in 0 .. Len(b.bytes)
      BY <1>1, <1>2
    <2> QED  BY <1>1, <2>1, Splits DEF Held
  <1> QED  BY <1>1, <1>2, <1>3, <1>4

LEMMA SaneBuf ==
    ASSUME NEW bytes \in Seq(Int), NEW read \in 0 .. Len(bytes), NEW size \in Nat,
           Len(bytes) <= size, size < Wrap, NEW b, b = [bytes |-> bytes, read |-> read, size |-> size]
    PROVE  Sane(b)
  BY DEF Sane, Buf

LEMMA RemoveLengthKeeps ==
    ASSUME NEW b, Sane(b), NEW n \in 0 .. Length(b)
    PROVE  /\ Sane(RemoveLength(b, n)) /\ RemoveLength(b, n).size = b.size
           /\ Length(RemoveLength(b, n)) = Length(b) - n
           /\ Held(RemoveLength(b, n)) = SubSeq(Held(b), n + 1, Len(Held(b)))
  <1>1. /\ b.bytes \in Seq(Int) /\ b.read \in 0 .. Len(b.bytes) /\ b.size \in Nat
        /\ Length(b) = Len(b.bytes) - b.read /\ Len(Held(b)) = Length(b) /\ Len(b.bytes) \in Nat
        /\ Len(b.bytes) <= b.size /\ b.size < Wrap /\ n \in Nat /\ b.read + n \in 0 .. Len(b.bytes)
    BY SaneLengths
  <1> DEFINE c == RemoveLength(b, n)
  <1>2. c = [b EXCEPT !.read = b.read + n]
    BY <1>1 DEF RemoveLength
  <1>3. c = [bytes |-> b.bytes, read |-> b.read + n, size |-> b.size]
    BY <1>2 DEF Sane, Buf
  <1> HIDE DEF c
  <1>4. Sane(c)
    BY <1>1, <1>3, SaneBuf
  <1>5. Length(c) = Length(b) - n
    <2>1. Length(c) = Len(c.bytes) - c.read /\ c.bytes = b.bytes /\ c.read = b.read + n
      BY <1>3, <1>4, SaneLengths
    <2> QED  BY <1>1, <2>1
  <1>6. Held(c) = SubSeq(b.bytes, b.read + n + 1, Len(b.bytes))
    BY <1>3 DEF Held
  <1>7. Held(c) = SubSeq(Held(b), n + 1, Len(Held(b)))
    <2>1. n \in 0 .. Len(b.bytes) - b.read /\ Len(Held(b)) = Len(b.bytes) - b.read
      BY <1>1
    <2>2. SubSeq(Held(b), n + 1, Len(b.bytes) - b.read) = SubSeq(b.bytes, b.read + n + 1, Len(b.bytes))
      BY <1>1, <2>1, DropDrop DEF Held
    <2> QED  BY <1>6, <2>1, <2>2
  <1> QED  BY <1>3, <1>4, <1>5, <1>7 DEF c

LEMMA AddWritePosKeeps ==
    ASSUME NEW b, Sane(b), NEW new \in Seq(Int), Len(new) <= WriteValidCount(b)
    PROVE  /\ Sane(AddWritePos(b, new)) /\ AddWritePos(b, new).size = b.size
           /\ Length(AddWritePos(b, new)) = Length(b) + Len(new)
           /\ Held(AddWritePos(b, new)) = Held(b) \o new
  <1>1. /\ b.bytes \in Seq(Int) /\ b.read \in 0 .. Len(b.bytes) /\ b.size \in Nat
        /\ Length(b) = Len(b.bytes) - b.read /\ Len(b.bytes) \in Nat /\ Len(new) \in Nat
        /\ WriteValidCount(b) = b.size - Len(b.bytes) /\ b.size < Wrap
    BY SaneLengths
  <1>2. Len(b.bytes) + Len(new) <= b.size
    BY <1>1
  <1> DEFINE bytes == b.bytes \o new
             c == AddWritePos(b, new)
  <1>3. bytes \in Seq(Int) /\ Len(bytes) = Len(b.bytes) + Len(new)
    BY <1>1, ConcatProperties
  <1>4. c = [b EXCEPT !.bytes = bytes]
    BY <1>2 DEF AddWritePos
  <1>5. c = [bytes |-> bytes, read |-> b.read, size |-> b.size]
    BY <1>4 DEF Sane, Buf
  <1>6. Held(c) = Held(b) \o new
    <2>1. Held(c) = SubSeq(b.bytes \o new, b.read + 1, Len(b.bytes \o new))
      <3> HIDE DEF c
      <3>1. c.bytes = b.bytes \o new /\ c.read = b.read
        BY <1>5
      <3> QED  BY <3>1 DEF Held
    <2> QED  BY <1>1, <2>1, DropConcat DEF Held
  <1> HIDE DEF c, bytes
  <1>7. b.read \in 0 .. Len(bytes) /\ Len(bytes) <= b.size
    BY <1>1, <1>2, <1>3
  <1>8. Sane(c)
    BY <1>1, <1>3, <1>5, <1>7, SaneBuf
  <1>9. Length(c) = Length(b) + Len(new)
    <2>1. Length(c) = Len(c.bytes) - c.read /\ c.bytes = bytes /\ c.read = b.read
      BY <1>5, <1>8, SaneLengths
    <2>2. Length(c) = Len(bytes) - b.read
      BY <2>1
    <2> QED  BY <1>1, <1>3, <2>2
  <1> QED  BY <1>5, <1>6, <1>8, <1>9 DEF c

LEMMA AdjustToHeadKeeps ==
    ASSUME NEW b, Sane(b)
    PROVE  /\ Sane(AdjustToHead(b)) /\ AdjustToHead(b).size = b.size
           /\ Length(AdjustToHead(b)) = Length(b) /\ AdjustToHead(b).read = 0
           /\ AdjustToHead(b).bytes = Held(b) /\ Held(AdjustToHead(b)) = Held(b)
  <1>1. /\ b.bytes \in Seq(Int) /\ b.read \in 0 .. Len(b.bytes) /\ b.size \in Nat /\ Length(b) \in Nat
        /\ Length(b) = Len(b.bytes) - b.read /\ Held(b) \in Seq(Int) /\ Len(Held(b)) = Length(b)
        /\ Len(b.bytes) \in Nat /\ Len(b.bytes) <= b.size /\ b.size < Wrap
    BY SaneLengths
  <1> DEFINE c == AdjustToHead(b)
  <1>2. c \in Buf /\ c.bytes = Held(b) /\ c.size = b.size /\ c.read = 0
    BY <1>1 DEF AdjustToHead, Sane, Buf
  <1> HIDE DEF c
  <1>3. Len(Held(b)) \in Nat /\ Len(Held(b)) <= b.size
    BY <1>1
  <1>4. Sane(c)
    BY <1>1, <1>2, <1>3 DEF Sane
  <1>5. Length(c) = Length(b)
    BY <1>1, <1>2, <1>4, SaneLengths
  <1>6. Held(c) = SubSeq(Held(b), 1, Len(Held(b)))
    <2>1. c.bytes = Held(b) /\ c.read = 0
      BY <1>2
    <2> QED  BY <2>1 DEF Held
  <1>7. Held(c) = Held(b)
    BY <1>1, <1>6, SubSeqFull
  <1> QED  BY <1>2, <1>4, <1>5, <1>7 DEF c

\* size_t arithmetic: what is one range too large or too small wraps.
LEMMA ModOver == ASSUME NEW a \in Nat, NEW b \in Nat, a < b PROVE (a + b) % b = a
  <1>1. a + b \in Nat /\ b \in Nat \ {0}
    OBVIOUS
  <1>2. (a + b) % b \in 0 .. b - 1 /\ a + b = b * ((a + b) \div b) + ((a + b) % b)
    BY <1>1
  <1>3. (a + b) \div b = 1
    BY <1>1, Z3
  <1> QED  BY <1>2, <1>3

LEMMA ModUnder == ASSUME NEW a \in Nat, NEW b \in Nat, 0 < a, a < b PROVE (0 - a) % b = b - a
  <1>1. (0 - a) \div b = -1
    BY Z3
  <1>2. 0 - a = b * ((0 - a) \div b) + ((0 - a) % b) /\ (0 - a) % b \in Int
    OBVIOUS
  <1> QED  BY <1>1, <1>2

LEMMA GrowKeeps ==
    ASSUME NEW b, Sane(b), NEW n \in Nat
    PROVE  /\ Grow(b, n) \in Buf /\ Grow(b, n).bytes = b.bytes /\ Grow(b, n).read = b.read
           /\ Grow(b, n).size = (b.size + n) % Wrap /\ Grow(b, n).size < Wrap
           /\ Held(Grow(b, n)) = Held(b)
  <1>1. b.bytes \in Seq(Int) /\ b.read \in 0 .. Len(b.bytes) /\ b.size \in Nat /\ b.size < Wrap
    BY SaneLengths
  <1>2. Wrap \in Nat \ {0}
    BY <1>1, RecvAssumption
  <1>3. (b.size + n) % Wrap \in Nat /\ (b.size + n) % Wrap < Wrap
    BY <1>1, <1>2
  <1> DEFINE c == Grow(b, n)
             size == (b.size + n) % Wrap
  <1>4. c = [b EXCEPT !.size = size]
    BY DEF Grow
  <1> HIDE DEF size
  <1>5. c \in Buf /\ c.bytes = b.bytes /\ c.read = b.read /\ c.size = size
    BY <1>1, <1>3, <1>4 DEF Sane, Buf, size
  <1> HIDE DEF c
  <1>6. Held(c) = Held(b)
    BY <1>5 DEF Held
  <1> QED  BY <1>3, <1>5, <1>6 DEF c, size

\* write() puts the bytes behind those that are held, in a block that is as
\* large as before, or just large enough.
LEMMA WriteKeeps ==
    ASSUME NEW b, Sane(b), NEW new \in Seq(Int), Length(b) + Len(new) < Wrap
    PROVE  /\ Sane(Write(b, new)) /\ Held(Write(b, new)) = Held(b) \o new
           /\ Length(Write(b, new)) = Length(b) + Len(new)
           /\ Write(b, new).size = b.size \/ Write(b, new).size = Length(b) + Len(new)
  <1>1. /\ b.bytes \in Seq(Int) /\ b.read \in 0 .. Len(b.bytes) /\ b.size \in Nat /\ Length(b) \in Nat
        /\ Length(b) = Len(b.bytes) - b.read /\ Len(b.bytes) \in Nat /\ Len(b.bytes) <= b.size
        /\ Len(new) \in Nat /\ Held(b) \in Seq(Int)
    BY SaneLengths
  <1> DEFINE lacks == Len(new) - (b.size - Length(b))
             wide == IF b.size - Length(b) < Len(new) THEN Grow(b, lacks) ELSE b
             c == AdjustToHead(wide)
  <1>2. /\ Sane(wide) /\ Held(wide) = Held(b) /\ Length(b) + Len(new) <= wide.size
        /\ Length(wide) = Length(b) /\ (wide.size = b.size \/ wide.size = Length(b) + Len(new))
    <2>1. CASE b.size - Length(b) < Len(new)
      <3>1. lacks \in Nat /\ b.size + lacks = Length(b) + Len(new) /\ Len(b.bytes) <= b.size + lacks
        BY <1>1, <2>1
      <3>2. (b.size + lacks) % Wrap = Length(b) + Len(new)
        BY <1>1, <3>1, ModSmall, RecvAssumption
      <3> HIDE DEF lacks
      <3>3. /\ wide = Grow(b, lacks)
            /\ wide \in Buf /\ wide.bytes = b.bytes /\ wide.read = b.read
            /\ wide.size = Length(b) + Len(new) /\ wide.size < Wrap /\ Held(wide) = Held(b)
        BY <2>1, <3>1, <3>2, GrowKeeps
      <3> HIDE DEF wide
      <3>4. Sane(wide)
        BY <1>1, <3>1, <3>3 DEF Sane
      <3>5. Length(wide) = Length(b)
        BY <1>1, <3>3, <3>4, SaneLengths
      <3> QED  BY <1>1, <3>3, <3>4, <3>5
    <2>2. CASE ~(b.size - Length(b) < Len(new))
      <3>1. Length(b) + Len(new) <= b.size /\ wide = b
        BY <1>1, <2>2
      <3> QED  BY <3>1
    <2> QED  BY <2>1, <2>2
  <1>3. Write(b, new) = IF WriteValidCount(wide) >= Len(new) THEN AddWritePos(wide, new)
                        ELSE AddWritePos(c, new)
    BY DEF Write
  <1> HIDE DEF wide
  <1>4. CASE WriteValidCount(wide) >= Len(new)
    <2>1. WriteValidCount(wide) \in Nat
      BY <1>2, SaneLengths
    <2>2. Len(new) <= WriteValidCount(wide)
      BY <1>1, <1>4, <2>1
    <2> QED  BY <1>2, <1>3, <1>4, <2>2, AddWritePosKeeps
  <1>5. CASE ~(WriteValidCount(wide) >= Len(new))
    <2>1. /\ Sane(c) /\ c.size = wide.size /\ Held(c) = Held(b) /\ c.bytes = Held(b)
          /\ Length(c) = Length(b)
      BY <1>2, AdjustToHeadKeeps
    <2> HIDE DEF c
    <2>2. WriteValidCount(c) = wide.size - Len(Held(b)) /\ Len(Held(b)) = Length(b)
      BY <2>1, SaneLengths
    <2>3. wide.size \in Nat
      BY <1>2, SaneLengths
    <2>4. Len(new) <= WriteValidCount(c)
      BY <1>1, <1>2, <2>2, <2>3
    <2> QED  BY <1>2, <1>3, <1>5, <2>1, <2>4, AddWritePosKeeps
  <1> QED  BY <1>4, <1>5

-----------------------------------------------------------------------------
(* One turn.                                                                 *)

Limits == max_size \in 0 .. Wrap - 1
IsLimit(limit) == limit \in 0 .. Wrap - 1

\* After a full read the block doubles, or becomes as large as the limit.
LEMMA EnlargedKeeps ==
    ASSUME Limits, NEW b, Sane(b), NEW full \in BOOLEAN, NEW limit, IsLimit(limit),
           limit # max_size => Rereads(b, full)
    PROVE  LET e == Enlarged(b, full, limit)
           IN /\ e \in Buf /\ e.size < Wrap /\ e.bytes = b.bytes /\ e.read = b.read
              /\ Held(e) = Held(b) /\ (e.size = b.size \/ e.size <= limit)
              /\ Overrun(e) => b.size > limit
  <1> DEFINE e == Enlarged(b, full, limit)
  <1>1. b.size \in Nat /\ b.size < Wrap /\ Len(b.bytes) \in Nat /\ Len(b.bytes) <= b.size
    BY SaneLengths
  <1>2. max_size \in Nat /\ max_size < Wrap /\ Wrap \in Nat \ {0} /\ limit \in Nat /\ limit < Wrap
    BY RecvAssumption DEF Limits, IsLimit
  <1>3. CASE ~full
    <2>1. e = b
      BY <1>3 DEF Enlarged
    <2> QED  BY <1>1, <2>1 DEF Overrun, Sane
  <1>4. CASE full
    <2>1. e = Grow(b, GrowLength(b, limit))
      BY <1>4 DEF Enlarged
    <2>2. CASE b.size * 2 <= max_size
      <3>0. limit = max_size
        BY <1>1, <1>2, <2>2 DEF Rereads
      <3>1. GrowLength(b, limit) = b.size /\ (b.size + b.size) % Wrap = b.size + b.size
        BY <1>1, <1>2, <2>2, ModSmall DEF GrowLength
      <3>2. /\ e \in Buf /\ e.bytes = b.bytes /\ e.read = b.read /\ e.size = b.size + b.size
            /\ e.size < Wrap /\ Held(e) = Held(b)
        BY <1>1, <2>1, <3>1, GrowKeeps
      <3> QED  BY <1>1, <1>2, <2>2, <3>0, <3>2 DEF Overrun
    <2>3. CASE ~(b.size * 2 <= max_size)
      <3> DEFINE n == (limit - b.size) % Wrap
      <3>1. GrowLength(b, limit) = n
        BY <2>3 DEF GrowLength
      <3>2. n \in Nat /\ (b.size + n) % Wrap = limit
        <4>1. CASE b.size <= limit
          <5>1. n = limit - b.size
            BY <1>1, <1>2, <4>1, ModSmall
          <5>2. b.size + (limit - b.size) = limit
            BY <1>1, <1>2
          <5>3. n \in Nat
            <6>1. limit - b.size \in Nat
              BY <1>1, <1>2, <4>1
            <6> QED  BY <5>1, <6>1
          <5>4. (b.size + n) % Wrap = limit % Wrap
            BY <5>1, <5>2
          <5> QED  BY <1>2, <5>3, <5>4, ModSmall
        <4>2. CASE ~(b.size <= limit)
          <5> DEFINE d == b.size - limit
          <5>1. d \in Nat /\ 0 < d /\ d < Wrap /\ limit - b.size = 0 - d
            BY <1>1, <1>2, <4>2
          <5>2. (0 - d) % Wrap = Wrap - d
            BY <1>2, <5>1, ModUnder
          <5>3. n = Wrap - d /\ b.size + n = limit + Wrap
            BY <1>1, <1>2, <5>1, <5>2
          <5> HIDE DEF n
          <5>4. n \in Nat
            BY <1>2, <5>1, <5>3
          <5>5. (limit + Wrap) % Wrap = limit
            BY <1>2, ModOver
          <5> QED  BY <5>3, <5>4, <5>5
        <4> QED  BY <4>1, <4>2
      <3> HIDE DEF n
      <3>3. /\ e \in Buf /\ e.bytes = b.bytes /\ e.read = b.read /\ e.size = limit
            /\ e.size < Wrap /\ Held(e) = Held(b)
        BY <2>1, <3>1, <3>2, GrowKeeps
      <3> QED  BY <1>1, <1>2, <3>3 DEF Overrun
    <2> QED  BY <2>2, <2>3
  <1> QED  BY <1>3, <1>4

\* A turn ends with the bytes that are held in place, at the head when there
\* are none or no room is left; or with a block that is too small for them,
\* which takes one that was larger than the limit.
LEMMA LeaveKeeps ==
    ASSUME Limits, NEW b, Sane(b), NEW full \in BOOLEAN, NEW to, Leave(b, full, to)
    PROVE  /\ Limits' /\ lowered' = (lowered \/ (max_size' # max_size /\ max_size' < b.size))
           /\ \/ /\ at' = "broken" /\ b.size > max_size'
                 /\ recv_buffer' \in Buf /\ recv_buffer'.size <= max_size'
              \/ /\ at' = to /\ Sane(recv_buffer') /\ Held(recv_buffer') = Held(b)
                 /\ Length(recv_buffer') = Length(b)
                 /\ Length(recv_buffer') = 0 => recv_buffer'.bytes = <<>>
                 /\ recv_buffer'.size = b.size \/ recv_buffer'.size <= max_size'
  <1>0. PICK limit \in IF Rereads(b, full) THEN {max_size} \cup MaxSizes ELSE {max_size} :
           LET wide == Enlarged(b, full, limit)
           IN /\ max_size' = limit /\ lowered' = (lowered \/ (limit # max_size /\ limit < b.size))
              /\ IF Overrun(wide) THEN recv_buffer' = wide /\ at' = "broken"
                 ELSE recv_buffer' = Settled(wide) /\ at' = to
    BY DEF Leave
  <1> DEFINE e == Enlarged(b, full, limit)
  <1>a. IsLimit(limit) /\ (limit # max_size => Rereads(b, full))
    BY RecvAssumption DEF Limits, IsLimit
  <1>b. /\ Limits' /\ max_size' = limit
        /\ lowered' = (lowered \/ (max_size' # max_size /\ max_size' < b.size))
    BY <1>0, <1>a DEF Limits, IsLimit
  <1>1. /\ e \in Buf /\ e.size < Wrap /\ e.bytes = b.bytes /\ e.read = b.read /\ Held(e) = Held(b)
        /\ e.size = b.size \/ e.size <= limit
        /\ Overrun(e) => b.size > limit
    BY <1>a, EnlargedKeeps
  <1>2. CASE Overrun(e)
    <2>1. b.size \in Nat /\ Len(b.bytes) \in Nat /\ Len(b.bytes) <= b.size
      BY SaneLengths
    <2>2. e.size # b.size
      BY <1>1, <1>2, <2>1 DEF Overrun
    <2>3. recv_buffer' = e /\ at' = "broken"
      BY <1>0, <1>2
    <2> QED  BY <1>b, <1>1, <1>2, <2>2, <2>3
  <1>3. CASE ~Overrun(e)
    <2>1. /\ recv_buffer' = Settled(e) /\ at' = to
      BY <1>0, <1>3
    <2> HIDE DEF e
    <2>2. Sane(e)
      <3>1. Len(e.bytes) \in Nat /\ e.size \in Nat /\ e.read <= Len(e.bytes)
        BY <1>1, SaneLengths DEF Buf, Sane
      <3> QED  BY <1>1, <1>3, <3>1 DEF Overrun, Sane
    <2>3. Length(e) = Length(b)
      BY <1>1, <2>2, SaneLengths
    <2>4. CASE WriteValidCount(e) = 0 \/ Length(e) = 0
      <3>1. recv_buffer' = AdjustToHead(e)
        BY <2>1, <2>4 DEF Settled
      <3>2. Length(e) = 0 => Held(e) = <<>>
        BY <2>2, SaneLengths, EmptySeq
      <3> QED  BY <1>b, <1>1, <2>1, <2>2, <2>3, <3>1, <3>2, AdjustToHeadKeeps
    <2>5. CASE ~(WriteValidCount(e) = 0 \/ Length(e) = 0)
      <3>1. recv_buffer' = e
        BY <2>1, <2>5 DEF Settled
      <3> QED  BY <1>b, <1>1, <2>1, <2>2, <2>3, <2>5, <3>1
    <2> QED  BY <2>4, <2>5
  <1> QED  BY <1>2, <1>3

\* The callback takes from both; what it leaves of the block stays behind.
LEMMA CallBackKeeps ==
    ASSUME NEW b, Sane(b), NEW rest \in Seq(Int), Length(b) + Len(rest) < Wrap,
           NEW n \in 0 .. Length(b), NEW k \in 0 .. Len(rest), k > 0 => n = Length(b)
    PROVE  /\ Sane(CallBack(b, rest, n, k))
           /\ Held(CallBack(b, rest, n, k))
                 = SubSeq(Held(b), n + 1, Len(Held(b))) \o SubSeq(rest, k + 1, Len(rest))
           /\ Length(CallBack(b, rest, n, k)) = (Length(b) - n) + (Len(rest) - k)
           /\ \/ CallBack(b, rest, n, k).size = b.size
              \/ CallBack(b, rest, n, k).size = Length(CallBack(b, rest, n, k))
  <1> DEFINE r == RemoveLength(b, n)
             c == CallBack(b, rest, n, k)
             h == SubSeq(Held(b), n + 1, Len(Held(b)))
             t == SubSeq(rest, k + 1, Len(rest))
  <1>1. Length(b) \in Nat /\ Len(rest) \in Nat /\ n \in Nat /\ k \in Nat /\ n <= Length(b) /\ k <= Len(rest)
    BY SaneLengths
  <1>2. Sane(r) /\ r.size = b.size /\ Length(r) = Length(b) - n /\ Held(r) = h
    BY RemoveLengthKeeps
  <1>3. t \in Seq(Int) /\ Len(t) = Len(rest) - k
    BY Splits
  <1>4. h \in Seq(Int)
    BY <1>2, SaneLengths
  <1>5. Length(r) + Len(t) < Wrap /\ Length(r) + Len(rest) < Wrap
    BY <1>1, <1>2, <1>3, RecvAssumption
  <1> HIDE DEF r, h
  <1>6. CASE n < Length(b) \/ rest = <<>>
    <2>1. c = Write(r, rest) /\ k = 0
      BY <1>1, <1>6, EmptySeq DEF CallBack, r
    <2>2. t = rest
      BY <2>1, SubSeqFull
    <2> HIDE DEF c, t
    <2>3. Sane(c) /\ Held(c) = h \o t /\ Length(c) = Length(r) + Len(t) /\ (c.size = r.size \/ c.size = Length(c))
      BY <1>2, <1>5, <2>1, <2>2, WriteKeeps
    <2> QED  BY <1>2, <1>3, <2>3 DEF c, t, h
  <1>7. CASE ~(n < Length(b) \/ rest = <<>>) /\ k = Len(rest)
    <2>1. c = r
      BY <1>7 DEF CallBack, r
    <2>2. t = <<>>
      BY <1>3, <1>1, <1>7, EmptySeq
    <2> HIDE DEF c, t
    <2>3. h \o t = h
      BY <1>4, <2>2, ConcatEmptySeq
    <2>4. Length(c) = (Length(b) - n) + (Len(rest) - k)
      BY <1>1, <1>2, <1>7, <2>1
    <2> QED  BY <1>2, <2>1, <2>3, <2>4 DEF c, t, h
  <1>8. CASE ~(n < Length(b) \/ rest = <<>>) /\ k # Len(rest)
    <2>1. c = Write(r, t)
      BY <1>8 DEF CallBack, r
    <2> HIDE DEF c, t
    <2>2. Sane(c) /\ Held(c) = h \o t /\ Length(c) = Length(r) + Len(t) /\ (c.size = r.size \/ c.size = Length(c))
      BY <1>2, <1>3, <1>5, <2>1, WriteKeeps
    <2> QED  BY <1>2, <1>3, <2>2 DEF c, t, h
  <1> QED  BY <1>6, <1>7, <1>8

LEMMA Associates ==
    \A x, y, z \in Seq(Int) : (x \o y) \o z = x \o (y \o z)
  BY ConcatAssociative

LEMMA TakeBoth ==
    ASSUME NEW c \in Seq(Int), NEW h \in Seq(Int), NEW r \in Seq(Int),
           NEW n \in 0 .. Len(h), NEW k \in 0 .. Len(r), k > 0 => n = Len(h)
    PROVE  /\ c \o SubSeq(h, 1, n) \o SubSeq(r, 1, k) \in Seq(Int)
           /\ (c \o SubSeq(h, 1, n) \o SubSeq(r, 1, k))
                 \o (SubSeq(h, n + 1, Len(h)) \o SubSeq(r, k + 1, Len(r))) = (c \o h) \o r
  <1> DEFINE h1 == SubSeq(h, 1, n)
             h2 == SubSeq(h, n + 1, Len(h))
             r1 == SubSeq(r, 1, k)
             r2 == SubSeq(r, k + 1, Len(r))
  <1>1. h1 \in Seq(Int) /\ h2 \in Seq(Int) /\ h1 \o h2 = h /\ Len(h2) = Len(h) - n
    BY Splits
  <1>2. r1 \in Seq(Int) /\ r2 \in Seq(Int) /\ r1 \o r2 = r /\ Len(r1) = k
    BY Splits
  <1>3. r1 = <<>> \/ h2 = <<>>
    <2>1. CASE k = 0
      BY <1>2, <2>1, EmptySeq
    <2>2. CASE k # 0
      <3>1. Len(h) \in Nat /\ k > 0
        BY <2>2
      <3>2. Len(h2) = 0
        BY <1>1, <3>1
      <3> QED  BY <1>1, <3>2, EmptySeq
    <2> QED  BY <2>1, <2>2
  <1> HIDE DEF h1, h2, r1, r2
  <1>4. /\ c \o h \in Seq(Int) /\ c \o h1 \in Seq(Int)
        /\ (c \o h1) \o r1 \in Seq(Int) /\ h2 \o r2 \in Seq(Int)
    BY <1>1, <1>2, ConcatProperties, ZenonT(40)
  <1>5. (c \o h1) \o h2 = c \o h
    BY <1>1, Associates, ZenonT(40)
  <1>6. CASE r1 = <<>>
    <2>1. (c \o h1) \o r1 = c \o h1 /\ r2 = r
      BY <1>2, <1>4, <1>6, ConcatEmptySeq
    <2>2. (c \o h1) \o (h2 \o r) = ((c \o h1) \o h2) \o r
      <3> DEFINE p == c \o h1
      <3>1. p \in Seq(Int)
        BY <1>4
      <3> HIDE DEF p
      <3>2. p \o (h2 \o r) = (p \o h2) \o r
        BY <1>1, <3>1, Associates, ZenonT(40)
      <3> QED  BY <3>2 DEF p
    <2> QED  BY <1>4, <1>5, <2>1, <2>2 DEF h1, h2, r1, r2
  <1>7. CASE h2 = <<>>
    <2>1. h2 \o r2 = r2 /\ h1 = h
      BY <1>1, <1>2, <1>7, ConcatEmptySeq
    <2>2. ((c \o h) \o r1) \o r2 = (c \o h) \o (r1 \o r2)
      <3> DEFINE p == c \o h
      <3>1. p \in Seq(Int)
        BY <1>4
      <3> HIDE DEF p
      <3>2. (p \o r1) \o r2 = p \o (r1 \o r2)
        BY <1>2, <3>1, Associates, ZenonT(40)
      <3> QED  BY <3>2 DEF p
    <2> QED  BY <1>2, <1>4, <2>1, <2>2 DEF h1, h2, r1, r2
  <1> QED  BY <1>3, <1>6, <1>7

LEMMA NumbersSeq ==
    ASSUME NEW a \in Nat, NEW b \in Nat, a <= b
    PROVE  /\ Numbers(a, b) \in Seq(Int) /\ Len(Numbers(a, b)) = b - a
           /\ \A i \in 1 .. b - a : Numbers(a, b)[i] = a + i
  <1>1. b - a \in Nat /\ \A i \in 1 .. b - a : a + i \in Int
    OBVIOUS
  <1>2. [i \in 1 .. b - a |-> a + i] \in Seq(Int)
    BY <1>1
  <1> QED  BY <1>1, <1>2 DEF Numbers

LEMMA NumbersJoin ==
    ASSUME NEW a \in Nat, NEW b \in Nat, NEW c \in Nat, a <= b, b <= c
    PROVE  Numbers(a, b) \o Numbers(b, c) = Numbers(a, c)
  <1> DEFINE u == Numbers(a, b)
             v == Numbers(b, c)
             w == Numbers(a, c)
             uv == u \o v
  <1>1. u \in Seq(Int) /\ Len(u) = b - a /\ \A i \in 1 .. b - a : u[i] = a + i
    BY NumbersSeq
  <1>2. v \in Seq(Int) /\ Len(v) = c - b /\ \A i \in 1 .. c - b : v[i] = b + i
    BY NumbersSeq
  <1>3. w \in Seq(Int) /\ Len(w) = c - a /\ \A i \in 1 .. c - a : w[i] = a + i
    BY NumbersSeq
  <1> HIDE DEF u, v, w
  <1>4. /\ uv \in Seq(Int) /\ Len(uv) = Len(u) + Len(v)
        /\ \A i \in 1 .. Len(u) + Len(v) : uv[i] = IF i <= Len(u) THEN u[i] ELSE v[i - Len(u)]
    BY <1>1, <1>2, ConcatProperties
  <1> HIDE DEF uv
  <1>5. \A i \in 1 .. Len(uv) : uv[i] = w[i]
    <2> SUFFICES ASSUME NEW i \in 1 .. Len(uv) PROVE uv[i] = w[i]
      OBVIOUS
    <2>1. i \in 1 .. Len(u) + Len(v) /\ i \in 1 .. c - a
      BY <1>1, <1>2, <1>4
    <2>2. w[i] = a + i
      BY <1>3, <2>1
    <2>3. CASE i <= Len(u)
      <3>1. i \in 1 .. b - a /\ uv[i] = u[i]
        BY <1>1, <1>4, <2>1, <2>3
      <3> QED  BY <1>1, <2>2, <3>1
    <2>4. CASE ~(i <= Len(u))
      <3>1. i - Len(u) \in 1 .. c - b /\ uv[i] = v[i - Len(u)] /\ b + (i - Len(u)) = a + i
        BY <1>1, <1>2, <1>4, <2>1, <2>4
      <3> QED  BY <1>2, <2>2, <3>1
    <2> QED  BY <2>3, <2>4
  <1>6. Len(uv) = Len(w)
    BY <1>1, <1>2, <1>3, <1>4
  <1>7. uv = w
    BY <1>3, <1>4, <1>5, <1>6, SeqEqual
  <1> QED  BY <1>7 DEF u, v, w, uv

-----------------------------------------------------------------------------
(* The invariant.                                                            *)

RTypeOK ==
    /\ max_size \in 0 .. Wrap - 1 /\ has_callback \in BOOLEAN /\ skipped \in BOOLEAN
    /\ arrived \in 0 .. MaxBytes /\ taken \in 0 .. arrived /\ over \in BOOLEAN
    /\ lowered \in BOOLEAN /\ consumed \in Seq(Int) /\ recv_buffer \in Buf

\* Between two turns an empty buffer is at its head; that is why the size_t(-1)
\* of EAGAIN never takes the write position below the read position.
BlockOK ==
    /\ at = "broken" \/ recv_buffer.size > max_size => lowered \/ (over /\ channel = "epoll")
    /\ at # "broken" => /\ Sane(recv_buffer) /\ Length(recv_buffer) <= taken
                        /\ Length(recv_buffer) = 0 => recv_buffer.bytes = <<>>

RInv == RTypeOK /\ BlockOK /\ StreamKept

\* What a turn has to leave for the invariant to hold again: b is what the
\* buffer holds before it is enlarged and settled.
LEMMA TurnEnds ==
    ASSUME RInv, NEW b, Sane(b), NEW full \in BOOLEAN, NEW to, Leave(b, full, to), to # "broken",
           taken' \in 0 .. arrived', arrived' \in 0 .. MaxBytes, Length(b) <= taken',
           consumed' \in Seq(Int), skipped' \in BOOLEAN,
           UNCHANGED <<channel, has_callback>>,
           over' \in BOOLEAN, over => over',
           b.size = recv_buffer.size \/ (channel = "epoll" /\ (b.size > max_size => over')),
           ~skipped' => consumed' \o Held(b) = Numbers(0, taken')
    PROVE  RInv'
  <1>1. Limits /\ max_size \in Nat /\ lowered \in BOOLEAN /\ over \in BOOLEAN
    BY RecvAssumption DEF RInv, RTypeOK, Limits
  <1>2. /\ Limits' /\ lowered' = (lowered \/ (max_size' # max_size /\ max_size' < b.size))
        /\ \/ /\ at' = "broken" /\ b.size > max_size'
              /\ recv_buffer' \in Buf /\ recv_buffer'.size <= max_size'
           \/ /\ at' = to /\ Sane(recv_buffer') /\ Held(recv_buffer') = Held(b)
              /\ Length(recv_buffer') = Length(b)
              /\ Length(recv_buffer') = 0 => recv_buffer'.bytes = <<>>
              /\ recv_buffer'.size = b.size \/ recv_buffer'.size <= max_size'
    BY <1>1, LeaveKeeps
  <1>3. b.size \in Nat /\ max_size' \in Nat /\ lowered' \in BOOLEAN
    BY <1>1, <1>2, SaneLengths, RecvAssumption DEF Limits
  <1>4. b.size > max_size' => lowered' \/ (over' /\ channel' = "epoll")
    <2> SUFFICES ASSUME b.size > max_size', ~lowered' PROVE over' /\ channel' = "epoll"
      OBVIOUS
    <2>1. ~lowered /\ max_size' = max_size /\ b.size > max_size
      BY <1>1, <1>2, <1>3
    <2> QED  BY <1>1, <2>1 DEF RInv, BlockOK
  <1>5. recv_buffer' \in Buf /\ recv_buffer'.size \in Nat
    BY <1>2 DEF Sane, Buf
  <1>6. RTypeOK'
    BY <1>1, <1>2, <1>3, <1>5 DEF RInv, RTypeOK, Limits
  <1>7. BlockOK'
    BY <1>2, <1>3, <1>4, <1>5 DEF BlockOK
  <1>8. StreamKept'
    BY <1>2 DEF StreamKept
  <1> QED  BY <1>6, <1>7, <1>8 DEF RInv

LEMMA RInit == RecvInit => RInv
  <1> SUFFICES ASSUME RecvInit PROVE RInv
    OBVIOUS
  <1>1. recv_buffer = [bytes |-> <<>>, read |-> 0, size |-> MinBufferSize]
    BY DEF RecvInit, NewBuffer, Most
  <1>2. /\ max_size \in MinBufferSize .. Wrap - 1 /\ max_size \in Nat /\ MinBufferSize \in Nat /\ Wrap \in Nat
        /\ MaxBytes \in 0 .. Wrap - 1
    BY RecvAssumption DEF RecvInit
  <1>3. <<>> \in Seq(Int) /\ Len(<<>>) = 0
    BY EmptySeq
  <1>4. recv_buffer \in Buf /\ Sane(recv_buffer)
    BY <1>1, <1>2, <1>3 DEF Buf, Sane
  <1>5. Length(recv_buffer) = 0 /\ Held(recv_buffer) = <<>>
    <2>1. Length(recv_buffer) = 0 /\ Held(recv_buffer) \in Seq(Int) /\ Len(Held(recv_buffer)) = 0
      BY <1>1, <1>3, <1>4, SaneLengths
    <2> QED  BY <2>1, EmptySeq
  <1>6. RTypeOK
    <2>1. max_size \in 0 .. Wrap - 1 /\ 0 \in 0 .. MaxBytes
      BY <1>2
    <2>2. /\ arrived = 0 /\ taken = 0 /\ consumed = <<>>
          /\ over \in BOOLEAN /\ lowered \in BOOLEAN /\ has_callback \in BOOLEAN /\ skipped \in BOOLEAN
      BY DEF RecvInit
    <2> QED  BY <1>3, <1>4, <2>1, <2>2 DEF RTypeOK
  <1>7. BlockOK
    BY <1>1, <1>2, <1>4, <1>5 DEF RecvInit, BlockOK
  <1>8. StreamKept
    <2>1. Numbers(0, 0) \in Seq(Int) /\ Len(Numbers(0, 0)) = 0 - 0
      BY NumbersSeq
    <2>2. Numbers(0, 0) = <<>> /\ consumed = <<>> /\ taken = 0
      BY <2>1, EmptySeq DEF RecvInit
    <2>3. <<>> \o <<>> = <<>>
      BY <1>3, ConcatEmptySeq
    <2> QED  BY <1>5, <2>2, <2>3 DEF StreamKept
  <1> QED  BY <1>6, <1>7, <1>8 DEF RInv

LEMMA QuietSteps ==
    ASSUME RInv, PeerSends \/ SetDataCallback \/ SetMaxRecvBufferSize \/ OnRecv \/ UNCHANGED recvVars
    PROVE  RInv'
  <1> USE DEF RInv, RTypeOK, BlockOK, StreamKept
  <1>1. CASE PeerSends
    <2>1. arrived' \in 0 .. MaxBytes /\ arrived' > arrived
      BY <1>1, RecvAssumption DEF PeerSends
    <2> QED  BY <1>1, <2>1, RecvAssumption DEF PeerSends
  <1>2. CASE SetDataCallback
    BY <1>2 DEF SetDataCallback
  <1>3. CASE OnRecv
    BY <1>3 DEF OnRecv
  <1>4. CASE UNCHANGED recvVars
    BY <1>4 DEF recvVars
  <1>5. CASE SetMaxRecvBufferSize
    <2>1. PICK size \in MaxSizes : /\ max_size' = size
                                  /\ lowered' = (lowered \/ size < recv_buffer.size)
      BY <1>5 DEF SetMaxRecvBufferSize
    <2>2. /\ UNCHANGED <<channel, has_callback, recv_buffer, at, arrived, taken, consumed, over, skipped>>
          /\ size \in 0 .. Wrap - 1 /\ size \in Nat /\ recv_buffer.size \in Nat
      BY <1>5, RecvAssumption DEF SetMaxRecvBufferSize, Buf
    <2> QED  BY <2>1, <2>2
  <1> QED  BY <1>1, <1>2, <1>3, <1>4, <1>5

LEMMA WsaRecvStep == ASSUME RInv, WsaRecvCompletes PROVE RInv'
  <1> DEFINE post_len == WriteValidCount(recv_buffer)
  <1>1. CASE post_len = 0
    BY <1>1 DEF WsaRecvCompletes, RInv, RTypeOK, BlockOK, StreamKept
  <1>2. CASE post_len # 0
    <2>1. Sane(recv_buffer) /\ Length(recv_buffer) <= taken /\ consumed \in Seq(Int)
          /\ taken \in Nat /\ arrived \in Nat /\ taken <= arrived /\ over \in BOOLEAN
          /\ has_callback \in BOOLEAN /\ skipped \in BOOLEAN
      BY RecvAssumption DEF WsaRecvCompletes, RInv, RTypeOK, BlockOK
    <2>2. post_len \in Nat /\ Length(recv_buffer) \in Nat /\ Held(recv_buffer) \in Seq(Int)
      BY <2>1, SaneLengths
    <2>3. PICK n \in 1 .. Least(post_len, arrived - taken) :
             LET b == AddWritePos(recv_buffer, Numbers(taken, taken + n))
             IN /\ taken' = taken + n
                /\ \E k \in 0 .. Length(b) :
                      /\ k > 0 => has_callback
                      /\ consumed' = consumed \o SubSeq(Held(b), 1, k)
                      /\ over' = (over \/ Length(b) - k > max_size)
                      /\ Leave(RemoveLength(b, k), n = post_len, "idle")
      BY <1>2 DEF WsaRecvCompletes
    <2>4. n \in Nat /\ n <= post_len /\ n <= arrived - taken
      BY <2>1, <2>2, <2>3 DEF Least
    <2> DEFINE new == Numbers(taken, taken + n)
               b == AddWritePos(recv_buffer, new)
    <2>5. new \in Seq(Int) /\ Len(new) = n /\ Numbers(0, taken) \o new = Numbers(0, taken + n)
          /\ Numbers(0, taken) \in Seq(Int)
      <3>1. taken + n \in Nat /\ taken <= taken + n /\ 0 \in Nat /\ 0 <= taken
        BY <2>1, <2>4
      <3>2. new \in Seq(Int) /\ Len(new) = (taken + n) - taken
        BY <2>1, <3>1, NumbersSeq
      <3>3. Numbers(0, taken) \in Seq(Int)
        BY <2>1, <3>1, NumbersSeq
      <3>4. Numbers(0, taken) \o new = Numbers(0, taken + n)
        BY <2>1, <3>1, NumbersJoin
      <3> QED  BY <2>1, <2>4, <3>2, <3>3, <3>4
    <2>6. Sane(b) /\ b.size = recv_buffer.size /\ Length(b) = Length(recv_buffer) + n
          /\ Held(b) = Held(recv_buffer) \o new
      <3> HIDE DEF new
      <3> QED  BY <2>1, <2>4, <2>5, AddWritePosKeeps
    <2>7. Held(b) \in Seq(Int) /\ Len(Held(b)) = Length(b)
      BY <2>6, SaneLengths
    <2>8. PICK k \in 0 .. Length(b) :
             /\ consumed' = consumed \o SubSeq(Held(b), 1, k)
             /\ over' = (over \/ Length(b) - k > max_size)
             /\ Leave(RemoveLength(b, k), n = post_len, "idle")
      BY <2>3
    <2> HIDE DEF b, new
    <2> DEFINE c == RemoveLength(b, k)
               full == n = post_len
    <2>9. Sane(c) /\ c.size = b.size /\ Length(c) = Length(b) - k
          /\ Held(c) = SubSeq(Held(b), k + 1, Len(Held(b)))
      BY <2>6, RemoveLengthKeeps
    <2> HIDE DEF c
    <2>10. /\ taken' = taken + n /\ taken' \in 0 .. arrived' /\ arrived' \in 0 .. MaxBytes
           /\ UNCHANGED <<channel, has_callback, skipped>>
      BY <1>2, <2>1, <2>3, <2>4, RecvAssumption DEF WsaRecvCompletes, RInv, RTypeOK
    <2>11. Length(c) <= taken' /\ over' \in BOOLEAN /\ (over => over')
      BY <2>1, <2>2, <2>4, <2>6, <2>8, <2>9, <2>10
    <2>12. consumed' \in Seq(Int) /\ consumed' \o Held(c) = consumed \o Held(b)
      <3>1. k \in 0 .. Len(Held(b))
        BY <2>7
      <3>2. /\ SubSeq(Held(b), 1, k) \in Seq(Int) /\ Held(c) \in Seq(Int)
            /\ SubSeq(Held(b), 1, k) \o Held(c) = Held(b)
        BY <2>7, <2>9, <3>1, Splits
      <3>3. consumed \o SubSeq(Held(b), 1, k) \in Seq(Int)
        BY <2>1, <3>2, ConcatProperties
      <3>4. (consumed \o SubSeq(Held(b), 1, k)) \o Held(c) = consumed \o Held(b)
        <4> DEFINE p == SubSeq(Held(b), 1, k)
        <4>1. p \in Seq(Int) /\ Held(c) \in Seq(Int) /\ p \o Held(c) = Held(b)
          BY <3>2
        <4> HIDE DEF p
        <4>2. (consumed \o p) \o Held(c) = consumed \o (p \o Held(c))
          BY <2>1, <4>1, Associates
        <4> QED  BY <4>1, <4>2 DEF p
      <3> QED  BY <2>8, <3>3, <3>4
    <2>13. ~skipped' => consumed' \o Held(c) = Numbers(0, taken')
      <3> SUFFICES ASSUME ~skipped PROVE consumed \o Held(b) = Numbers(0, taken + n)
        BY <2>10, <2>12
      <3>1. consumed \o Held(recv_buffer) = Numbers(0, taken)
        BY DEF RInv, StreamKept, WsaRecvCompletes
      <3>2. consumed \o (Held(recv_buffer) \o new) = (consumed \o Held(recv_buffer)) \o new
        BY <2>1, <2>2, <2>5, Associates
      <3> QED  BY <2>5, <2>6, <3>1, <3>2
    <2>14. Leave(c, full, "idle") /\ full \in BOOLEAN
      BY <2>8 DEF c
    <2> HIDE DEF full
    <2>15. skipped' \in BOOLEAN /\ c.size = recv_buffer.size
      BY <2>1, <2>6, <2>9, <2>10
    <2> QED  BY <2>9, <2>10, <2>11, <2>12, <2>13, <2>14, <2>15, TurnEnds
  <1> QED  BY <1>1, <1>2

\* After EAGAIN the last byte of an unread rest is gone; nothing else is.
LEMMA MinusOneKeeps ==
    ASSUME NEW b, Sane(b), Length(b) = 0 => b.bytes = <<>>
    PROVE  LET c == AddWritePosMinusOne(b)
           IN /\ Sane(c) /\ c.size = b.size /\ Length(c) <= Length(b)
              /\ Length(b) = 0 => c = b
  <1> DEFINE c == AddWritePosMinusOne(b)
  <1>1. /\ b.bytes \in Seq(Int) /\ b.read \in 0 .. Len(b.bytes) /\ b.size \in Nat /\ Length(b) \in Nat
        /\ Length(b) = Len(b.bytes) - b.read /\ Len(b.bytes) \in Nat
        /\ Len(b.bytes) <= b.size /\ b.size < Wrap
    BY SaneLengths
  <1>2. CASE b.bytes = <<>>
    <2>1. c = b
      BY <1>2 DEF AddWritePosMinusOne
    <2> QED  BY <1>1, <2>1
  <1>3. CASE b.bytes # <<>>
    <2> DEFINE l == Len(b.bytes) - 1
               bytes == SubSeq(b.bytes, 1, l)
    <2>1. Length(b) # 0 /\ b.read <= l /\ l \in 0 .. Len(b.bytes)
      BY <1>1, <1>3
    <2>2. bytes \in Seq(Int) /\ Len(bytes) = l
      BY <1>1, <2>1, Splits
    <2>3. c = [b EXCEPT !.bytes = bytes]
      BY <1>3 DEF AddWritePosMinusOne
    <2> HIDE DEF bytes
    <2>4. c \in Buf /\ c.bytes = bytes /\ c.read = b.read /\ c.size = b.size
      BY <2>2, <2>3 DEF Sane, Buf
    <2> HIDE DEF c
    <2>5. Sane(c)
      BY <1>1, <2>1, <2>2, <2>4 DEF Sane
    <2>6. Length(c) = Len(c.bytes) - c.read
      BY <2>5, SaneLengths
    <2>7. Length(c) <= Length(b)
      BY <1>1, <2>2, <2>4, <2>6
    <2> QED  BY <2>1, <2>4, <2>5, <2>7 DEF c
  <1> QED  BY <1>2, <1>3

LEMMA ReadvAgainStep == ASSUME RInv, ReadvAgain PROVE RInv'
  <1>1. /\ Sane(recv_buffer) /\ Length(recv_buffer) <= taken /\ consumed \in Seq(Int)
        /\ Length(recv_buffer) = 0 => recv_buffer.bytes = <<>>
        /\ taken \in Nat /\ taken \in 0 .. arrived /\ arrived \in 0 .. MaxBytes /\ over \in BOOLEAN
        /\ has_callback \in BOOLEAN /\ skipped \in BOOLEAN
    BY RecvAssumption DEF ReadvAgain, RInv, RTypeOK, BlockOK
  <1> DEFINE b == AddWritePosMinusOne(recv_buffer)
  <1>2. /\ Sane(b) /\ b.size = recv_buffer.size /\ Length(b) <= Length(recv_buffer)
        /\ Length(recv_buffer) = 0 => b = recv_buffer
    BY <1>1, MinusOneKeeps
  <1>3. PICK n \in 0 .. Length(b) : /\ consumed' = consumed \o SubSeq(Held(b), 1, n)
                                    /\ Leave(RemoveLength(b, n), FALSE, "idle")
    BY DEF ReadvAgain
  <1>4. /\ skipped' = (skipped \/ Length(recv_buffer) > 0)
        /\ UNCHANGED <<channel, has_callback, arrived, taken, over>>
    BY DEF ReadvAgain
  <1> HIDE DEF b
  <1> DEFINE c == RemoveLength(b, n)
  <1>5. /\ Sane(c) /\ c.size = b.size /\ Length(c) = Length(b) - n
        /\ Held(c) = SubSeq(Held(b), n + 1, Len(Held(b)))
    BY <1>2, RemoveLengthKeeps
  <1>6. /\ Length(b) \in Nat /\ Length(recv_buffer) \in Nat
        /\ Held(b) \in Seq(Int) /\ Len(Held(b)) = Length(b)
    BY <1>1, <1>2, SaneLengths
  <1>7. Leave(c, FALSE, "idle")
    BY <1>3
  <1> HIDE DEF c
  <1>8. Length(c) <= taken' /\ skipped' \in BOOLEAN
    BY <1>1, <1>2, <1>4, <1>5, <1>6
  <1>9. consumed' \in Seq(Int) /\ consumed' \o Held(c) = consumed \o Held(b)
    <2> DEFINE p == SubSeq(Held(b), 1, n)
    <2>1. n \in 0 .. Len(Held(b))
      BY <1>6
    <2>2. p \in Seq(Int) /\ Held(c) \in Seq(Int) /\ p \o Held(c) = Held(b)
      BY <1>5, <1>6, <2>1, Splits
    <2> HIDE DEF p
    <2>3. (consumed \o p) \o Held(c) = consumed \o (p \o Held(c)) /\ consumed \o p \in Seq(Int)
      BY <1>1, <2>2, Associates, ConcatProperties
    <2> QED  BY <1>3, <2>2, <2>3 DEF p
  <1>10. ~skipped' => consumed' \o Held(c) = Numbers(0, taken')
    <2> SUFFICES ASSUME ~skipped' PROVE consumed \o Held(b) = Numbers(0, taken)
      BY <1>4, <1>9
    <2>1. ~skipped /\ ~(Length(recv_buffer) > 0)
      BY <1>4, Zenon
    <2>2. Length(recv_buffer) = 0
      BY <1>6, <2>1
    <2> QED  BY <1>2, <2>1, <2>2 DEF RInv, StreamKept, ReadvAgain
  <1>11. taken' \in 0 .. arrived' /\ arrived' \in 0 .. MaxBytes /\ over' \in BOOLEAN /\ (over => over')
    BY <1>1, <1>4
  <1> QED  BY <1>2, <1>4, <1>5, <1>7, <1>8, <1>9, <1>10, <1>11, TurnEnds

LEMMA ReadvStep == ASSUME RInv, Readv PROVE RInv'
  <1> DEFINE valid == WriteValidCount(recv_buffer)
             n == Least(arrived - taken, valid + StackSize)
             direct == Least(n, valid)
             new == Numbers(taken, taken + direct)
             rest == Numbers(taken + direct, taken + n)
             b == AddWritePos(recv_buffer, new)
             to == IF n < valid + StackSize THEN "idle" ELSE "reading"
  <1>1. /\ Sane(recv_buffer) /\ Length(recv_buffer) <= taken /\ consumed \in Seq(Int)
        /\ taken \in Nat /\ taken \in 0 .. arrived /\ arrived \in 0 .. MaxBytes /\ over \in BOOLEAN
        /\ has_callback \in BOOLEAN /\ skipped \in BOOLEAN /\ StackSize \in Nat /\ arrived \in Nat
    BY RecvAssumption DEF Readv, RInv, RTypeOK, BlockOK
  <1>2. /\ valid \in Nat /\ Length(recv_buffer) \in Nat /\ Held(recv_buffer) \in Seq(Int)
        /\ recv_buffer.size \in Nat
    BY <1>1, SaneLengths
  <1>3. /\ n > 0 /\ taken' = taken + n /\ Turn(b, rest, n, to) /\ to # "broken"
        /\ UNCHANGED <<channel, has_callback, arrived>> /\ channel = "epoll"
    BY DEF Readv
  <1> HIDE DEF valid, to
  <1>4. n \in Nat /\ n <= arrived - taken
    BY <1>1, <1>2 DEF Least
  <1> HIDE DEF n
  <1>5. direct \in Nat /\ direct <= n /\ direct <= valid
    BY <1>2, <1>4 DEF Least
  <1> HIDE DEF direct
  <1>6. /\ new \in Seq(Int) /\ Len(new) = direct /\ rest \in Seq(Int) /\ Len(rest) = n - direct
        /\ Numbers(0, taken) \in Seq(Int)
        /\ (Numbers(0, taken) \o new) \o rest = Numbers(0, taken + n)
    <2>1. /\ taken + direct \in Nat /\ taken + n \in Nat /\ taken <= taken + direct
          /\ taken + direct <= taken + n /\ 0 \in Nat /\ 0 <= taken /\ 0 <= taken + direct
      BY <1>1, <1>4, <1>5
    <2>2. new \in Seq(Int) /\ Len(new) = (taken + direct) - taken
      BY <1>1, <2>1, NumbersSeq
    <2>3. rest \in Seq(Int) /\ Len(rest) = (taken + n) - (taken + direct)
      BY <2>1, NumbersSeq
    <2>4. Numbers(0, taken) \in Seq(Int)
      BY <1>1, <2>1, NumbersSeq
    <2>5. Numbers(0, taken) \o new = Numbers(0, taken + direct)
      BY <1>1, <2>1, NumbersJoin
    <2>6. Numbers(0, taken + direct) \o rest = Numbers(0, taken + n)
      BY <2>1, NumbersJoin
    <2>7. Len(new) = direct /\ Len(rest) = n - direct
      BY <1>1, <1>4, <1>5, <2>2, <2>3
    <2> HIDE DEF new, rest
    <2> QED  BY <2>2, <2>3, <2>4, <2>5, <2>6, <2>7
  <1> HIDE DEF new, rest
  <1>7. /\ Sane(b) /\ b.size = recv_buffer.size /\ Length(b) = Length(recv_buffer) + direct
        /\ Held(b) = Held(recv_buffer) \o new
    BY <1>1, <1>5, <1>6, AddWritePosKeeps DEF valid
  <1> HIDE DEF b
  <1>8. /\ Held(b) \in Seq(Int) /\ Len(Held(b)) = Length(b) /\ Length(b) \in Nat
        /\ b.size \in Nat
    BY <1>7, SaneLengths
  <1>9. ~skipped => (consumed \o Held(b)) \o rest = Numbers(0, taken + n)
    <2> SUFFICES ASSUME ~skipped PROVE (consumed \o Held(b)) \o rest = Numbers(0, taken + n)
      OBVIOUS
    <2>1. consumed \o Held(recv_buffer) = Numbers(0, taken)
      BY DEF RInv, StreamKept, Readv
    <2>2. consumed \o (Held(recv_buffer) \o new) = (consumed \o Held(recv_buffer)) \o new
      BY <1>1, <1>2, <1>6, Associates
    <2> QED  BY <1>6, <1>7, <2>1, <2>2
  <1>10. /\ taken' \in 0 .. arrived' /\ arrived' \in 0 .. MaxBytes
         /\ Length(b) + Len(rest) <= taken' /\ Length(b) + Len(rest) < Wrap /\ Len(rest) \in Nat
    BY SMTT(40), <1>1, <1>2, <1>3, <1>4, <1>5, <1>6, <1>7, RecvAssumption
  <1>11. CASE ~has_callback
    <2>1. /\ Leave(b, n >= b.size, to) /\ skipped' = (skipped \/ rest # <<>>)
          /\ UNCHANGED <<consumed, over>>
      BY <1>3, <1>11 DEF Turn
    <2> DEFINE full == n >= b.size
    <2>2. Leave(b, full, to) /\ full \in BOOLEAN
      BY <1>4, <1>8, <2>1
    <2> HIDE DEF full
    <2>3. ~skipped' => consumed' \o Held(b) = Numbers(0, taken')
      <3> SUFFICES ASSUME ~skipped, rest = <<>> PROVE consumed \o Held(b) = Numbers(0, taken + n)
        BY <1>1, <1>3, <2>1
      <3>1. consumed \o Held(b) \in Seq(Int)
        BY <1>1, <1>8, ConcatProperties
      <3>2. (consumed \o Held(b)) \o <<>> = consumed \o Held(b)
        BY <3>1, ConcatEmptySeq
      <3> QED  BY <1>9, <3>2
    <2>4. /\ Length(b) <= taken' /\ consumed' \in Seq(Int) /\ skipped' \in BOOLEAN
          /\ over' \in BOOLEAN /\ (over => over')
      BY <1>1, <1>8, <1>10, <2>1
    <2> QED  BY <1>3, <1>7, <1>10, <2>2, <2>3, <2>4, TurnEnds
  <1>12. CASE has_callback
    <2>1. PICK i \in 0 .. Length(b), k \in 0 .. Len(rest) :
             LET left == CallBack(b, rest, i, k)
             IN /\ k > 0 => i = Length(b)
                /\ consumed' = consumed \o SubSeq(Held(b), 1, i) \o SubSeq(rest, 1, k)
                /\ over' = (over \/ Length(left) > max_size)
                /\ Leave(left, n >= left.size, to)
                /\ UNCHANGED skipped
      BY <1>3, <1>12 DEF Turn
    <2> DEFINE c == CallBack(b, rest, i, k)
               full == n >= c.size
    <2>2. /\ Sane(c) /\ Length(c) = (Length(b) - i) + (Len(rest) - k)
          /\ Held(c) = SubSeq(Held(b), i + 1, Len(Held(b))) \o SubSeq(rest, k + 1, Len(rest))
          /\ c.size = b.size \/ c.size = Length(c)
      BY <1>6, <1>7, <1>10, <2>1, CallBackKeeps
    <2>3. /\ k > 0 => i = Len(Held(b))
          /\ i \in 0 .. Len(Held(b))
          /\ consumed' = consumed \o SubSeq(Held(b), 1, i) \o SubSeq(rest, 1, k)
          /\ over' = (over \/ Length(c) > max_size) /\ UNCHANGED skipped
      BY <1>8, <2>1
    <2>4. c.size \in Nat /\ Length(c) \in Nat
      BY <2>2, SaneLengths
    <2>5. Leave(c, full, to) /\ full \in BOOLEAN
      BY <1>4, <2>1, <2>4
    <2>6. consumed' \in Seq(Int) /\ consumed' \o Held(c) = (consumed \o Held(b)) \o rest
      <3> DEFINE h == Held(b)
      <3>1. h \in Seq(Int) /\ i \in 0 .. Len(h) /\ k \in 0 .. Len(rest) /\ (k > 0 => i = Len(h))
        BY <1>8, <2>1, <2>3
      <3>2. /\ consumed' = consumed \o SubSeq(h, 1, i) \o SubSeq(rest, 1, k)
            /\ Held(c) = SubSeq(h, i + 1, Len(h)) \o SubSeq(rest, k + 1, Len(rest))
        BY <2>2, <2>3
      <3> HIDE DEF h, c
      <3>5. consumed \in Seq(Int) /\ rest \in Seq(Int)
        BY <1>1, <1>6
      <3>3. /\ consumed \o SubSeq(h, 1, i) \o SubSeq(rest, 1, k) \in Seq(Int)
            /\ (consumed \o SubSeq(h, 1, i) \o SubSeq(rest, 1, k))
                  \o (SubSeq(h, i + 1, Len(h)) \o SubSeq(rest, k + 1, Len(rest)))
                  = (consumed \o h) \o rest
        BY ONLY <3>5, <3>1, TakeBoth, ZenonT(60)
      <3>4. consumed' \in Seq(Int) /\ consumed' \o Held(c) = (consumed \o h) \o rest
        BY <3>2, <3>3, Zenon
      <3> QED  BY <3>4 DEF h
    <2> HIDE DEF c, full
    <2>7. over' \in BOOLEAN /\ (over => over') /\ (Length(c) > max_size => over')
      BY <1>1, <2>3
    <2>8. Length(c) <= taken' /\ skipped' \in BOOLEAN
      BY <1>1, <1>3, <1>4, <1>8, <1>10, <2>1, <2>2, <2>3
    <2>9. ~skipped' => consumed' \o Held(c) = Numbers(0, taken')
      BY <1>3, <1>9, <2>3, <2>6
    <2>10. c.size = recv_buffer.size \/ (channel = "epoll" /\ (c.size > max_size => over'))
      BY <1>3, <1>7, <2>2, <2>4, <2>7
    <2> QED  BY <1>3, <1>10, <2>2, <2>5, <2>6, <2>7, <2>8, <2>9, <2>10, TurnEnds
  <1> QED  BY <1>1, <1>11, <1>12

LEMMA RNext == RInv /\ [RecvNext]_recvVars => RInv'
  BY QuietSteps, ReadvStep, ReadvAgainStep, WsaRecvStep DEF RecvNext

\* Whatever the reads return, whatever the callback takes and leaves, and
\* wherever the buffer moves, shrinks or grows: what the callback has taken and
\* what is held is the stream, without a gap and without a repetition, unless
\* a turn threw bytes away or grow() left a block too small.
THEOREM StreamIsKept == RecvSpec => []StreamKept
  <1>1. RInv => StreamKept
    BY DEF RInv
  <1> QED  BY <1>1, RInit, RNext, PTL DEF RecvSpec

\* The read and the write position stay inside the block, whatever limits are
\* set and whenever, as long as none is below what the block has already and no
\* callback of an epoll channel leaves more than the limit unread: only after
\* that does grow() leave a block that is too small, or larger than the limit.
THEOREM PositionsStayInside == RecvSpec => []BlockNotOverrun
  <1>1. RInv => BlockNotOverrun
    BY DEF RInv, BlockOK, Sane, BlockNotOverrun
  <1> QED  BY <1>1, RInit, RNext, PTL DEF RecvSpec

-----------------------------------------------------------------------------
(* The completion port.                                                      *)

Tasks == {"enter", "flush", "shutdown"}
Ops == {"recv", "send"}
Completion == [op : Ops, bytes : Nat]

\* What the induction needs of the types.
TypesOK ==
    /\ tasks \in Seq(Tasks) /\ port \in Seq(Completion)
    /\ send_out \in Seq([from : Int, len : Int])
    /\ app \in {"none", "idle", "check", "set", "post"}
    /\ is_post_flush \in BOOLEAN /\ is_can_write \in BOOLEAN
    /\ send_packet_list \in Seq(Int) /\ pending_packet_list \in Seq(Int)
    /\ pushed \in Nat /\ completed \in Nat /\ head_off \in Nat

HasFlush(list) == \E i \in DOMAIN list : list[i] = "flush"
HasSend(list) == \E i \in DOMAIN list : list[i].op = "send"
Underway == HasFlush(tasks) \/ io # "none" \/ send_out # <<>> \/ HasSend(port)

\* The flag promises a flush, or its sender is about to post it.
FlagHasCarrier == is_post_flush /\ is_can_write /\ fault = "none" => Underway \/ app = "post"
Carried == ~NothingLeft /\ is_can_write /\ fault = "none"
               => Underway \/ app \in {"check", "set", "post"}

IInv == TypesOK /\ FlagHasCarrier /\ Carried

-----------------------------------------------------------------------------
\* What queues keep when an element joins or the first one leaves.
LEMMA FlushStays ==
    ASSUME NEW list \in Seq(Tasks), NEW task \in Tasks
    PROVE  /\ Append(list, task) \in Seq(Tasks)
           /\ HasFlush(list) \/ task = "flush" => HasFlush(Append(list, task))
  <1>1. Len(list) + 1 \in DOMAIN Append(list, task) /\ Append(list, task)[Len(list) + 1] = task
    OBVIOUS
  <1>2. \A i \in DOMAIN list : i \in DOMAIN Append(list, task) /\ Append(list, task)[i] = list[i]
    OBVIOUS
  <1> QED  BY <1>1, <1>2 DEF HasFlush

LEMMA FlushNotTaken ==
    ASSUME NEW list \in Seq(Tasks), list # <<>>
    PROVE  Tail(list) \in Seq(Tasks) /\ (HasFlush(list) /\ Head(list) # "flush" => HasFlush(Tail(list)))
  <1>1. Tail(list) \in Seq(Tasks)
    OBVIOUS
  <1>2. ASSUME NEW i \in DOMAIN list, i # 1
        PROVE  i - 1 \in DOMAIN Tail(list) /\ Tail(list)[i - 1] = list[i]
    BY <1>2
  <1>3. Head(list) = list[1]
    OBVIOUS
  <1> QED  BY <1>1, <1>2, <1>3 DEF HasFlush

LEMMA SendStays ==
    ASSUME NEW list \in Seq(Completion), NEW end \in Completion
    PROVE  /\ Append(list, end) \in Seq(Completion)
           /\ HasSend(list) \/ end.op = "send" => HasSend(Append(list, end))
  <1>1. Len(list) + 1 \in DOMAIN Append(list, end) /\ Append(list, end)[Len(list) + 1] = end
    OBVIOUS
  <1>2. \A i \in DOMAIN list : i \in DOMAIN Append(list, end) /\ Append(list, end)[i] = list[i]
    OBVIOUS
  <1> QED  BY <1>1, <1>2 DEF HasSend

LEMMA SendNotTaken ==
    ASSUME NEW list \in Seq(Completion), list # <<>>
    PROVE  Tail(list) \in Seq(Completion) /\ (HasSend(list) /\ Head(list).op # "send" => HasSend(Tail(list)))
  <1>1. Tail(list) \in Seq(Completion)
    OBVIOUS
  <1>2. ASSUME NEW i \in DOMAIN list, i # 1
        PROVE  i - 1 \in DOMAIN Tail(list) /\ Tail(list)[i - 1] = list[i]
    BY <1>2
  <1>3. Head(list) = list[1]
    OBVIOUS
  <1> QED  BY <1>1, <1>2, <1>3 DEF HasSend

\* A callback that is not the only carrier's end leaves a carrier.
LEMMA CallbackCarries ==
    ASSUME TypesOK, NEW rest \in Seq(Tasks), Callback(rest)
    PROVE  /\ tasks' \in Seq(Tasks) /\ is_post_flush' \in BOOLEAN
           /\ send_packet_list' \in Seq(Int) /\ pushed' \in Nat
           /\ HasFlush(rest) => HasFlush(tasks')
           /\ \/ is_post_flush' = is_post_flush /\ send_packet_list' = send_packet_list
              \/ is_post_flush
              \/ HasFlush(tasks')
  <1>1. CASE tasks' = rest /\ UNCHANGED <<pushed, send_packet_list, is_post_flush>>
    BY <1>1 DEF TypesOK
  <1>2. CASE /\ pushed' = pushed + 1 /\ send_packet_list' = Append(send_packet_list, pushed + 1)
             /\ is_post_flush' = TRUE
             /\ tasks' = IF is_post_flush THEN rest ELSE Append(rest, "flush")
    <2>1. send_packet_list' \in Seq(Int) /\ pushed' \in Nat
      BY <1>2 DEF TypesOK
    <2>2. "flush" \in Tasks
      BY DEF Tasks
    <2>3. CASE is_post_flush
      BY <1>2, <2>1, <2>3
    <2>4. CASE ~is_post_flush
      BY <1>2, <2>1, <2>2, <2>4, FlushStays
    <2> QED  BY <2>3, <2>4
  <1> QED  BY <1>1, <1>2 DEF Callback

LEMMA InitInv == IocpInit => IInv
  <1> SUFFICES ASSUME IocpInit PROVE IInv
    OBVIOUS
  <1>1. TypesOK
    <2>1. tasks \in Seq(Tasks)
      BY DEF IocpInit, Tasks
    <2>2. /\ port \in Seq(Completion) /\ send_out \in Seq([from : Int, len : Int])
          /\ send_packet_list \in Seq(Int) /\ pending_packet_list \in Seq(Int)
      BY DEF IocpInit
    <2>3. /\ app = "none" /\ is_post_flush = FALSE /\ is_can_write = TRUE
          /\ pushed = 0 /\ completed = 0 /\ head_off = 0
      BY DEF IocpInit
    <2> QED  BY <2>1, <2>2, <2>3 DEF TypesOK
  <1> QED  BY <1>1 DEF IocpInit, IInv, FlagHasCarrier, Carried, NothingLeft

LEMMA SendSteps ==
    ASSUME IInv, Push \/ CheckPostFlush \/ SetPostFlush \/ PostFlush \/ PostShutdown
    PROVE  IInv'
  <1> USE DEF IInv, TypesOK, FlagHasCarrier, Carried, Underway, NothingLeft, loopVars, portVars,
              listVars, closeVars
  <1>1. CASE Push
    BY <1>1 DEF Push
  <1>2. CASE CheckPostFlush
    BY <1>2 DEF CheckPostFlush
  <1>3. CASE SetPostFlush
    BY <1>3 DEF SetPostFlush
  <1>4. CASE PostFlush
    <2>1. tasks' \in Seq(Tasks) /\ HasFlush(tasks')
      BY <1>4, FlushStays DEF PostFlush, Tasks
    <2> QED  BY <1>4, <2>1 DEF PostFlush
  <1>5. CASE PostShutdown
    <2>1. tasks' \in Seq(Tasks) /\ ~HasFlush(tasks)
      BY <1>5 DEF PostShutdown, Tasks, HasFlush
    <2> QED  BY <1>5, <2>1 DEF PostShutdown
  <1> QED  BY <1>1, <1>2, <1>3, <1>4, <1>5

LEMMA RecvCompleteStep == ASSUME IInv, RecvComplete PROVE IInv'
  <1> USE DEF IInv, TypesOK, FlagHasCarrier, Carried, Underway, NothingLeft, RecvComplete, Dequeue
  <1>1. port' \in Seq(Completion) /\ (HasSend(port) => HasSend(port'))
    BY SendNotTaken
  <1>2. CASE Callback(tasks)
    BY <1>1, <1>2, CallbackCarries DEF StartRecv, CloseSocket, closeVars, loopVars
  <1>3. CASE UNCHANGED <<tasks, send_packet_list, pushed, is_post_flush>>
    BY <1>1, <1>3 DEF StartRecv, CloseSocket, closeVars, loopVars
  <1> QED  BY <1>2, <1>3

LEMMA DivTypes ==
    ASSUME NEW a \in Nat, NEW b \in Nat \ {0} PROVE a \div b \in Nat /\ a % b \in Nat
  <1>1. a % b \in Nat
    OBVIOUS
  <1>2. a \div b \in Int
    OBVIOUS
  <1>3. a \div b >= 0
    BY Z3
  <1> QED  BY <1>1, <1>2, <1>3

LEMMA FewerType ==
    ASSUME NEW a \in Nat, NEW b \in Nat PROVE Fewer(a, b) \in Nat /\ Fewer(a, b) <= b
  BY DEF Fewer

LEMMA AppendType ==
    ASSUME NEW S, NEW s \in Seq(S), NEW e \in S PROVE Append(s, e) \in Seq(S) /\ Append(s, e) # <<>>
  <1>1. Append(s, e) \in Seq(S) /\ Len(Append(s, e)) = Len(s) + 1 /\ Len(s) \in Nat
    BY AppendProperties
  <1>2. Len(Append(s, e)) # 0
    BY <1>1
  <1> QED  BY <1>1, <1>2, EmptySeq

LEMMA CompleteTypes ==
    ASSUME TypesOK, NEW n \in Nat, Complete(n)
    PROVE  pending_packet_list' \in Seq(Int) /\ completed' \in Nat /\ head_off' \in Nat
  <1>1. /\ (head_off + n) \div PacketLen \in Nat /\ (head_off + n) % PacketLen \in Nat
        /\ Len(pending_packet_list) \in Nat
    <2>1. head_off + n \in Nat /\ PacketLen \in Nat \ {0} /\ Len(pending_packet_list) \in Nat
      BY IocpAssumption DEF TypesOK
    <2> QED  BY <2>1, DivTypes
  <1> DEFINE out == Fewer((head_off + n) \div PacketLen, Len(pending_packet_list))
  <1>2. out \in Nat /\ out <= Len(pending_packet_list)
    BY <1>1, FewerType
  <1>3. /\ completed' = completed + out
        /\ pending_packet_list' = SubSeq(pending_packet_list, out + 1, Len(pending_packet_list))
        /\ head_off' = IF out = Len(pending_packet_list) THEN 0 ELSE (head_off + n) % PacketLen
    BY DEF Complete
  <1> HIDE DEF out
  <1>4. /\ out + 1 \in 1 .. Len(pending_packet_list) + 1
        /\ Len(pending_packet_list) \in (out + 1) - 1 .. Len(pending_packet_list)
    BY <1>1, <1>2
  <1>5. SubSeq(pending_packet_list, out + 1, Len(pending_packet_list)) \in Seq(Int)
    BY <1>4, SubSeqProperties DEF TypesOK
  <1> QED  BY <1>1, <1>2, <1>3, <1>5 DEF TypesOK

LEMMA SendCompleteStep == ASSUME IInv, SendComplete PROVE IInv'
  <1> USE DEF IInv, TypesOK, FlagHasCarrier, Carried, Underway, NothingLeft, SendComplete, Dequeue
  <1>1. port' \in Seq(Completion)
    BY SendNotTaken
  <1>2. /\ tasks' \in Seq(Tasks) /\ is_post_flush' \in BOOLEAN
        /\ send_packet_list' \in Seq(Int) /\ pushed' \in Nat
    BY CallbackCarries DEF listVars
  <1>5. /\ pending_packet_list' \in Seq(Int)
        /\ completed' \in Nat /\ head_off' \in Nat
    <2>1. CASE UNCHANGED listVars
      BY <2>1 DEF listVars
    <2>2. CASE Complete(Head(port).bytes)
      <3>1. Head(port) \in Completion
        OBVIOUS
      <3> QED  BY <2>2, <3>1, CompleteTypes DEF Completion
    <2> QED  BY <2>1, <2>2
  <1>3. io' = "test" \/ ~is_can_write'
    BY DEF CloseSocket
  <1>4. is_can_write' \in BOOLEAN
    BY DEF CloseSocket, closeVars
  <1> QED  BY <1>1, <1>2, <1>3, <1>4, <1>5

LEMMA FlushSteps == ASSUME IInv, TestLists \/ Splice \/ WSASend PROVE IInv'
  <1> USE DEF IInv, TypesOK, FlagHasCarrier, Carried, Underway, NothingLeft, loopVars, portVars,
              listVars, closeVars
  <1>1. CASE TestLists
    BY <1>1 DEF TestLists
  <1>2. CASE Splice
    BY <1>2 DEF Splice
  <1>3. CASE WSASend
    <2>1. send_out' \in Seq([from : Int, len : Int]) /\ (send_out' # <<>> \/ ~is_can_write')
      <3>1. Prepared \in Int /\ completed * PacketLen + head_off \in Int
        BY IocpAssumption DEF Prepared, Fewer
      <3>2. \A len \in Int :
               [from |-> completed * PacketLen + head_off, len |-> len] \in [from : Int, len : Int]
        BY <3>1
      <3>3. PICK len \in Int : \/ send_out' = Append(send_out,
                                     [from |-> completed * PacketLen + head_off, len |-> len])
                               \/ CloseSocket /\ UNCHANGED send_out
        BY <1>3, <3>1 DEF WSASend
      <3>4. CASE CloseSocket /\ UNCHANGED send_out
        BY <3>4 DEF CloseSocket
      <3>5. CASE send_out' = Append(send_out,
                     [from |-> completed * PacketLen + head_off, len |-> len])
        BY <3>2, <3>5, AppendType
      <3> QED  BY <3>3, <3>4, <3>5
    <2> QED  BY <1>3, <2>1 DEF WSASend, CloseSocket
  <1> QED  BY <1>1, <1>2, <1>3

LEMMA KernelSteps == ASSUME IInv, RecvEnds \/ SendEnds PROVE IInv'
  <1> USE DEF IInv, TypesOK, FlagHasCarrier, Carried, Underway, NothingLeft, loopVars, listVars,
              closeVars
  <1>1. CASE RecvEnds
    <2>1. port' \in Seq(Completion) /\ (HasSend(port) => HasSend(port'))
      <3>1. \A n \in {0, 1} : [op |-> "recv", bytes |-> n] \in Completion
        BY DEF Completion, Ops
      <3> QED  BY <1>1, <3>1, SendStays DEF RecvEnds, EndOf
    <2> QED  BY <1>1, <2>1 DEF RecvEnds
  <1>2. CASE SendEnds
    <2>1. port' \in Seq(Completion) /\ HasSend(port')
      <3>1. PICK n \in 0 .. (IF has_closed THEN 0 ELSE Head(send_out).len) : EndOf("send", n)
        BY <1>2 DEF SendEnds
      <3>2. [op |-> "send", bytes |-> n] \in Completion
        BY <1>2, <3>1 DEF SendEnds, Completion, Ops
      <3> QED  BY <3>1, <3>2, SendStays DEF EndOf
    <2> QED  BY <1>2, <2>1 DEF SendEnds
  <1> QED  BY <1>1, <1>2

LEMMA LoopSteps ==
    ASSUME IInv, \/ PortEmpty \/ FlushTask \/ ShutdownTask
                 \/ EndTasks \/ Release \/ LateCompletion
    PROVE  IInv'
  <1> USE DEF IInv, TypesOK, FlagHasCarrier, Carried, Underway, NothingLeft, portVars, listVars,
              closeVars
  <1>1. CASE PortEmpty
    BY <1>1 DEF PortEmpty
  <1>2. CASE FlushTask
    <2>1. tasks' \in Seq(Tasks)
      BY <1>2, FlushNotTaken DEF FlushTask, RunsTask
    <2> QED  BY <1>2, <2>1 DEF FlushTask
  <1>3. CASE ShutdownTask
    <2>1. tasks' \in Seq(Tasks)
      BY <1>3, FlushNotTaken DEF ShutdownTask, RunsTask
    <2> QED  BY <1>3, <2>1 DEF ShutdownTask
  <1>4. CASE EndTasks
    BY <1>4 DEF EndTasks
  <1>5. CASE Release
    BY <1>5 DEF Release
  <1>6. CASE LateCompletion
    BY <1>6 DEF LateCompletion
  <1> QED  BY <1>1, <1>2, <1>3, <1>4, <1>5, <1>6

LEMMA EnterTaskStep == ASSUME IInv, EnterTask PROVE IInv'
  <1>1. Tail(tasks) \in Seq(Tasks) /\ (HasFlush(tasks) => HasFlush(Tail(tasks)))
    BY FlushNotTaken DEF IInv, TypesOK, EnterTask, RunsTask
  <1>2. Callback(Tail(tasks)) /\ TypesOK
    BY DEF IInv, EnterTask
  <1>3. /\ tasks' \in Seq(Tasks) /\ is_post_flush' \in BOOLEAN
        /\ send_packet_list' \in Seq(Int) /\ pushed' \in Nat
        /\ HasFlush(tasks) => HasFlush(tasks')
        /\ \/ is_post_flush' = is_post_flush /\ send_packet_list' = send_packet_list
           \/ is_post_flush
           \/ HasFlush(tasks')
    BY <1>1, <1>2, CallbackCarries
  <1>4. /\ is_can_write' = is_can_write \/ is_can_write' = FALSE
        /\ UNCHANGED <<io, fault, port, send_out, pending_packet_list, head_off, completed>>
        /\ app = "none" /\ app' = "idle"
    BY DEF EnterTask, StartRecv, CloseSocket, closeVars
  <1>5. TypesOK'
    BY <1>3, <1>4 DEF IInv, TypesOK
  <1>6. FlagHasCarrier' /\ Carried'
    BY <1>3, <1>4 DEF IInv, TypesOK, FlagHasCarrier, Carried, Underway, NothingLeft
  <1> QED  BY <1>5, <1>6 DEF IInv

LEMMA NextInv == IInv /\ [IocpNext]_iocpVars => IInv'
  <1> SUFFICES ASSUME IInv, [IocpNext]_iocpVars PROVE IInv'
    OBVIOUS
  <1>1. CASE IocpNext
    BY <1>1, SendSteps, RecvCompleteStep, SendCompleteStep, FlushSteps, KernelSteps, LoopSteps,
       EnterTaskStep DEF IocpNext
  <1>2. CASE UNCHANGED iocpVars
    BY <1>2 DEF iocpVars, loopVars, portVars, listVars, closeVars, IInv, TypesOK, FlagHasCarrier,
                Carried, Underway, NothingLeft
  <1> QED  BY <1>1, <1>2

\* Every packet in a list of a session that can write has a flush or a WSASend
\* on its way, or a sender that has yet to look at the flag: the test of
\* do_complete under the lock and the order of send leave no gap.
THEOREM PacketsAreCarried == IocpSpec => []PacketHasCarrier
  <1>1. IInv => PacketHasCarrier
    BY DEF IInv, Carried, Underway, HasFlush, HasSend, PacketHasCarrier
  <1> QED  BY <1>1, InitInv, NextInv, PTL DEF IocpSpec
-----------------------------------------------------------------------------
(***************************************************************************)
(* The order of the units.  What is sent passes from hand to hand: from    *)
(* the sender that posts a flush to the task, the running flush, the       *)
(* WSASend, its completion and do_complete.  There is never a second one,  *)
(* and the flag is clear only while there is none; so the WSASend that     *)
(* starts begins at the first unit that has not left.                      *)
(***************************************************************************)
OneFlush(list) == \A i, j \in DOMAIN list : list[i] = "flush" /\ list[j] = "flush" => i = j
OneSend(list) == \A i, j \in DOMAIN list : list[i].op = "send" /\ list[j].op = "send" => i = j

OneCarrier ==
    /\ OneFlush(tasks) /\ OneSend(port) /\ Len(send_out) <= 1
    /\ HasFlush(tasks) => io = "none" /\ send_out = <<>> /\ ~HasSend(port)
    /\ io # "none" => send_out = <<>> /\ ~HasSend(port)
    /\ send_out # <<>> => ~HasSend(port)
    /\ app = "post" => ~Underway
    /\ ~is_post_flush => ~Underway /\ app # "post"
    /\ app = "set" => ~is_post_flush
    /\ site = "io" => app \in {"none", "idle"}

\* The units whose packets are completed, or removed from the first packet.
Done == completed * PacketLen + head_off
Fits(n) == head_off + n <= Len(pending_packet_list) * PacketLen

Position ==
    /\ head_off < PacketLen /\ (pending_packet_list = <<>> => head_off = 0)
    /\ wire \in Seq(Int) /\ \A i \in 1 .. Len(wire) : wire[i] = i
    /\ ~HasSend(port) => Len(wire) = Done
    /\ \A i \in DOMAIN port :
          port[i].op = "send" => Len(wire) = Done + port[i].bytes /\ Fits(port[i].bytes)
    /\ \A i \in DOMAIN send_out : send_out[i].from = Done /\ Fits(send_out[i].len)

WInv == IInv /\ OneCarrier /\ Position

LEMMA FlushJoins ==
    ASSUME NEW list \in Seq(Tasks), ~HasFlush(list) PROVE OneFlush(Append(list, "flush"))
  <1>1. \A i \in DOMAIN Append(list, "flush") :
           i = Len(list) + 1 \/ (i \in DOMAIN list /\ Append(list, "flush")[i] = list[i])
    <2>1. "flush" \in Tasks
      BY DEF Tasks
    <2> QED  BY <2>1
  <1> QED  BY <1>1 DEF OneFlush, HasFlush

LEMMA FlushLeaves ==
    ASSUME NEW list \in Seq(Tasks), list # <<>>, OneFlush(list)
    PROVE  /\ OneFlush(Tail(list)) /\ (HasFlush(Tail(list)) => HasFlush(list))
           /\ Head(list) = "flush" => ~HasFlush(Tail(list))
  <1>1. \A i \in DOMAIN Tail(list) :
           i \in Int /\ i # 0 /\ i + 1 \in DOMAIN list /\ Tail(list)[i] = list[i + 1]
    OBVIOUS
  <1>2. 1 \in DOMAIN list /\ Head(list) = list[1]
    OBVIOUS
  <1>3. OneFlush(Tail(list))
    BY <1>1 DEF OneFlush
  <1>4. HasFlush(Tail(list)) => HasFlush(list)
    BY <1>1 DEF HasFlush
  <1>5. Head(list) = "flush" => ~HasFlush(Tail(list))
    BY <1>1, <1>2 DEF HasFlush, OneFlush
  <1> QED  BY <1>3, <1>4, <1>5

LEMMA SendJoins ==
    ASSUME NEW list \in Seq(Completion), NEW end \in Completion, OneSend(list)
    PROVE  /\ ~HasSend(list) \/ end.op # "send" => OneSend(Append(list, end))
           /\ \A i \in DOMAIN Append(list, end) :
                 \/ i = Len(list) + 1 /\ Append(list, end)[i] = end
                 \/ i \in DOMAIN list /\ Append(list, end)[i] = list[i]
  <1>1. \A i \in DOMAIN Append(list, end) :
           \/ i = Len(list) + 1 /\ Append(list, end)[i] = end
           \/ i \in DOMAIN list /\ Append(list, end)[i] = list[i]
    OBVIOUS
  <1> QED  BY <1>1 DEF OneSend, HasSend

LEMMA SendLeaves ==
    ASSUME NEW list \in Seq(Completion), list # <<>>, OneSend(list)
    PROVE  /\ OneSend(Tail(list)) /\ (HasSend(Tail(list)) => HasSend(list))
           /\ Head(list).op = "send" => HasSend(list) /\ ~HasSend(Tail(list))
           /\ \A i \in DOMAIN Tail(list) : i + 1 \in DOMAIN list /\ Tail(list)[i] = list[i + 1]
  <1>1. \A i \in DOMAIN Tail(list) :
           i \in Int /\ i # 0 /\ i + 1 \in DOMAIN list /\ Tail(list)[i] = list[i + 1]
    OBVIOUS
  <1>2. 1 \in DOMAIN list /\ Head(list) = list[1]
    OBVIOUS
  <1>3. OneSend(Tail(list))
    BY <1>1 DEF OneSend
  <1>4. HasSend(Tail(list)) => HasSend(list)
    BY <1>1 DEF HasSend
  <1>5. Head(list).op = "send" => HasSend(list) /\ ~HasSend(Tail(list))
    BY <1>1, <1>2 DEF HasSend, OneSend
  <1> QED  BY <1>1, <1>3, <1>4, <1>5

LEMMA SendOutJoins ==
    ASSUME TypesOK, send_out = <<>>, NEW sent
    PROVE  Len(Append(send_out, sent)) = 1 /\ Append(send_out, sent)[1] = sent
  OBVIOUS
\* What a callback does to the executor: nothing, or it is the first to send.
LEMMA CallbackSends ==
    ASSUME TypesOK, NEW rest, Callback(rest)
    PROVE  \/ tasks' = rest /\ (is_post_flush' = is_post_flush)
           \/ site = "io" /\ ~is_post_flush /\ is_post_flush' /\ tasks' = Append(rest, "flush")
  BY DEF Callback, TypesOK

LEMMA OnlyOne ==
    ASSUME NEW S, NEW s \in Seq(S), s # <<>>, Len(s) <= 1
    PROVE  1 \in DOMAIN s /\ Head(s) = s[1] /\ s[1] \in S /\ Tail(s) = <<>>
  <1>1. Len(s) \in Nat \ {0} /\ Tail(s) \in Seq(S) /\ Len(Tail(s)) = Len(s) - 1
    BY EmptySeq, HeadTailProperties
  <1>2. Len(Tail(s)) = 0
    BY <1>1
  <1> QED  BY <1>1, <1>2, EmptySeq

LEMMA OneCarrierSend ==
    ASSUME WInv, Push \/ CheckPostFlush \/ SetPostFlush \/ PostFlush \/ PostShutdown
    PROVE  OneCarrier'
  <1> USE DEF WInv, IInv, TypesOK, OneCarrier, Underway, loopVars, portVars, listVars, closeVars
  <1>1. CASE Push
    BY <1>1 DEF Push
  <1>2. CASE CheckPostFlush
    BY <1>2 DEF CheckPostFlush
  <1>3. CASE SetPostFlush
    BY <1>3 DEF SetPostFlush
  <1>4. CASE PostFlush
    BY <1>4, FlushJoins DEF PostFlush
  <1>5. CASE PostShutdown
    <2>1. OneFlush(<<"shutdown">>) /\ ~HasFlush(<<"shutdown">>)
      BY DEF OneFlush, HasFlush
    <2> QED  BY <1>5, <2>1 DEF PostShutdown
  <1> QED  BY <1>1, <1>2, <1>3, <1>4, <1>5

LEMMA OneCarrierRecv == ASSUME WInv, RecvComplete PROVE OneCarrier'
  <1> USE DEF WInv, IInv, TypesOK, OneCarrier, Underway
  <1>1. OneSend(port') /\ (HasSend(port') => HasSend(port))
    BY SendLeaves DEF RecvComplete, Dequeue
  <1>2. io = "none" /\ UNCHANGED <<site, app, io, send_out>>
    BY DEF RecvComplete, Dequeue
  <1>3. CASE tasks' = tasks /\ is_post_flush' = is_post_flush
    BY <1>1, <1>2, <1>3
  <1>4. CASE site = "io" /\ ~is_post_flush /\ is_post_flush' /\ tasks' = Append(tasks, "flush")
    <2>1. OneFlush(tasks') /\ app \notin {"post", "set"}
      BY <1>4, FlushJoins
    <2> QED  BY <1>1, <1>2, <1>4, <2>1
  <1> QED  BY <1>3, <1>4, CallbackSends DEF RecvComplete

\* While the completion was in the port the flag was set.
LEMMA OneCarrierSendComplete == ASSUME WInv, SendComplete PROVE OneCarrier'
  <1> USE DEF WInv, IInv, TypesOK, OneCarrier, Underway
  <1>1. OneSend(port') /\ ~HasSend(port') /\ HasSend(port)
    BY SendLeaves DEF SendComplete, Dequeue
  <1>2. io = "none" /\ io' \in {"none", "test"} /\ UNCHANGED <<site, app, send_out>>
    BY DEF SendComplete, Dequeue
  <1>3. is_post_flush /\ app # "set"
    BY <1>1
  <1>4. tasks' = tasks /\ is_post_flush' = is_post_flush
    BY <1>3, CallbackSends DEF SendComplete
  <1> QED  BY <1>1, <1>2, <1>3, <1>4

LEMMA OneCarrierFlush == ASSUME WInv, TestLists \/ Splice \/ WSASend PROVE OneCarrier'
  <1> USE DEF WInv, IInv, TypesOK, OneCarrier, Underway, loopVars, portVars, listVars, closeVars
  <1>1. CASE TestLists
    BY <1>1 DEF TestLists
  <1>2. CASE Splice
    BY <1>2 DEF Splice
  <1>3. CASE WSASend
    <2>1. Len(send_out') <= 1
      <3>1. PICK sent : send_out' = Append(send_out, sent) \/ send_out' = send_out
        BY <1>3 DEF WSASend
      <3>2. send_out = <<>>
        BY <1>3 DEF WSASend
      <3>3. Len(Append(send_out, sent)) = 1 /\ Len(send_out) <= 1
        BY <3>2, SendOutJoins
      <3> QED  BY <3>1, <3>3
    <2> QED  BY <1>3, <2>1 DEF WSASend
  <1> QED  BY <1>1, <1>2, <1>3

LEMMA OneCarrierKernel == ASSUME WInv, RecvEnds \/ SendEnds PROVE OneCarrier'
  <1> USE DEF WInv, IInv, TypesOK, OneCarrier, Underway, loopVars, listVars, closeVars
  <1>1. CASE RecvEnds
    <2>1. PICK n \in {0, 1} : port' = Append(port, [op |-> "recv", bytes |-> n])
      BY <1>1 DEF RecvEnds, EndOf
    <2>2. [op |-> "recv", bytes |-> n] \in Completion
      BY DEF Completion, Ops
    <2>3. OneSend(port') /\ (HasSend(port') => HasSend(port))
      BY <2>1, <2>2, SendJoins DEF HasSend
    <2> QED  BY <1>1, <2>3 DEF RecvEnds
  <1>2. CASE SendEnds
    <2>1. PICK n \in 0 .. (IF has_closed THEN 0 ELSE Head(send_out).len) : EndOf("send", n)
      BY <1>2 DEF SendEnds
    <2>2. [op |-> "send", bytes |-> n] \in Completion
      BY <1>2, <2>1 DEF SendEnds, Completion, Ops
    <2>3. OneSend(port') /\ send_out' = <<>>
      BY <1>2, <2>1, <2>2, SendJoins DEF SendEnds, EndOf
    <2> QED  BY <1>2, <2>3 DEF SendEnds
  <1> QED  BY <1>1, <1>2

LEMMA OneCarrierLoop ==
    ASSUME WInv, \/ PortEmpty \/ FlushTask \/ ShutdownTask
                 \/ EndTasks \/ Release \/ LateCompletion
    PROVE  OneCarrier'
  <1> USE DEF WInv, IInv, TypesOK, OneCarrier, Underway, portVars, listVars, closeVars
  <1>1. CASE PortEmpty
    BY <1>1 DEF PortEmpty
  <1>2. CASE FlushTask
    <2>1. OneFlush(tasks') /\ ~HasFlush(tasks') /\ HasFlush(tasks)
      <3>1. 1 \in DOMAIN tasks /\ tasks[1] = "flush"
        BY <1>2 DEF FlushTask, RunsTask
      <3>2. HasFlush(tasks)
        BY <3>1 DEF HasFlush
      <3> QED  BY <1>2, <3>2, FlushLeaves DEF FlushTask, RunsTask
    <2> QED  BY <1>2, <2>1 DEF FlushTask
  <1>3. CASE ShutdownTask
    <2>1. OneFlush(tasks') /\ (HasFlush(tasks') => HasFlush(tasks))
      BY <1>3, FlushLeaves DEF ShutdownTask, RunsTask
    <2> QED  BY <1>3, <2>1 DEF ShutdownTask
  <1>4. CASE EndTasks
    BY <1>4 DEF EndTasks
  <1>5. CASE Release
    BY <1>5 DEF Release
  <1>6. CASE LateCompletion
    BY <1>6 DEF LateCompletion
  <1> QED  BY <1>1, <1>2, <1>3, <1>4, <1>5, <1>6

LEMMA OneCarrierEnter == ASSUME WInv, EnterTask PROVE OneCarrier'
  <1> USE DEF WInv, IInv, TypesOK, OneCarrier, Underway
  <1>1. /\ Tail(tasks) \in Seq(Tasks) /\ OneFlush(Tail(tasks))
        /\ HasFlush(Tail(tasks)) => HasFlush(tasks)
    BY FlushLeaves, FlushNotTaken DEF EnterTask, RunsTask
  <1>2. app' = "idle" /\ UNCHANGED <<site, io, send_out, port>> /\ io = "none"
    BY DEF EnterTask, RunsTask
  <1>3. CASE tasks' = Tail(tasks) /\ is_post_flush' = is_post_flush
    BY <1>1, <1>2, <1>3
  <1>4. CASE site = "io" /\ ~is_post_flush /\ is_post_flush' /\ tasks' = Append(Tail(tasks), "flush")
    <2>1. OneFlush(tasks')
      BY <1>1, <1>4, FlushJoins
    <2> QED  BY <1>2, <1>4, <2>1
  <1> QED  BY <1>3, <1>4, CallbackSends DEF EnterTask

-----------------------------------------------------------------------------
LEMMA ProductAtLeast == ASSUME NEW a \in Nat \ {0}, NEW b \in Nat PROVE a * b >= b
  BY Z3

LEMMA DivSplits ==
    ASSUME NEW a \in Nat, NEW b \in Nat \ {0}, NEW l \in Nat, a <= l * b
    PROVE  /\ a \div b \in Nat /\ a % b \in Nat /\ a % b < b
           /\ (a \div b) * b + (a % b) = a
           /\ a \div b <= l /\ (a \div b = l => a % b = 0)
  <1>1. a \div b \in Nat /\ a % b \in Nat
    BY DivTypes
  <1>2. (a \div b) * b + (a % b) = a /\ a % b < b
    BY Z3
  <1> DEFINE d == a \div b
             m == a % b
  <1>3. d \in Nat /\ m \in Nat /\ d * b + m = a /\ m < b
    BY <1>1, <1>2
  <1> HIDE DEF d, m
  <1>4. d <= l
    <2> SUFFICES ASSUME d >= l + 1 PROVE FALSE
      BY <1>3
    <2>1. d * b >= (l + 1) * b
      BY <1>3, Z3
    <2>2. (l + 1) * b = l * b + b
      BY Z3
    <2> QED  BY <1>3, <2>1, <2>2
  <1>5. d = l => m = 0
    BY <1>3
  <1> QED  BY <1>3, <1>4, <1>5 DEF d, m

\* do_complete accounts for all the units that have left, and for no more.
LEMMA CompleteAdds ==
    ASSUME WInv, NEW n \in Nat, Fits(n), Complete(n)
    PROVE  /\ Done' = Done + n
           /\ head_off' < PacketLen /\ (pending_packet_list' = <<>> => head_off' = 0)
  <1> DEFINE d == (head_off + n) \div PacketLen
             m == (head_off + n) % PacketLen
             l == Len(pending_packet_list)
  <1>1. PacketLen \in Nat \ {0} /\ head_off \in Nat /\ completed \in Nat /\ l \in Nat
    BY IocpAssumption DEF WInv, IInv, TypesOK
  <1>2. /\ d \in Nat /\ m \in Nat /\ m < PacketLen /\ d * PacketLen + m = head_off + n
        /\ d <= l /\ (d = l => m = 0)
    <2>1. head_off + n \in Nat /\ head_off + n <= l * PacketLen
      BY <1>1 DEF Fits
    <2> QED  BY <1>1, <2>1, DivSplits
  <1>3. Fewer(d, l) = d
    BY <1>1, <1>2 DEF Fewer
  <1>4. /\ completed' = completed + d /\ head_off' = IF d = l THEN 0 ELSE m
        /\ pending_packet_list' = SubSeq(pending_packet_list, d + 1, l)
    BY <1>3 DEF Complete
  <1> HIDE DEF d, m, l
  <1>5. head_off' = m
    BY <1>2, <1>4
  <1>6. Done' = Done + n
    <2>1. (completed + d) * PacketLen = completed * PacketLen + d * PacketLen
      BY <1>1, <1>2, Z3
    <2>2. completed * PacketLen \in Nat /\ d * PacketLen \in Nat
      BY <1>1, <1>2, Z3
    <2> QED  BY <1>1, <1>2, <1>4, <1>5, <2>1, <2>2 DEF Done
  <1>7. pending_packet_list' = <<>> => head_off' = 0
    <2> SUFFICES ASSUME d # l PROVE pending_packet_list' # <<>>
      BY <1>4
    <2>1. /\ d + 1 \in 1 .. l + 1 /\ l \in (d + 1) - 1 .. l
          /\ \A i \in d + 1 .. l : pending_packet_list[i] \in Int
      BY <1>1, <1>2 DEF l, WInv, IInv, TypesOK
    <2>2. Len(pending_packet_list') = l - d
      BY <1>1, <1>2, <1>4, <2>1, SubSeqProperties
    <2> QED  BY <1>1, <1>2, <2>2
  <1> QED  BY <1>2, <1>5, <1>6, <1>7

\* Everything that Position reads stays, except that there may be fewer sends.
LEMMA PositionStays ==
    ASSUME WInv, UNCHANGED <<pending_packet_list, head_off, completed, wire, send_out>>,
           \A i \in DOMAIN port' : port'[i].op = "send" =>
               \E j \in DOMAIN port : port[j].op = "send" /\ port'[i].bytes = port[j].bytes,
           HasSend(port) => HasSend(port')
    PROVE  Position'
  BY DEF WInv, Position, Done, Fits, HasSend

LEMMA PositionRecv == ASSUME WInv, RecvComplete PROVE Position'
  <1>1. \A i \in DOMAIN Tail(port) : i + 1 \in DOMAIN port /\ Tail(port)[i] = port[i + 1]
    BY SendLeaves DEF WInv, IInv, TypesOK, OneCarrier, RecvComplete, Dequeue
  <1>2. HasSend(port) => HasSend(port')
    BY SendNotTaken DEF WInv, IInv, TypesOK, RecvComplete, Dequeue
  <1> QED  BY <1>1, <1>2, PositionStays DEF RecvComplete, Dequeue

LEMMA PositionSendComplete == ASSUME WInv, SendComplete PROVE Position'
  <1>1. 1 \in DOMAIN port /\ port[1] = Head(port) /\ Head(port).op = "send" /\ Head(port) \in Completion
    BY DEF WInv, IInv, TypesOK, SendComplete, Dequeue
  <1>2. /\ ~HasSend(port') /\ HasSend(port) /\ send_out = <<>> /\ send_out' = <<>>
        /\ \A i \in DOMAIN port' : port'[i].op # "send"
    BY SendLeaves DEF WInv, IInv, TypesOK, OneCarrier, SendComplete, Dequeue, HasSend
  <1> DEFINE n == Head(port).bytes
  <1>3. n \in Nat /\ Len(wire) = Done + n /\ Fits(n) /\ wire' = wire
    BY <1>1 DEF WInv, Position, Completion, SendComplete
  <1>4. CASE UNCHANGED listVars /\ n = 0
    <2>1. Done \in Int
      BY IocpAssumption DEF WInv, IInv, TypesOK, Done
    <2> QED  BY <1>2, <1>3, <1>4, <2>1 DEF WInv, Position, Done, listVars
  <1>5. CASE Complete(n)
    BY <1>2, <1>3, <1>5, CompleteAdds DEF WInv, Position
  <1> QED  BY <1>4, <1>5 DEF SendComplete

LEMMA PositionFlush == ASSUME WInv, TestLists \/ Splice \/ WSASend PROVE Position'
  <1>1. CASE TestLists
    BY <1>1, PositionStays DEF TestLists, listVars, portVars
  <1>2. CASE Splice
    <2>1. pending_packet_list' = <<>> => pending_packet_list = <<>>
      <3>1. pending_packet_list \in Seq(Int) /\ send_packet_list \in Seq(Int)
        BY DEF WInv, IInv, TypesOK
      <3>2. /\ Len(pending_packet_list \o send_packet_list)
                   = Len(pending_packet_list) + Len(send_packet_list)
            /\ Len(pending_packet_list) \in Nat /\ Len(send_packet_list) \in Nat
        BY <3>1, ConcatProperties
      <3> QED  BY <1>2, <3>1, <3>2, EmptySeq DEF Splice
    <2>2. send_out = <<>> /\ ~HasSend(port)
      BY <1>2 DEF WInv, OneCarrier, Splice
    <2> QED  BY <1>2, <2>1, <2>2 DEF Splice, WInv, Position, portVars, Done, HasSend
  <1>3. CASE WSASend
    <2>1. send_out = <<>> /\ ~HasSend(port)
      BY <1>3 DEF WInv, OneCarrier, WSASend
    <2>2. CASE UNCHANGED send_out
      BY <1>3, <2>2, PositionStays DEF WSASend, listVars
    <2>3. CASE send_out' = Append(send_out,
                    [from |-> completed * PacketLen + head_off,
                     len |-> IF pending_packet_list = <<>> THEN 0 ELSE Prepared])
      <3>1. /\ head_off + (IF pending_packet_list = <<>> THEN 0 ELSE Prepared)
                   <= Len(pending_packet_list) * PacketLen
        <4>1. CASE pending_packet_list = <<>>
          BY <4>1, IocpAssumption DEF WInv, Position
        <4>2. CASE pending_packet_list # <<>>
          <5> DEFINE l == Len(pending_packet_list)
          <5>1. l \in Nat /\ PacketLen \in Nat /\ MaxBufCnt \in Nat /\ head_off \in Nat
            BY IocpAssumption DEF WInv, IInv, TypesOK
          <5>2. Fewer(l, MaxBufCnt) \in Nat /\ Fewer(l, MaxBufCnt) <= l
            BY <5>1 DEF Fewer
          <5>3. Fewer(l, MaxBufCnt) * PacketLen <= l * PacketLen
            BY <5>1, <5>2, Z3
          <5> QED  BY <4>2, <5>1, <5>2, <5>3 DEF Prepared
        <4> QED  BY <4>1, <4>2
      <3>2. Len(send_out') = 1
            /\ send_out'[1].from = Done
            /\ Fits(send_out'[1].len)
        BY <2>1, <2>3, <3>1, SendOutJoins DEF Done, Fits, WInv, IInv
      <3>3. \A i \in DOMAIN send_out' : i = 1
        BY <2>1, <2>3, SendOutJoins DEF WInv, IInv
      <3> QED  BY <1>3, <2>1, <3>2, <3>3 DEF WSASend, listVars, WInv, Position, Done, Fits, HasSend
    <2> QED  BY <1>3, <2>2, <2>3 DEF WSASend
  <1> QED  BY <1>1, <1>2, <1>3

\* What an end of a WSASend puts on the wire continues it.
LEMMA WireGrows ==
    ASSUME wire \in Seq(Int), \A i \in 1 .. Len(wire) : wire[i] = i, NEW n \in Nat,
           wire' = wire \o [i \in 1 .. n |-> Len(wire) + i]
    PROVE  /\ wire' \in Seq(Int) /\ Len(wire') = Len(wire) + n
           /\ \A i \in 1 .. Len(wire') : wire'[i] = i
  <1> DEFINE t == [i \in 1 .. n |-> Len(wire) + i]
  <1>1. t \in Seq(Int) /\ Len(t) = n /\ \A i \in 1 .. n : t[i] = Len(wire) + i
    OBVIOUS
  <1> HIDE DEF t
  <1>2. /\ wire \o t \in Seq(Int) /\ Len(wire \o t) = Len(wire) + n
        /\ \A i \in 1 .. Len(wire) + n :
              (wire \o t)[i] = IF i <= Len(wire) THEN wire[i] ELSE t[i - Len(wire)]
    BY <1>1, ConcatProperties
  <1>3. \A i \in 1 .. Len(wire) + n : (wire \o t)[i] = i
    BY <1>1, <1>2
  <1>4. wire' = wire \o t
    BY DEF t
  <1> QED  BY <1>2, <1>3, <1>4

LEMMA PositionKernel == ASSUME WInv, RecvEnds \/ SendEnds PROVE Position'
  <1> USE DEF WInv, IInv, TypesOK
  <1>1. CASE RecvEnds
    <2>1. PICK n \in {0, 1} : port' = Append(port, [op |-> "recv", bytes |-> n])
      BY <1>1 DEF RecvEnds, EndOf
    <2>2. [op |-> "recv", bytes |-> n] \in Completion
      BY DEF Completion, Ops
    <2>3. /\ HasSend(port) => HasSend(port')
          /\ \A i \in DOMAIN port' : port'[i].op = "send" => i \in DOMAIN port /\ port'[i] = port[i]
      BY <2>1, <2>2, SendJoins, SendStays DEF OneCarrier
    <2> QED  BY <1>1, <2>3, PositionStays DEF RecvEnds, listVars
  <1>2. CASE SendEnds
    <2>1. PICK n \in 0 .. (IF has_closed THEN 0 ELSE Head(send_out).len) :
             EndOf("send", n) /\ wire' = wire \o [i \in 1 .. n |-> Head(send_out).from + i]
      BY <1>2 DEF SendEnds
    <2>2. /\ 1 \in DOMAIN send_out /\ Head(send_out) = send_out[1] /\ send_out' = <<>>
          /\ send_out[1].len \in Int /\ ~HasSend(port)
      <3>1. /\ 1 \in DOMAIN send_out /\ Head(send_out) = send_out[1] /\ send_out' = <<>>
            /\ send_out[1] \in [from : Int, len : Int]
        BY <1>2, OnlyOne DEF SendEnds, OneCarrier
      <3> QED  BY <1>2, <3>1 DEF SendEnds, OneCarrier
    <2>3. Len(wire) = Done /\ Head(send_out).from = Done /\ Fits(Head(send_out).len)
      BY <2>2 DEF Position
    <2>4. n \in Nat /\ Fits(n)
      <3>1. n \in Nat /\ (n = 0 \/ n <= Head(send_out).len)
        BY <2>1, <2>2
      <3>2. Fits(0)
        <4>1. CASE pending_packet_list = <<>>
          BY <4>1, IocpAssumption DEF Position, Fits
        <4>2. CASE pending_packet_list # <<>>
          <5> DEFINE l == Len(pending_packet_list)
          <5>1. l \in Nat \ {0} /\ PacketLen \in Nat \ {0}
            BY <4>2, EmptySeq, IocpAssumption
          <5>2. l * PacketLen >= PacketLen
            BY <5>1, ProductAtLeast
          <5>3. head_off < PacketLen /\ l * PacketLen \in Int
            BY <5>1 DEF Position
          <5> QED  BY <5>1, <5>2, <5>3 DEF Fits
        <4> QED  BY <4>1, <4>2
      <3>3. /\ Len(pending_packet_list) * PacketLen \in Int /\ head_off \in Nat
            /\ Head(send_out).len \in Int
        BY <2>2, IocpAssumption
      <3> QED  BY <2>3, <3>1, <3>2, <3>3 DEF Fits
    <2>5. wire' \in Seq(Int) /\ Len(wire') = Len(wire) + n /\ \A i \in 1 .. Len(wire') : wire'[i] = i
      <3>1. wire \in Seq(Int) /\ \A i \in 1 .. Len(wire) : wire[i] = i
        BY DEF Position
      <3>2. Head(send_out).from = Len(wire) /\ n \in Nat
        BY <2>3, <2>4
      <3>3. wire' = wire \o [i \in 1 .. n |-> Len(wire) + i]
        BY <2>1, <3>2
      <3> QED  BY <3>1, <3>2, <3>3, WireGrows
    <2>6. [op |-> "send", bytes |-> n] \in Completion
      BY <2>4 DEF Completion, Ops
    <2>7. /\ HasSend(port')
          /\ \A i \in DOMAIN port' : port'[i].op = "send" => port'[i].bytes = n
      <3> DEFINE end == [op |-> "send", bytes |-> n]
      <3>1. port' = Append(port, end) /\ end \in Completion /\ end.op = "send" /\ end.bytes = n
        BY <2>1, <2>6 DEF EndOf
      <3> HIDE DEF end
      <3>2. HasSend(port') /\ \A i \in DOMAIN port' :
               port'[i] = end \/ (i \in DOMAIN port /\ port'[i] = port[i])
        BY <3>1, SendJoins, SendStays DEF OneCarrier
      <3>3. \A i \in DOMAIN port : port[i].op # "send"
        BY <2>2 DEF HasSend
      <3> QED  BY <3>1, <3>2, <3>3
    <2>8. UNCHANGED <<pending_packet_list, head_off, completed>> /\ \A i \in DOMAIN send_out' : FALSE
      BY <1>2, <2>2 DEF SendEnds, listVars
    <2>9. Done' = Done /\ (Fits(n))'
      BY <2>4, <2>8 DEF Done, Fits
    <2> QED  BY <2>3, <2>5, <2>7, <2>8, <2>9 DEF Position
  <1> QED  BY <1>1, <1>2

LEMMA WInit == IocpInit => WInv
  <1> SUFFICES ASSUME IocpInit PROVE WInv
    OBVIOUS
  <1>1. IInv
    BY InitInv
  <1>2. OneFlush(<<"enter">>) /\ ~HasFlush(<<"enter">>)
    BY DEF OneFlush, HasFlush
  <1>3. OneCarrier
    BY <1>2 DEF IocpInit, OneCarrier, OneSend, HasSend, Underway
  <1>4. Done = 0
    BY IocpAssumption DEF IocpInit, Done
  <1>5. Position
    BY <1>4, IocpAssumption DEF IocpInit, Position, HasSend
  <1> QED  BY <1>1, <1>3, <1>5 DEF WInv

LEMMA WNext == WInv /\ [IocpNext]_iocpVars => WInv'
  <1> SUFFICES ASSUME WInv, [IocpNext]_iocpVars PROVE WInv'
    OBVIOUS
  <1>1. IInv'
    BY NextInv DEF WInv
  <1>2. CASE Push \/ CheckPostFlush \/ SetPostFlush \/ PostFlush \/ PostShutdown
    <2>1. Position'
      BY <1>2, PositionStays
         DEF Push, CheckPostFlush, SetPostFlush, PostFlush, PostShutdown, portVars, listVars
    <2> QED  BY <1>1, <1>2, <2>1, OneCarrierSend DEF WInv
  <1>3. CASE RecvComplete
    BY <1>1, <1>3, PositionRecv, OneCarrierRecv DEF WInv
  <1>4. CASE SendComplete
    BY <1>1, <1>4, PositionSendComplete, OneCarrierSendComplete DEF WInv
  <1>5. CASE TestLists \/ Splice \/ WSASend
    BY <1>1, <1>5, PositionFlush, OneCarrierFlush DEF WInv
  <1>6. CASE RecvEnds \/ SendEnds
    BY <1>1, <1>6, PositionKernel, OneCarrierKernel DEF WInv
  <1>7. CASE PortEmpty \/ FlushTask \/ ShutdownTask \/ EndTasks \/ Release \/ LateCompletion
    <2>1. Position'
      BY <1>7, PositionStays
         DEF PortEmpty, FlushTask, ShutdownTask, EndTasks, Release, LateCompletion, portVars, listVars
    <2> QED  BY <1>1, <1>7, <2>1, OneCarrierLoop DEF WInv
  <1>8. CASE EnterTask
    <2>1. Position'
      BY <1>8, PositionStays DEF EnterTask
    <2> QED  BY <1>1, <1>8, <2>1, OneCarrierEnter DEF WInv
  <1>9. CASE UNCHANGED iocpVars
    <2>1. Position'
      BY <1>9, PositionStays DEF iocpVars, loopVars, portVars, listVars
    <2>2. OneCarrier'
      BY <1>9 DEF iocpVars, loopVars, portVars, WInv, OneCarrier, OneFlush, OneSend, HasFlush, HasSend,
                  Underway
    <2> QED  BY <1>1, <2>1, <2>2 DEF WInv
  <1> QED  BY <1>2, <1>3, <1>4, <1>5, <1>6, <1>7, <1>8, <1>9 DEF IocpNext

\* Whoever sends, and however the WSASends are cut, the units leave once and in
\* order, and a packet is completed only when its units are out: at most one
\* WSASend is under way, and it starts at the first unit that has not left.
THEOREM UnitsLeaveInOrder == IocpSpec => []WireInOrder
  <1>1. WInv => WireInOrder
    <2> SUFFICES ASSUME WInv PROVE WireInOrder
      OBVIOUS
    <2>1. wire = [i \in 1 .. Len(wire) |-> i]
      BY DEF WInv, Position
    <2>2. Done \in Int /\ Len(wire) \in Nat
      BY IocpAssumption DEF WInv, IInv, TypesOK, Done, Position
    <2>3. CASE HasSend(port)
      <3>1. PICK i \in DOMAIN port : port[i].op = "send"
        BY <2>3 DEF HasSend
      <3>2. port[i] \in Completion /\ Len(wire) = Done + port[i].bytes
        BY <3>1 DEF WInv, IInv, TypesOK, Position
      <3>3. port[i].bytes \in Nat
        BY <3>2 DEF Completion
      <3> QED  BY <2>1, <2>2, <3>2, <3>3 DEF WireInOrder, Done
    <2>4. CASE ~HasSend(port)
      BY <2>1, <2>2, <2>4 DEF WInv, Position, WireInOrder, Done
    <2> QED  BY <2>3, <2>4
  <1> QED  BY <1>1, WInit, WNext, PTL DEF IocpSpec

-----------------------------------------------------------------------------
(* The stacks of the pool.                                                   *)

\* A set of numbers with a bound has a least element: with it a statement about
\* all places of a chain is proved by looking at the first that breaks it.
LEMMA LeastOfSet ==
    ASSUME NEW N \in Nat, NEW S \in SUBSET (0 .. N), S # {}
    PROVE  \E x \in S : \A y \in S : x <= y
<1> DEFINE Below == {0 .. n : n \in S}
<1>1. IsWellFoundedOn(StrictSubsetOrdering(0 .. N), SUBSET (0 .. N))
    <2>1. IsFiniteSet(0 .. N)
        BY FS_Interval
    <2> QED
        BY ONLY <2>1, FS_FiniteSubsetsOfFinite, FS_StrictSubsetOrderingWellFounded
<1>2. Below \in SUBSET SUBSET (0 .. N) /\ Below # {}
    <2>1. \A n \in S : (0 .. n) \in SUBSET (0 .. N)
        OBVIOUS
    <2> QED
        BY <2>1
<1>3. PICK b \in Below : \A c \in Below : <<c, b>> \notin StrictSubsetOrdering(0 .. N)
    BY ONLY <1>1, <1>2, WFMin
<1>4. PICK x \in S : b = 0 .. x
    BY <1>3
<1>5. ASSUME NEW y \in S, y < x PROVE FALSE
    <2>1. (0 .. y) \subseteq (0 .. x) /\ (0 .. y) # (0 .. x) /\ (0 .. y) \in Below
        BY <1>5
    <2>2. (0 .. x) \in SUBSET (0 .. N) /\ (0 .. y) \in SUBSET (0 .. N)
        OBVIOUS
    <2>3. <<0 .. y, 0 .. x>> \in StrictSubsetOrdering(0 .. N)
        BY <2>1, <2>2 DEF StrictSubsetOrdering
    <2> QED
        BY <2>1, <2>3, <1>3, <1>4
<1> QED
    BY <1>5

Class == 0 .. Classes - 1
Members(q) == {q[k] : k \in 1 .. Len(q)}
\* The buffers of q hang on each other from top to Null, each of them once.
Linked(q, top, links) ==
    /\ q \in Seq(Buffers) /\ links \in [Buffers -> Buffers \cup {Null}]
    /\ top = IF q = <<>> THEN Null ELSE q[1]
    /\ \A k \in 1 .. Len(q) : links[q[k]] = IF k = Len(q) THEN Null ELSE q[k + 1]
    /\ \A j, k \in 1 .. Len(q) : q[j] = q[k] => j = k

\* The top is taken off, or a buffer is put on it that is linked to it.
LEMMA Popped ==
    ASSUME NEW q, NEW top, NEW links, Linked(q, top, links), top # Null
    PROVE  /\ Linked(Tail(q), links[top], links)
           /\ Members(q) = Members(Tail(q)) \cup {top} /\ top \notin Members(Tail(q))
<1>1. q # <<>> /\ q \in Seq(Buffers) /\ Len(q) \in Nat \ {0} /\ top = q[1]
    BY DEF Linked
<1>2. /\ Tail(q) \in Seq(Buffers) /\ Len(Tail(q)) = Len(q) - 1
      /\ \A k \in 1 .. Len(q) - 1 : Tail(q)[k] = q[k + 1]
    BY <1>1
<1> DEFINE r == Tail(q)
<1> HIDE DEF r
<1>3. r \in Seq(Buffers) /\ (r = <<>> <=> Len(q) = 1) /\ Len(r) = Len(q) - 1
    <2>1. r = <<>> <=> Len(r) = 0
        BY <1>2, EmptySeq DEF r
    <2> QED
        BY <1>1, <1>2, <2>1 DEF r
<1>4. Linked(Tail(q), links[top], links)
    <2>1. \A k \in 1 .. Len(r) : k + 1 \in 1 .. Len(q) /\ r[k] = q[k + 1]
        BY <1>1, <1>2, <1>3 DEF r
    <2>2. links[top] = IF r = <<>> THEN Null ELSE r[1]
        <3>1. links[q[1]] = IF 1 = Len(q) THEN Null ELSE q[2]
            <4>1. 1 \in 1 .. Len(q) /\ 1 + 1 = 2
                BY <1>1
            <4>2. \A k \in 1 .. Len(q) : links[q[k]] = IF k = Len(q) THEN Null ELSE q[k + 1]
                BY DEF Linked
            <4> QED
                BY <4>1, <4>2
        <3>2. Len(q) # 1 => r[1] = q[2]
            BY <1>1, <1>3, <2>1
        <3> QED
            BY <1>1, <1>3, <3>1, <3>2
    <2>3. \A k \in 1 .. Len(r) : links[r[k]] = IF k = Len(r) THEN Null ELSE r[k + 1]
        <3> SUFFICES ASSUME NEW k \in 1 .. Len(r)
                     PROVE  links[r[k]] = IF k = Len(r) THEN Null ELSE r[k + 1]
            OBVIOUS
        <3>1. links[q[k + 1]] = IF k + 1 = Len(q) THEN Null ELSE q[k + 2]
            BY <1>1, <2>1 DEF Linked
        <3>2. k # Len(r) => r[k + 1] = q[k + 2]
            BY <1>1, <1>3, <2>1
        <3> QED
            BY <1>1, <1>3, <2>1, <3>1, <3>2
    <2>4. \A j, k \in 1 .. Len(r) : r[j] = r[k] => j = k
        <3> SUFFICES ASSUME NEW j \in 1 .. Len(r), NEW k \in 1 .. Len(r), r[j] = r[k]
                     PROVE  j = k
            OBVIOUS
        <3>1. j + 1 = k + 1
            BY <2>1 DEF Linked
        <3> QED
            BY <1>1, <1>3, <3>1
    <2> QED
        BY <1>3, <2>2, <2>3, <2>4 DEF Linked, r
<1>5. top \notin Members(Tail(q))
    <2> SUFFICES ASSUME NEW k \in 1 .. Len(q) - 1, q[k + 1] = top PROVE FALSE
        BY <1>1, <1>2 DEF Members
    <2>1. 1 \in 1 .. Len(q) /\ k + 1 \in 1 .. Len(q)
        BY <1>1
    <2>2. 1 = k + 1
        BY <1>1, <2>1 DEF Linked
    <2> QED
        BY <1>1, <2>2
<1>6. Members(q) \subseteq Members(Tail(q)) \cup {top}
    <2> SUFFICES ASSUME NEW k \in 1 .. Len(q), k # 1 PROVE q[k] \in Members(Tail(q))
        BY <1>1 DEF Members
    <2>1. k - 1 \in 1 .. Len(Tail(q)) /\ Tail(q)[k - 1] = q[k]
        BY <1>1, <1>2
    <2> QED
        BY <2>1 DEF Members
<1>7. Members(Tail(q)) \cup {top} \subseteq Members(q)
    <2>1. \A k \in 1 .. Len(q) - 1 : k + 1 \in 1 .. Len(q)
        BY <1>1
    <2> QED
        BY <1>1, <1>2, <2>1 DEF Members
<1> QED
    BY <1>4, <1>5, <1>6, <1>7

LEMMA Pushed ==
    ASSUME NEW q, NEW top, NEW links, Linked(q, top, links),
           NEW b \in Buffers, b \notin Members(q), links[b] = top
    PROVE  Linked(<<b>> \o q, b, links) /\ Members(<<b>> \o q) = Members(q) \cup {b}
<1> DEFINE r == <<b>> \o q
<1>1. q \in Seq(Buffers) /\ Len(q) \in Nat
    BY DEF Linked
<1>2. /\ r \in Seq(Buffers) /\ Len(r) = Len(q) + 1 /\ r # <<>> /\ r[1] = b
      /\ \A k \in 1 .. Len(q) : r[k + 1] = q[k]
    BY <1>1
<1>3. \A k \in 1 .. Len(r) : k = 1 \/ (k - 1 \in 1 .. Len(q) /\ r[k] = q[k - 1])
    BY <1>1, <1>2
<1> HIDE DEF r
<1>4. \A k \in 1 .. Len(r) : links[r[k]] = IF k = Len(r) THEN Null ELSE r[k + 1]
    <2> SUFFICES ASSUME NEW k \in 1 .. Len(r)
                 PROVE  links[r[k]] = IF k = Len(r) THEN Null ELSE r[k + 1]
        OBVIOUS
    <2>1. CASE k = 1
        <3>1. q = <<>> <=> Len(q) = 0
            BY <1>1
        <3> QED
            BY <1>1, <1>2, <2>1, <3>1 DEF Linked
    <2>2. CASE k # 1
        BY <1>1, <1>2, <1>3, <2>2 DEF Linked
    <2> QED
        BY <2>1, <2>2
<1>5. \A j, k \in 1 .. Len(r) : r[j] = r[k] => j = k
    <2> SUFFICES ASSUME NEW j \in 1 .. Len(r), NEW k \in 1 .. Len(r), r[j] = r[k], j # 1 \/ k # 1
                 PROVE  j = k
        OBVIOUS
    <2>1. j # 1 /\ k # 1
        BY <1>2, <1>3 DEF Members
    <2>2. j - 1 = k - 1
        BY <1>3, <2>1 DEF Linked
    <2> QED
        BY <1>2, <2>2
<1>6. Linked(r, b, links)
    BY <1>2, <1>4, <1>5 DEF Linked
<1>7. Members(r) = Members(q) \cup {b}
    <2>1. \A k \in 1 .. Len(q) : k + 1 \in 1 .. Len(r)
        BY <1>1, <1>2
    <2>2. 1 \in 1 .. Len(r)
        BY <1>1, <1>2
    <2>3. Members(r) \subseteq Members(q) \cup {b}
        BY <1>2, <1>3 DEF Members
    <2>4. Members(q) \cup {b} \subseteq Members(r)
        BY <1>2, <2>1, <2>2 DEF Members
    <2> QED
        BY <2>3, <2>4
<1> QED
    BY <1>6, <1>7 DEF r

\* The other buffers may be linked anew.
LEMMA StillLinked ==
    ASSUME NEW q, NEW top, NEW links, Linked(q, top, links),
           NEW other \in [Buffers -> Buffers \cup {Null}],
           \A b \in Members(q) : other[b] = links[b]
    PROVE  Linked(q, top, other)
BY DEF Linked, Members

\* There are no more buffers in a stack than addresses.
LEMMA StackFits ==
    ASSUME NEW q, NEW top, NEW links, Linked(q, top, links)
    PROVE  Len(q) <= Cardinality(Buffers) /\ Cardinality(Buffers) \in Nat
<1>1. q \in Seq(Buffers) /\ Len(q) \in Nat /\ IsFiniteSet(Buffers)
    BY PoolAssumption DEF Linked
<1>2. q \in Injection(1 .. Len(q), Buffers)
    <2>1. q \in [1 .. Len(q) -> Buffers]
        BY <1>1
    <2> QED
        BY <2>1 DEF Linked, Injection, IsInjective
<1>3. Cardinality(1 .. Len(q)) = Len(q)
    <2>1. 1 \in Int /\ Len(q) \in Int
        BY <1>1
    <2>2. Cardinality(1 .. Len(q)) = IF 1 > Len(q) THEN 0 ELSE Len(q) - 1 + 1
        BY ONLY <2>1, FS_Interval
    <2> QED
        BY <1>1, <2>2
<1> QED
    BY <1>1, <1>2, <1>3, FS_Injection, FS_CardinalityType

\* Chain walks down a stack and stays at its end: what it should read satisfies
\* its equation, and two functions that do cannot differ at a first place.
Walk(f, i) == f = [k \in 0 .. Cardinality(Buffers) |->
                      IF k = 0 THEN head[i] ELSE IF f[k - 1] = Null THEN Null ELSE next[f[k - 1]]]
LEMMA ChainIsWalked ==
    ASSUME NEW i, NEW q, Linked(q, head[i], next)
    PROVE  Chain(i) = [k \in 0 .. Cardinality(Buffers) |-> IF k < Len(q) THEN q[k + 1] ELSE Null]
<1> DEFINE N == Cardinality(Buffers)
           g == [k \in 0 .. N |-> IF k < Len(q) THEN q[k + 1] ELSE Null]
<1>1. N \in Nat /\ Len(q) \in Nat /\ q \in Seq(Buffers) /\ Len(q) <= N /\ Null \notin Buffers
    BY StackFits, PoolAssumption DEF Linked
<1>2. g[0] = head[i]
    <2>1. q = <<>> <=> Len(q) = 0
        BY <1>1
    <2> QED
        BY <1>1, <2>1 DEF Linked
<1> HIDE DEF N
<1>3. \A k \in 0 .. N : k # 0 => g[k] = IF g[k - 1] = Null THEN Null ELSE next[g[k - 1]]
    <2> SUFFICES ASSUME NEW k \in 0 .. N, k # 0
                 PROVE  g[k] = IF g[k - 1] = Null THEN Null ELSE next[g[k - 1]]
        OBVIOUS
    <2>1. k - 1 \in 0 .. N
        BY <1>1
    <2>2. CASE k - 1 < Len(q)
        <3>1. g[k - 1] = q[k] /\ k \in 1 .. Len(q) /\ q[k] \in Buffers
            BY <1>1, <2>1, <2>2
        <3>2. next[q[k]] = IF k = Len(q) THEN Null ELSE q[k + 1]
            BY <3>1 DEF Linked
        <3> QED
            BY <1>1, <3>1, <3>2
    <2>3. CASE ~(k - 1 < Len(q))
        BY <1>1, <2>1, <2>3
    <2> QED
        BY <2>2, <2>3
<1>4. Walk(g, i)
    BY <1>2, <1>3 DEF Walk, N
<1>5. Chain(i) = CHOOSE f : Walk(f, i)
    BY DEF Chain, Walk
<1>6. Walk(Chain(i), i)
    BY <1>4, <1>5
<1> DEFINE c == Chain(i)
           Bad == {k \in 0 .. N : c[k] # g[k]}
<1>7. /\ c = [k \in 0 .. N |-> c[k]] /\ c[0] = head[i]
      /\ \A k \in 0 .. N : k # 0 => c[k] = IF c[k - 1] = Null THEN Null ELSE next[c[k - 1]]
    BY <1>1, <1>6 DEF Walk, N
<1> HIDE DEF c, g
<1>8. Bad = {}
    <2> SUFFICES ASSUME Bad # {} PROVE FALSE
        OBVIOUS
    <2>1. PICK k \in Bad : \A j \in Bad : k <= j
        BY <1>1, LeastOfSet
    <2>2. k \in 0 .. N /\ k # 0 /\ k - 1 \in 0 .. N /\ k - 1 \notin Bad
        BY <1>1, <1>2, <1>7, <2>1
    <2>3. c[k - 1] = g[k - 1] /\ c[k] # g[k]
        BY <2>1, <2>2
    <2> QED
        BY <1>3, <1>7, <2>2, <2>3
<1>9. c = g
    BY <1>7, <1>8 DEF g
<1> QED
    BY <1>9 DEF c, g, N

\* What Pooled reads off a stack, and that the walk has come to its end.
LEMMA StackIsPooled ==
    ASSUME NEW i, NEW q, Linked(q, head[i], next)
    PROVE  Pooled(i) = Members(q) /\ Chain(i)[Cardinality(Buffers)] = Null
<1> DEFINE N == Cardinality(Buffers)
           c == Chain(i)
<1>1. N \in Nat /\ Len(q) \in Nat /\ Len(q) <= N /\ q \in Seq(Buffers) /\ Null \notin Buffers
    BY StackFits, PoolAssumption DEF Linked
<1>2. c = [k \in 0 .. N |-> IF k < Len(q) THEN q[k + 1] ELSE Null]
    BY ChainIsWalked
<1>3. Pooled(i) = {c[k] : k \in 0 .. N} \ {Null}
    BY <1>2 DEF Pooled
<1> HIDE DEF N, c
<1>4. Pooled(i) \subseteq Members(q)
    <2> SUFFICES ASSUME NEW k \in 0 .. N, c[k] # Null PROVE c[k] \in Members(q)
        BY <1>3
    <2>1. k < Len(q) /\ c[k] = q[k + 1] /\ k + 1 \in 1 .. Len(q)
        BY <1>1, <1>2
    <2> QED
        BY <2>1 DEF Members
<1>5. Members(q) \subseteq Pooled(i)
    <2> SUFFICES ASSUME NEW k \in 1 .. Len(q) PROVE q[k] \in Pooled(i)
        BY DEF Members
    <2>1. k - 1 \in 0 .. N /\ c[k - 1] = q[k] /\ q[k] # Null
        BY <1>1, <1>2
    <2> QED
        BY <1>3, <2>1
<1>6. c[N] = Null
    BY <1>1, <1>2
<1> QED
    BY <1>4, <1>5, <1>6 DEF N, c

-----------------------------------------------------------------------------
(* The inductive invariant of the pool.                                      *)

Steps == {"idle", "load", "new", "next", "exchange"}
Popping(t) == allocAt[t] \in {"next", "exchange"}
Lengths == {0} \cup {NewBuffer(size).size : size \in Sizes}
PoolTypes ==
    /\ head \in [Class -> Buffers \cup {Null}] /\ next \in [Buffers -> Buffers \cup {Null}]
    /\ capacity \in [Buffers -> Lengths] /\ in_use \subseteq Buffers
    /\ recycled \in Buffers \cup {Null}
    /\ allocAt \in [Allocators -> Steps] /\ want \in [Allocators -> Sizes \cup {0}]
    /\ ptr \in [Allocators -> Buffers \cup {Null}] /\ after \in [Allocators -> Buffers \cup {Null}]
    /\ \A t \in Allocators : allocAt[t] # "idle" => want[t] \in Sizes
    /\ \A t \in Allocators : Popping(t) => ptr[t] \in Buffers
OneAllocator == \A t, u \in Allocators : t = u
\* What is lent or taken back, and what the only thread has read of a buffer it
\* wants.
InHand ==
    /\ \A b \in in_use \cup ({recycled} \ {Null}) : capacity[b] # 0
    /\ recycled \notin in_use
    /\ recycled # Null => next[recycled] = below
    /\ OneAllocator => \A t \in Allocators : allocAt[t] = "exchange" => after[t] = next[ptr[t]]
\* The stack Q[i] of each class.  A buffer that a thread tries to pop stays in
\* its stack if no other thread pops.
Stacked(Q) ==
    /\ \A i \in Class : Linked(Q[i], head[i], next)
    /\ \A i \in Class : \A b \in Members(Q[i]) :
          /\ capacity[b] # 0 /\ GetIndex(capacity[b]) = i
          /\ b \notin in_use /\ b # recycled
    /\ \A b \in Buffers : \/ capacity[b] = 0 \/ b \in in_use \/ b = recycled
                          \/ \E i \in Class : b \in Members(Q[i])
    /\ OneAllocator => \A t \in Allocators :
                          Popping(t) => ptr[t] \in Members(Q[GetIndex(want[t])])
Stacks == [Class -> Seq(Buffers)]
PoolInv == stale = FALSE /\ PoolTypes /\ InHand /\ \E Q \in Stacks : Stacked(Q)

\* What get_index returns is an index of pool_.
LEMMA ClassOfSize ==
    ASSUME NEW size, size \in Sizes \/ size \in Lengths \ {0}
    PROVE  GetIndex(size) \in Class
<1>1. \E i \in 0 .. Classes - 1 : InClass(size, i)
    BY ClassAssumption DEF Lengths
<1> QED
    BY <1>1 DEF GetIndex, Class

LEMMA MemberOfStack ==
    ASSUME NEW Q \in Stacks, Stacked(Q), NEW i \in Class
    PROVE  Members(Q[i]) \subseteq Buffers
BY DEF Stacks, Members

LEMMA LengthsNat == Lengths \subseteq Nat
<1>1. \A size \in Sizes : NewBuffer(size).size = Most(size, MinBufferSize)
    BY DEF NewBuffer
<1>2. \A size \in Sizes : Most(size, MinBufferSize) \in Nat
    BY PoolAssumption DEF Most
<1> QED
    BY <1>1, <1>2 DEF Lengths

\* The capacity of a buffer, after the packet is written to it.
LEMMA LentSize ==
    ASSUME PoolTypes, NEW t \in Allocators, want[t] \in Sizes, NEW b \in Buffers
    PROVE  Most(capacity[b], NewBuffer(want[t]).size) \in Lengths \ {0}
<1>1. NewBuffer(want[t]).size \in Lengths \ {0} /\ Lengths \subseteq Nat
    <2>1. \A size \in Sizes : NewBuffer(size).size = Most(size, MinBufferSize)
        BY DEF NewBuffer
    <2>2. \A size \in Sizes : Most(size, MinBufferSize) \in Nat \ {0}
        BY PoolAssumption DEF Most
    <2>3. \A size \in Sizes : NewBuffer(size).size \in Nat \ {0}
        BY <2>1, <2>2
    <2> HIDE DEF NewBuffer
    <2> QED
        BY <2>3 DEF Lengths
<1>2. capacity[b] \in Lengths
    BY DEF PoolTypes
<1> DEFINE m == NewBuffer(want[t]).size
           c == capacity[b]
<1> HIDE DEF m, c
<1>3. c \in Nat /\ m \in Nat \ {0} /\ c \in Lengths /\ m \in Lengths
    BY <1>1, <1>2 DEF m, c
<1>4. Most(c, m) \in Lengths \ {0}
    BY <1>3 DEF Most
<1> QED
    BY <1>4 DEF m, c

\* The invariant holds at first, and every step keeps it; the steps that change
\* a stack come with the stack that they leave.
LEMMA PoolStarts == PoolInit => PoolInv
<1> SUFFICES ASSUME PoolInit PROVE PoolInv
    OBVIOUS
<1>1. PoolTypes /\ InHand
    BY DEF PoolInit, PoolTypes, InHand, Class, Lengths, Steps, Popping
<1> DEFINE Q == [i \in Class |-> <<>>]
<1>2. Q \in Stacks
    BY DEF Stacks
<1>3. \A i \in Class : Linked(Q[i], head[i], next) /\ Members(Q[i]) = {}
    BY DEF PoolInit, Linked, Members, Class
<1>4. Stacked(Q)
    BY <1>3 DEF PoolInit, Stacked, Popping
<1> QED
    BY <1>1, <1>2, <1>4 DEF PoolInv, PoolInit

\* A step that leaves the stacks as they are.
LEMMA StacksStay ==
    ASSUME NEW Q \in Stacks, Stacked(Q), UNCHANGED head,
           next' \in [Buffers -> Buffers \cup {Null}],
           \A i \in Class : \A b \in Members(Q[i]) :
               /\ next'[b] = next[b] /\ capacity'[b] = capacity[b]
               /\ b \notin in_use' /\ b # recycled',
           \A b \in Buffers : \/ capacity'[b] = 0 \/ b \in in_use' \/ b = recycled'
                              \/ \E i \in Class : b \in Members(Q[i]),
           OneAllocator => \A t \in Allocators :
                              Popping(t)' => ptr'[t] \in Members(Q[GetIndex(want'[t])])
    PROVE  Stacked(Q)'
<1>1. \A i \in Class : Linked(Q[i], head'[i], next')
    BY StillLinked DEF Stacked
<1> QED
    BY <1>1 DEF Stacked, Popping

\* Steps of a thread before it has a buffer.
LEMMA AllocReads ==
    ASSUME PoolInv, NEW t \in Allocators, StartAlloc(t) \/ Load(t) \/ ReadNext(t)
    PROVE  PoolInv'
<1> USE DEF PoolInv
<1>1. PICK Q \in Stacks : Stacked(Q)
    OBVIOUS
<1>2. UNCHANGED <<head, next, capacity, in_use, recycled, below, stale>>
    BY DEF StartAlloc, Load, ReadNext
<1>3. PoolTypes'
    <2>1. CASE StartAlloc(t)
        BY <2>1, <1>2 DEF PoolTypes, StartAlloc, Steps, Popping
    <2>2. CASE Load(t)
        <3>1. GetIndex(want[t]) \in Class
            BY <2>2, ClassOfSize DEF PoolTypes, Load
        <3>2. head[GetIndex(want[t])] \in Buffers \cup {Null}
            BY <3>1 DEF PoolTypes
        <3> QED
            BY <2>2, <1>2, <3>2, PoolAssumption DEF PoolTypes, Load, Steps, Popping
    <2>3. CASE ReadNext(t)
        <3>1. ptr[t] \in Buffers
            BY <2>3 DEF PoolTypes, Popping, ReadNext
        <3>2. PICK b \in Buffers \cup {Null} : after' = [after EXCEPT ![t] = b]
            BY <2>3, <3>1 DEF PoolTypes, ReadNext
        <3> QED
            BY <2>3, <1>2, <3>2 DEF PoolTypes, ReadNext, Steps, Popping
    <2> QED
        BY <2>1, <2>2, <2>3
<1>4. InHand'
    <2>1. CASE StartAlloc(t) \/ Load(t)
        BY <1>2, <2>1 DEF PoolTypes, InHand, StartAlloc, Load
    <2>2. CASE ReadNext(t)
        <3>1. ASSUME OneAllocator PROVE after' = [after EXCEPT ![t] = next[ptr[t]]]
            <4>1. /\ want[t] \in Sizes /\ GetIndex(want[t]) \in Class
                  /\ ptr[t] \in Members(Q[GetIndex(want[t])])
                BY <1>1, <2>2, <3>1, ClassOfSize DEF PoolTypes, Stacked, Popping, ReadNext
            <4>2. capacity[ptr[t]] # 0 /\ ptr[t] \in Buffers
                BY <1>1, <4>1, MemberOfStack DEF Stacked
            <4>3. capacity[ptr[t]] > 0
                <5>1. \A l \in Lengths : l # 0 => l > 0
                    BY LengthsNat
                <5>2. capacity[ptr[t]] \in Lengths
                    BY <4>2 DEF PoolTypes
                <5> QED
                    BY <4>2, <5>1, <5>2
            <4> QED
                BY <2>2, <4>3 DEF ReadNext
        <3> QED
            BY <1>2, <2>2, <3>1 DEF PoolTypes, InHand, ReadNext
    <2> QED
        BY <2>1, <2>2
<1>5. OneAllocator => \A u \in Allocators :
          Popping(u)' => ptr'[u] \in Members(Q[GetIndex(want'[u])])
    <2> SUFFICES ASSUME OneAllocator, NEW u \in Allocators, Popping(u)'
                 PROVE  ptr'[u] \in Members(Q[GetIndex(want'[u])])
        OBVIOUS
    <2>1. CASE Popping(u) /\ ptr'[u] = ptr[u] /\ want'[u] = want[u]
        BY <1>1, <2>1 DEF Stacked
    <2>2. CASE Load(t) /\ u = t
        <3> DEFINE i == GetIndex(want[t])
        <3>1. i \in Class /\ want'[t] = want[t] /\ ptr'[t] = head[i] /\ head[i] # Null
            BY <2>2, ClassOfSize DEF PoolTypes, Load, Popping
        <3>2. head[i] \in Members(Q[i])
            BY <1>1, <3>1, Popped DEF Stacked
        <3> QED
            BY <2>2, <3>1, <3>2
    <2> QED
        BY <2>1, <2>2 DEF PoolTypes, Popping, StartAlloc, Load, ReadNext
<1>6. Stacked(Q)'
    <2>1. next' \in [Buffers -> Buffers \cup {Null}]
        BY <1>2 DEF PoolTypes
    <2> QED
        BY <1>1, <1>2, <1>5, <2>1, StacksStay DEF Stacked
<1> QED
    BY <1>2, <1>3, <1>4, <1>6

\* No buffer in the stack: a new one, at an address that is free.
LEMMA NewKeeps ==
    ASSUME PoolInv, NEW t \in Allocators, New(t)
    PROVE  PoolInv'
<1> USE DEF PoolInv
<1>1. PICK Q \in Stacks : Stacked(Q)
    OBVIOUS
<1>2. PICK b \in Buffers : capacity[b] = 0 /\ Lend(t, b) /\ next' = [next EXCEPT ![b] = Null]
    BY DEF New
<1>3. UNCHANGED <<head, recycled, below, stale>>
    BY DEF New
<1>4. Most(capacity[b], NewBuffer(want[t]).size) \in Lengths \ {0}
    BY LentSize DEF PoolTypes, New
<1>5. /\ in_use' = in_use \cup {b} /\ allocAt' = [allocAt EXCEPT ![t] = "idle"]
      /\ want' = [want EXCEPT ![t] = 0]
      /\ ptr' = [ptr EXCEPT ![t] = Null] /\ after' = [after EXCEPT ![t] = Null]
      /\ capacity' \in [Buffers -> Lengths] /\ capacity'[b] # 0
      /\ \A c \in Buffers \ {b} : capacity'[c] = capacity[c]
    BY <1>2, <1>4 DEF Lend, PoolTypes
<1>6. PoolTypes'
    BY <1>2, <1>3, <1>5 DEF PoolTypes, Steps, Popping
<1>7. b # recycled /\ b \notin in_use
    BY <1>2, PoolAssumption DEF InHand, PoolTypes
<1>8. OneAllocator => \A u \in Allocators : allocAt'[u] = "idle"
    BY <1>5 DEF PoolTypes, OneAllocator
<1>9. InHand'
    BY <1>2, <1>3, <1>5, <1>7, <1>8 DEF InHand, PoolTypes
<1>10. Stacked(Q)'
    <2>1. next' \in [Buffers -> Buffers \cup {Null}]
        BY <1>6 DEF PoolTypes
    <2>2. \A i \in Class : b \notin Members(Q[i]) /\ Members(Q[i]) \subseteq Buffers
        BY <1>1, <1>2, MemberOfStack DEF Stacked
    <2>3. \A i \in Class : \A c \in Members(Q[i]) :
              /\ next'[c] = next[c] /\ capacity'[c] = capacity[c]
              /\ c \notin in_use' /\ c # recycled'
        BY <1>1, <1>2, <1>3, <1>5, <2>2 DEF Stacked, PoolTypes
    <2>4. \A c \in Buffers : \/ capacity'[c] = 0 \/ c \in in_use' \/ c = recycled'
                             \/ \E i \in Class : c \in Members(Q[i])
        BY <1>1, <1>3, <1>5 DEF Stacked
    <2>5. OneAllocator => \A u \in Allocators : ~Popping(u)'
        BY <1>8 DEF Popping
    <2> QED
        BY <1>1, <1>3, <2>1, <2>3, <2>4, <2>5, StacksStay
<1> QED
    BY <1>3, <1>6, <1>9, <1>10

\* The top of the stack is what the thread saw: it is taken off, and what the
\* thread read of it is the next top unless it is out of date.
LEMMA PopKeeps ==
    ASSUME PoolInv, NEW t \in Allocators, Exchange(t), ~stale'
    PROVE  PoolInv'
<1> USE DEF PoolInv
<1> DEFINE i == GetIndex(want[t])
           b == ptr[t]
<1>1. PICK Q \in Stacks : Stacked(Q)
    OBVIOUS
<1>2. UNCHANGED <<next, recycled, below>> /\ allocAt[t] = "exchange"
    BY DEF Exchange
<1>3. /\ want[t] \in Sizes /\ i \in Class /\ b \in Buffers
      /\ Members(Q[i]) \subseteq Buffers
    BY <1>1, <1>2, ClassOfSize, MemberOfStack DEF PoolTypes, Popping
<1> HIDE DEF i, b
<1>4. CASE /\ head[i] = b /\ head' = [head EXCEPT ![i] = after[t]] /\ Lend(t, b)
           /\ stale' = (stale \/ after[t] # next[b])
    <2>0. stale' = FALSE /\ after[t] = next[b] /\ b \in Members(Q[i])
        <3>1. stale' = FALSE /\ after[t] = next[b]
            BY <1>4
        <3>2. Linked(Q[i], head[i], next) /\ head[i] # Null
            BY <1>1, <1>3, <1>4, PoolAssumption DEF Stacked
        <3> QED
            BY <1>4, <3>1, <3>2, Popped
    <2>1. Most(capacity[b], NewBuffer(want[t]).size) \in Lengths \ {0}
        BY <1>3, LentSize
    <2>2. /\ in_use' = in_use \cup {b} /\ allocAt' = [allocAt EXCEPT ![t] = "idle"]
          /\ want' = [want EXCEPT ![t] = 0]
          /\ ptr' = [ptr EXCEPT ![t] = Null] /\ after' = [after EXCEPT ![t] = Null]
          /\ capacity' \in [Buffers -> Lengths] /\ capacity'[b] # 0
          /\ \A c \in Buffers \ {b} : capacity'[c] = capacity[c]
        BY <1>3, <1>4, <2>1 DEF Lend, PoolTypes
    <2>3. PoolTypes'
        <3>1. after[t] \in Buffers \cup {Null}
            BY DEF PoolTypes
        <3> QED
            BY <1>2, <1>3, <1>4, <2>2, <3>1 DEF PoolTypes, Steps, Popping
    <2>4. b # Null /\ b # recycled /\ b \notin in_use
        BY <1>1, <1>3, <2>0, PoolAssumption DEF Stacked
    <2>5. OneAllocator => \A u \in Allocators : allocAt'[u] = "idle"
        BY <2>2 DEF PoolTypes, OneAllocator
    <2>6. InHand'
        BY <1>2, <2>2, <2>4, <2>5 DEF InHand, PoolTypes
    <2>7. /\ Linked(Tail(Q[i]), next[b], next)
          /\ Members(Q[i]) = Members(Tail(Q[i])) \cup {b} /\ b \notin Members(Tail(Q[i]))
        <3>1. Linked(Q[i], b, next)
            BY <1>1, <1>3, <1>4 DEF Stacked
        <3> QED
            BY ONLY <3>1, <2>4, Popped
    <2>8. Tail(Q[i]) \in Seq(Buffers)
        BY <2>7 DEF Linked
    <2>9. PICK R \in Stacks : R[i] = Tail(Q[i]) /\ \A j \in Class \ {i} : R[j] = Q[j]
        <3>1. [Q EXCEPT ![i] = Tail(Q[i])] \in Stacks
            BY <2>8 DEF Stacks
        <3> QED
            BY <1>3, <3>1 DEF Stacks
    <2>10. \A j \in Class \ {i} : b \notin Members(Q[j])
        BY <1>1, <1>3, <2>0 DEF Stacked
    <2>11. \A j \in Class : /\ Members(R[j]) \subseteq Members(Q[j]) /\ b \notin Members(R[j])
                            /\ Members(R[j]) \subseteq Buffers
        BY <1>1, <2>7, <2>9, <2>10, MemberOfStack
    <2>12. \A j \in Class : Linked(R[j], head'[j], next')
        BY <1>1, <1>2, <1>3, <1>4, <2>0, <2>7, <2>9 DEF Stacked, PoolTypes
    <2>13. \A j \in Class : \A c \in Members(R[j]) :
              /\ capacity'[c] # 0 /\ GetIndex(capacity'[c]) = j
              /\ c \notin in_use' /\ c # recycled'
        BY <1>1, <1>2, <2>2, <2>11 DEF Stacked
    <2>14. \A c \in Buffers : \/ capacity'[c] = 0 \/ c \in in_use' \/ c = recycled'
                              \/ \E j \in Class : c \in Members(R[j])
        BY <1>1, <1>2, <1>3, <2>2, <2>7, <2>9 DEF Stacked
    <2>15. OneAllocator => \A u \in Allocators : ~Popping(u)'
        BY <2>5 DEF Popping
    <2>16. Stacked(R)'
        BY <2>12, <2>13, <2>14, <2>15 DEF Stacked
    <2> QED
        BY <2>0, <2>3, <2>6, <2>9, <2>16
<1>5. CASE /\ allocAt' = [allocAt EXCEPT ![t] = "load"]
           /\ ptr' = [ptr EXCEPT ![t] = Null] /\ after' = [after EXCEPT ![t] = Null]
           /\ UNCHANGED <<head, in_use, capacity, want, stale>>
    <2>1. PoolTypes'
        BY <1>2, <1>3, <1>5 DEF PoolTypes, Steps, Popping
    <2>2. InHand'
        BY <1>2, <1>5 DEF PoolTypes, InHand
    <2>3. Stacked(Q)'
        BY <1>1, <1>2, <1>5 DEF PoolTypes, Stacked, Popping
    <2> QED
        BY <1>5, <2>1, <2>2, <2>3
<1> QED
    BY <1>4, <1>5 DEF Exchange, i, b

\* A packet's buffer is taken back and linked above the top.
LEMMA TakeBackKeeps ==
    ASSUME PoolInv, NEW b \in Buffers, RecycleLoad(b)
    PROVE  PoolInv'
<1> USE DEF PoolInv
<1> DEFINE top == head[GetIndex(capacity[b])]
<1>1. PICK Q \in Stacks : Stacked(Q)
    OBVIOUS
<1>2. /\ recycled' = b /\ in_use' = in_use \ {b} /\ below' = top
      /\ next' = [next EXCEPT ![b] = top]
      /\ UNCHANGED <<head, capacity, allocAt, want, ptr, after, stale>>
    BY DEF RecycleLoad
<1>3. b \in in_use \/ b = recycled
    BY DEF RecycleLoad
<1>4. recycled = Null \/ b = recycled
    BY DEF RecycleLoad
<1>5. capacity[b] # 0
    BY <1>3, PoolAssumption DEF InHand
<1>6. GetIndex(capacity[b]) \in Class
    <2>1. capacity[b] \in Lengths
        BY DEF PoolTypes
    <2> QED
        BY <1>5, <2>1, ClassOfSize
<1>7. top \in Buffers \cup {Null}
    BY <1>6 DEF PoolTypes
<1> HIDE DEF top
<1>8. PoolTypes'
    BY <1>2, <1>7 DEF PoolTypes, Popping
<1>9. \A i \in Class : b \notin Members(Q[i]) /\ Members(Q[i]) \subseteq Buffers
    BY <1>1, <1>3, MemberOfStack DEF Stacked
<1>10. OneAllocator => \A t \in Allocators : Popping(t) => ptr[t] \in Buffers /\ ptr[t] # b
    BY <1>1, <1>9, ClassOfSize DEF Stacked, Popping, PoolTypes
<1>11. InHand'
    BY <1>2, <1>5, <1>10 DEF InHand, PoolTypes, Popping
<1>12. Stacked(Q)'
    <2>1. next' \in [Buffers -> Buffers \cup {Null}]
        BY <1>8 DEF PoolTypes
    <2>2. \A i \in Class : \A c \in Members(Q[i]) :
              /\ next'[c] = next[c] /\ capacity'[c] = capacity[c]
              /\ c \notin in_use' /\ c # recycled'
        BY <1>1, <1>2, <1>9 DEF Stacked, PoolTypes
    <2>3. \A c \in Buffers : \/ capacity'[c] = 0 \/ c \in in_use' \/ c = recycled'
                             \/ \E i \in Class : c \in Members(Q[i])
        BY <1>1, <1>2, <1>4, PoolAssumption DEF Stacked
    <2>4. OneAllocator => \A t \in Allocators :
              Popping(t)' => ptr'[t] \in Members(Q[GetIndex(want'[t])])
        BY <1>1, <1>2 DEF Stacked, Popping
    <2> QED
        BY <1>1, <1>2, <2>1, <2>2, <2>3, <2>4, StacksStay
<1> QED
    BY <1>2, <1>8, <1>11, <1>12

\* The top is still what next of the buffer says: it becomes the top.
LEMMA PushKeeps ==
    ASSUME PoolInv, RecycleExchange
    PROVE  PoolInv'
<1> USE DEF PoolInv
<1> DEFINE b == recycled
           i == GetIndex(capacity[b])
<1>1. PICK Q \in Stacks : Stacked(Q)
    OBVIOUS
<1>2. /\ head[i] = below /\ head' = [head EXCEPT ![i] = b]
      /\ recycled' = Null /\ b # Null
      /\ UNCHANGED <<next, capacity, in_use, allocAt, want, ptr, after, stale>>
    BY DEF RecycleExchange
<1>3. b \in Buffers /\ b \notin in_use /\ capacity[b] # 0 /\ next[b] = below
    BY <1>2 DEF PoolTypes, InHand
<1>4. i \in Class
    <2>1. capacity[b] \in Lengths
        BY <1>3 DEF PoolTypes
    <2> QED
        BY <1>3, <2>1, ClassOfSize
<1>5. \A j \in Class : b \notin Members(Q[j]) /\ Members(Q[j]) \subseteq Buffers
    BY <1>1, MemberOfStack DEF Stacked
<1>6. PoolTypes'
    BY <1>2, <1>3, <1>4 DEF PoolTypes, Popping
<1>7. InHand'
    BY <1>2, <1>3, PoolAssumption DEF PoolTypes, InHand
<1>8. Linked(<<b>> \o Q[i], b, next) /\ Members(<<b>> \o Q[i]) = Members(Q[i]) \cup {b}
    <2>1. Linked(Q[i], head[i], next)
        BY <1>1, <1>4 DEF Stacked
    <2> QED
        BY <1>2, <1>3, <1>4, <1>5, <2>1, Pushed
<1> HIDE DEF i
<1>9. <<b>> \o Q[i] \in Seq(Buffers)
    BY <1>8 DEF Linked
<1>10. PICK R \in Stacks : R[i] = <<b>> \o Q[i] /\ \A j \in Class \ {i} : R[j] = Q[j]
    <2>1. [Q EXCEPT ![i] = <<b>> \o Q[i]] \in Stacks
        BY <1>9 DEF Stacks
    <2> QED
        BY <1>4, <2>1 DEF Stacks
<1>11. Stacked(R)'
    <2>1. \A j \in Class : Linked(R[j], head'[j], next')
        <3>1. head'[i] = b /\ \A j \in Class \ {i} : head'[j] = head[j]
            BY <1>2, <1>4 DEF PoolTypes, i
        <3>2. Linked(R[i], head'[i], next')
            BY <1>2, <1>8, <1>10, <3>1
        <3>3. \A j \in Class \ {i} : Linked(R[j], head'[j], next')
            BY <1>1, <1>2, <1>10, <3>1 DEF Stacked
        <3> QED
            BY <3>2, <3>3
    <2>2. \A j \in Class : Members(R[j]) = Members(Q[j]) \cup (IF j = i THEN {b} ELSE {})
        BY <1>8, <1>10
    <2>3. \A j \in Class : \A c \in Members(R[j]) :
              /\ capacity'[c] # 0 /\ GetIndex(capacity'[c]) = j
              /\ c \notin in_use' /\ c # recycled'
        BY <1>1, <1>2, <1>3, <1>5, <2>2, PoolAssumption DEF Stacked, i
    <2>4. \A c \in Buffers : \/ capacity'[c] = 0 \/ c \in in_use' \/ c = recycled'
                             \/ \E j \in Class : c \in Members(R[j])
        BY <1>1, <1>2, <1>4, <2>2 DEF Stacked
    <2>5. OneAllocator => \A t \in Allocators :
              Popping(t)' => ptr'[t] \in Members(R[GetIndex(want'[t])])
        <3> SUFFICES ASSUME OneAllocator, NEW t \in Allocators, Popping(t)
                     PROVE  ptr[t] \in Members(R[GetIndex(want[t])])
            BY <1>2 DEF Popping
        <3>1. GetIndex(want[t]) \in Class
            BY ClassOfSize DEF PoolTypes, Popping
        <3>2. ptr[t] \in Members(Q[GetIndex(want[t])])
            BY <1>1 DEF Stacked
        <3> QED
            BY <2>2, <3>1, <3>2
    <2> QED
        BY <2>1, <2>3, <2>4, <2>5 DEF Stacked
<1> QED
    BY <1>2, <1>6, <1>7, <1>10, <1>11

\* A packet dies with its session.
LEMMA DeleteKeeps ==
    ASSUME PoolInv, NEW b \in Buffers, Delete(b)
    PROVE  PoolInv'
<1> USE DEF PoolInv
<1>1. PICK Q \in Stacks : Stacked(Q)
    OBVIOUS
<1>2. /\ b \in in_use /\ in_use' = in_use \ {b} /\ capacity' = [capacity EXCEPT ![b] = 0]
      /\ UNCHANGED <<head, next, allocAt, want, ptr, after, recycled, below, stale>>
    BY DEF Delete
<1>3. PoolTypes'
    BY <1>2 DEF PoolTypes, Lengths, Popping
<1>4. InHand'
    BY <1>2 DEF PoolTypes, InHand
<1>5. Stacked(Q)'
    <2>1. \A i \in Class : b \notin Members(Q[i]) /\ Members(Q[i]) \subseteq Buffers
        BY <1>1, <1>2, MemberOfStack DEF Stacked
    <2>2. \A i \in Class : \A c \in Members(Q[i]) :
              /\ next'[c] = next[c] /\ capacity'[c] = capacity[c]
              /\ c \notin in_use' /\ c # recycled'
        BY <1>1, <1>2, <2>1 DEF Stacked, PoolTypes
    <2>3. \A c \in Buffers : \/ capacity'[c] = 0 \/ c \in in_use' \/ c = recycled'
                             \/ \E i \in Class : c \in Members(Q[i])
        BY <1>1, <1>2 DEF Stacked, PoolTypes
    <2>4. next' \in [Buffers -> Buffers \cup {Null}]
        BY <1>3 DEF PoolTypes
    <2>5. OneAllocator => \A t \in Allocators :
              Popping(t)' => ptr'[t] \in Members(Q[GetIndex(want'[t])])
        BY <1>1, <1>2 DEF Stacked, Popping
    <2> QED
        BY <1>1, <1>2, <2>2, <2>3, <2>4, <2>5, StacksStay
<1> QED
    BY <1>2, <1>3, <1>4, <1>5

LEMMA PoolKeeps ==
    ASSUME PoolInv, [PoolNext]_poolVars, ~stale'
    PROVE  PoolInv'
<1>1. ASSUME NEW t \in Allocators,
             StartAlloc(t) \/ Load(t) \/ New(t) \/ ReadNext(t) \/ Exchange(t)
      PROVE  PoolInv'
    BY <1>1, AllocReads, NewKeeps, PopKeeps
<1>2. CASE RecycleExchange
    BY <1>2, PushKeeps
<1>3. ASSUME NEW b \in Buffers, RecycleLoad(b) \/ Delete(b) PROVE PoolInv'
    BY <1>3, TakeBackKeeps, DeleteKeeps
<1>4. CASE UNCHANGED poolVars
    BY <1>4 DEF poolVars, PoolInv, PoolTypes, InHand, Stacked, Popping
<1> QED
    BY <1>1, <1>2, <1>3, <1>4 DEF PoolNext

\* The stacks are what Chain walks, so the invariant says where each buffer is.
LEMMA PoolInvOwns == PoolInv => OneOwner
<1> SUFFICES ASSUME PoolInv PROVE OneOwner
    OBVIOUS
<1>1. PICK Q \in Stacks : Stacked(Q)
    BY DEF PoolInv
<1>2. DOMAIN head = Class
    BY DEF PoolInv, PoolTypes
<1>3. \A i \in Class : Pooled(i) = Members(Q[i]) /\ Chain(i)[Cardinality(Buffers)] = Null
    BY <1>1, StackIsPooled DEF Stacked
<1>4. \A i \in Class : Members(Q[i]) \subseteq Buffers
    BY <1>1, MemberOfStack
<1>5. \A i \in Class : \A b \in Pooled(i) :
          b # recycled /\ GetIndex(capacity[b]) = i /\ b \notin in_use /\ capacity[b] # 0
    BY <1>1, <1>3 DEF Stacked
<1> DEFINE S == UNION {Pooled(i) : i \in Class}
           owners == {in_use, {recycled} \ {Null}} \cup {Pooled(i) : i \in Class}
<1>6. in_use \cap S = {}
    BY <1>5
<1>7. \A b \in Buffers : capacity[b] > 0 <=> capacity[b] # 0
    <2>1. Lengths \subseteq Nat
        BY LengthsNat
    <2>2. capacity \in [Buffers -> Lengths]
        BY DEF PoolInv, PoolTypes
    <2> HIDE DEF Lengths
    <2>3. \A b \in Buffers : capacity[b] \in Nat
        BY <2>1, <2>2
    <2> QED
        BY <2>3
<1>8. UNION owners \subseteq {b \in Buffers : capacity[b] > 0}
    <2> SUFFICES ASSUME NEW b, b \in in_use \/ b \in {recycled} \ {Null} \/ \E i \in Class : b \in Pooled(i)
                 PROVE  b \in Buffers /\ capacity[b] # 0
        BY <1>7
    <2> QED
        BY <1>3, <1>4, <1>5 DEF PoolInv, PoolTypes, InHand
<1>9. {b \in Buffers : capacity[b] > 0} \subseteq UNION owners
    <2> SUFFICES ASSUME NEW b \in Buffers, capacity[b] # 0 PROVE b \in UNION owners
        BY <1>7
    <2>1. b # Null
        BY PoolAssumption
    <2>2. \/ b \in in_use \/ b = recycled
          \/ \E i \in Class : b \in Pooled(i)
        BY <1>1, <1>3 DEF Stacked
    <2>3. in_use \in owners /\ {recycled} \ {Null} \in owners /\ \A i \in Class : Pooled(i) \in owners
        OBVIOUS
    <2>4. \E o \in owners : b \in o
        BY <2>1, <2>2, <2>3
    <2> QED
        BY ONLY <2>4
<1>10. recycled \notin in_use
    BY DEF PoolInv, InHand
<1> QED
    BY <1>2, <1>3, <1>5, <1>6, <1>8, <1>9, <1>10 DEF OneOwner

\* What one thread has read of a buffer that stays in its stack is never out of
\* date; and once an exchange has used what is, stale stays.
LEMMA AloneNeverStale == ASSUME PoolInv, OneAllocator, [PoolNext]_poolVars PROVE ~stale'
<1>1. ASSUME NEW t \in Allocators, Exchange(t) PROVE ~stale'
    BY <1>1 DEF Exchange, PoolInv, InHand
<1> QED
    BY <1>1 DEF PoolInv, PoolNext, StartAlloc, Load, New, ReadNext, RecycleExchange,
                RecycleLoad, Delete, poolVars

LEMMA StaleStays == [PoolNext]_poolVars /\ ~stale' => ~stale
BY DEF PoolNext, StartAlloc, Load, New, ReadNext, Exchange, RecycleExchange, RecycleLoad,
       Delete, poolVars

(* alloc_buffer and recycle_buffer, for any number of threads that allocate beside
   the IO thread that takes back and deletes: no interleaving of the loads, of the
   reads of next_ and of the exchanges, which may fail, loses a buffer, gives it
   out twice, or breaks a stack, except by the one step that buffer_pool.h does not
   exclude: an exchange on a head that was taken off and put back in between, so
   that next_ is of another time. *)
THEOREM BuffersHaveOneOwner == PoolSpec => []OneOwner
<1>1. PoolInit => (~stale => PoolInv)
    BY PoolStarts
<1>2. (~stale => PoolInv) /\ [PoolNext]_poolVars => (~stale => PoolInv)'
    BY PoolKeeps, StaleStays
<1>3. (~stale => PoolInv) => OneOwner
    BY PoolInvOwns DEF OneOwner
<1> QED
    BY <1>1, <1>2, <1>3, PTL DEF PoolSpec

(* One thread alone never takes that step: then the stacks are always right. *)
THEOREM OneAllocatorIsSafe ==
    ASSUME OneAllocator
    PROVE  PoolSpec => [](~stale /\ OneOwner)
<1>1. PoolInv /\ [PoolNext]_poolVars => PoolInv'
    BY PoolKeeps, AloneNeverStale
<1>2. PoolInv => ~stale /\ OneOwner
    BY PoolInvOwns DEF PoolInv
<1> QED
    BY <1>1, <1>2, PoolStarts, PTL DEF PoolSpec
=============================================================================

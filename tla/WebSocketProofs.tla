-------------------------- MODULE WebSocketProofs --------------------------
(***************************************************************************)
(* The text of a websocket frame, the stream that carries it to one side,  *)
(* and what HttpSession does to that stream.  The stream is every element  *)
(* ever sent; how much of it is written, received and parsed are places in *)
(* it, so that a read or a write moves a place and nothing else.           *)
(***************************************************************************)
EXTENDS HttpSession, SequenceTheorems, FiniteSetTheorems, WellFoundedInduction, TLAPS

-----------------------------------------------------------------------------
(* Induction over the places of a sequence.                                  *)

\* A set of naturals up to N that is not empty has a least element.
LEMMA LeastOfSet ==
    ASSUME NEW N \in Nat, NEW S \in SUBSET (0 .. N), S # {}
    PROVE  \E x \in S : \A y \in S : x <= y
<1> DEFINE Below == {0 .. n : n \in S}
<1>1. IsWellFoundedOn(StrictSubsetOrdering(0 .. N), SUBSET (0 .. N))
    <2>1. IsFiniteSet(0 .. N)
        BY FS_Interval
    <2> QED
        BY ONLY <2>1, FS_FiniteSubsetsOfFinite, FS_StrictSubsetOrderingWellFounded
<1>2. Below \in SUBSET SUBSET (0 .. N) /\ Below # {}
    <2>1. \A n \in S : (0 .. n) \in SUBSET (0 .. N)
        OBVIOUS
    <2> QED
        BY <2>1
<1>3. PICK b \in Below : \A c \in Below : <<c, b>> \notin StrictSubsetOrdering(0 .. N)
    BY ONLY <1>1, <1>2, WFMin
<1>4. PICK x \in S : b = 0 .. x
    BY <1>3
<1>5. ASSUME NEW y \in S, y < x PROVE FALSE
    <2>1. (0 .. y) \subseteq (0 .. x) /\ (0 .. y) # (0 .. x) /\ (0 .. y) \in Below
        BY <1>5
    <2>2. (0 .. x) \in SUBSET (0 .. N) /\ (0 .. y) \in SUBSET (0 .. N)
        OBVIOUS
    <2>3. <<0 .. y, 0 .. x>> \in StrictSubsetOrdering(0 .. N)
        BY <2>1, <2>2 DEF StrictSubsetOrdering
    <2> QED
        BY <2>1, <2>3, <1>3, <1>4
<1> QED
    BY <1>5

\* What holds of 0 and goes from i - 1 to i holds up to N.
LEMMA UpTo ==
    ASSUME NEW N \in Nat, NEW S, 0 \in S, \A i \in 1 .. N : i - 1 \in S => i \in S
    PROVE  \A i \in 0 .. N : i \in S
<1> DEFINE Bad == {i \in 0 .. N : i \notin S}
<1>1. SUFFICES ASSUME Bad # {} PROVE FALSE
    OBVIOUS
<1>2. PICK i \in Bad : \A j \in Bad : i <= j
    <2>1. Bad \in SUBSET (0 .. N)
        OBVIOUS
    <2> HIDE DEF Bad
    <2> QED
        BY <1>1, <2>1, LeastOfSet
<1>3. i \in 1 .. N /\ i - 1 \in 0 .. N
    BY <1>2
<1>4. i - 1 \in S
    BY <1>2, <1>3
<1> QED
    BY <1>2, <1>3, <1>4

\* Two functions that start alike and go on alike are the same.
LEMMA SameSteps ==
    ASSUME NEW N \in Nat, NEW f, NEW g, f[0] = g[0],
           \A i \in 1 .. N : f[i - 1] = g[i - 1] => f[i] = g[i]
    PROVE  \A i \in 0 .. N : f[i] = g[i]
<1> DEFINE S == {i \in 0 .. N : f[i] = g[i]}
<1>1. 0 \in S /\ \A i \in 1 .. N : i - 1 \in S => i \in S
    OBVIOUS
<1> HIDE DEF S
<1>2. \A i \in 0 .. N : i \in S
    BY <1>1, UpTo
<1> QED
    BY <1>2 DEF S

-----------------------------------------------------------------------------
(* Numbers in bytes.                                                         *)

\* A number is its quotient and its remainder by Radix.
LEMMA DivMod ==
    ASSUME NEW n \in Nat
    PROVE  /\ n % Radix \in 0 .. Radix - 1 /\ n \div Radix \in Nat
           /\ n = (n \div Radix) * Radix + (n % Radix)
<1>1. Radix \in Nat \ {0}
    BY ByteAssumption
<1> QED
    BY <1>1

\* Shifted is the function that its recursion describes.
LEMMA ShiftedIs ==
    ASSUME NEW num \in Nat, NEW k \in Nat
    PROVE  /\ Shifted(num, k) = [i \in 0 .. k |-> IF i = 0 THEN num
                                                  ELSE Shifted(num, k)[i - 1] \div Radix]
           /\ \A i \in 0 .. k : Shifted(num, k)[i] \in Nat
<1> DEFINE Is(f, n) == f = [i \in 0 .. n |-> IF i = 0 THEN num ELSE f[i - 1] \div Radix]
           S == {n \in 0 .. k : \E f : Is(f, n)}
<1>1. 0 \in S
    <2>1. PICK f : f = [i \in 0 .. 0 |-> num]
        OBVIOUS
    <2>2. f = [i \in 0 .. 0 |-> IF i = 0 THEN num ELSE f[i - 1] \div Radix]
        BY <2>1
    <2> QED
        BY <2>2
<1>2. ASSUME NEW n \in 1 .. k, n - 1 \in S PROVE n \in S
    <2>1. PICK f : f = [i \in 0 .. n - 1 |-> IF i = 0 THEN num ELSE f[i - 1] \div Radix]
        BY <1>2
    <2>2. PICK g : g = [i \in 0 .. n |-> IF i = 0 THEN num ELSE f[i - 1] \div Radix]
        OBVIOUS
    <2>3. \A i \in 0 .. n - 1 : g[i] = f[i]
        <3> TAKE i \in 0 .. n - 1
        <3>1. i \in 0 .. n
            OBVIOUS
        <3>2. g[i] = IF i = 0 THEN num ELSE f[i - 1] \div Radix
            BY ONLY <2>2, <3>1
        <3>3. f[i] = IF i = 0 THEN num ELSE f[i - 1] \div Radix
            BY ONLY <2>1, i \in 0 .. n - 1
        <3> QED
            BY <3>2, <3>3
    <2>4. \A i \in 0 .. n : (IF i = 0 THEN num ELSE f[i - 1] \div Radix)
                                = (IF i = 0 THEN num ELSE g[i - 1] \div Radix)
        <3> TAKE i \in 0 .. n
        <3>1. i # 0 => i - 1 \in 0 .. n - 1
            OBVIOUS
        <3> QED
            BY <2>3, <3>1
    <2>5. g = [i \in 0 .. n |-> IF i = 0 THEN num ELSE g[i - 1] \div Radix]
        BY ONLY <2>2, <2>4
    <2> QED
        BY <2>5
<1>3. \E f : Is(f, k)
    <2> HIDE DEF S
    <2>1. \A n \in 0 .. k : n \in S
        BY <1>1, <1>2, UpTo
    <2> QED
        BY <2>1 DEF S
<1>4. Shifted(num, k) = CHOOSE f : Is(f, k)
    BY DEF Shifted
<1> HIDE DEF Is
<1>5. Is(Shifted(num, k), k)
    BY <1>3, <1>4
<1> DEFINE h == Shifted(num, k)
           T == {i \in 0 .. k : h[i] \in Nat}
<1>6. h = [i \in 0 .. k |-> IF i = 0 THEN num ELSE h[i - 1] \div Radix]
    BY <1>5 DEF Is
<1> HIDE DEF h
<1>7. 0 \in T
    BY <1>6
<1>8. \A i \in 1 .. k : i - 1 \in T => i \in T
    <2> SUFFICES ASSUME NEW i \in 1 .. k, i - 1 \in T PROVE i \in T
        OBVIOUS
    <2>1. h[i] = h[i - 1] \div Radix /\ h[i - 1] \in Nat
        BY <1>6
    <2> QED
        BY <2>1, DivMod
<1> HIDE DEF T
<1>9. \A i \in 0 .. k : i \in T
    BY <1>7, <1>8, UpTo
<1> QED
    BY <1>6, <1>9 DEF h, T

\* A number that fits k bytes is read back from them.
THEOREM NumberReadBack ==
    ASSUME NEW num \in Nat, NEW k \in Nat, Shifted(num, k)[k] = 0
    PROVE  /\ HostToNet(num, k) \in Seq(Nat) /\ Len(HostToNet(num, k)) = k
           /\ NetToHost(HostToNet(num, k)) = num
<1> DEFINE bytes == HostToNet(num, k)
           h == Shifted(num, k)
           Is(f) == f = [i \in 0 .. k |-> IF i = 0 THEN 0 ELSE f[i - 1] * Radix + bytes[i]]
<1>1. /\ h = [i \in 0 .. k |-> IF i = 0 THEN num ELSE h[i - 1] \div Radix]
      /\ \A i \in 0 .. k : h[i] \in Nat
    BY ShiftedIs
<1>2. bytes = [i \in 1 .. k |-> h[k - i] % Radix]
    BY DEF HostToNet
<1> HIDE DEF h, bytes
<1>3. \A i \in 1 .. k : bytes[i] \in Nat
    <2> TAKE i \in 1 .. k
    <2>1. k - i \in 0 .. k
        OBVIOUS
    <2>2. h[k - i] \in Nat
        BY <1>1, <2>1
    <2>3. bytes[i] = h[k - i] % Radix
        BY <1>2
    <2> QED
        BY <2>2, <2>3, DivMod
<1>4. bytes \in Seq(Nat) /\ Len(bytes) = k
    <2>1. bytes \in [1 .. k -> Nat]
        BY <1>2, <1>3
    <2> QED
        BY <2>1
<1>5. PICK g : g = [i \in 0 .. k |-> h[k - i]]
    OBVIOUS
<1>6. \A i \in 1 .. k : g[i] = g[i - 1] * Radix + bytes[i]
    <2> TAKE i \in 1 .. k
    <2>1. k - i \in 0 .. k /\ (k - i) + 1 \in 1 .. k /\ i - 1 \in 0 .. k /\ k - (i - 1) = (k - i) + 1
        OBVIOUS
    <2>2. h[(k - i) + 1] = h[k - i] \div Radix
        <3>1. ((k - i) + 1) - 1 = k - i
            OBVIOUS
        <3> QED
            BY <1>1, <2>1, <3>1
    <2>3. h[k - i] \in Nat /\ bytes[i] = h[k - i] % Radix
        BY <1>1, <1>2, <2>1
    <2>4. h[k - i] = (h[k - i] \div Radix) * Radix + (h[k - i] % Radix)
        BY <2>3, DivMod
    <2>5. g[i] = h[k - i] /\ g[i - 1] = h[(k - i) + 1]
        BY <1>5, <2>1
    <2> QED
        BY <2>2, <2>3, <2>4, <2>5
<1>7. g[0] = 0 /\ g[k] = num
    <2>1. h[k] = 0
        BY DEF h
    <2>2. h[0] = num
        BY <1>1
    <2>3. 0 \in 0 .. k /\ k \in 0 .. k /\ k - 0 = k /\ k - k = 0
        OBVIOUS
    <2>4. g[0] = h[k - 0] /\ g[k] = h[k - k]
        BY ONLY <1>5, <2>3
    <2> QED
        BY <2>1, <2>2, <2>3, <2>4
<1>8. Is(g)
    <2>1. \A i \in 0 .. k : g[i] = IF i = 0 THEN 0 ELSE g[i - 1] * Radix + bytes[i]
        <3> TAKE i \in 0 .. k
        <3>1. i # 0 => i \in 1 .. k
            OBVIOUS
        <3> QED
            BY <1>6, <1>7, <3>1
    <2>2. DOMAIN g = 0 .. k /\ g = [i \in DOMAIN g |-> g[i]]
        BY <1>5
    <2> QED
        BY <2>1, <2>2
<1>9. NetToHost(bytes) = (CHOOSE f : Is(f))[k]
    BY <1>4 DEF NetToHost
<1>10. PICK f : f = (CHOOSE x : Is(x)) /\ Is(f)
    <2> HIDE DEF Is
    <2> QED
        BY <1>8
<1>11. \A i \in 0 .. k : f[i] = g[i]
    <2>0. f = [i \in 0 .. k |-> IF i = 0 THEN 0 ELSE f[i - 1] * Radix + bytes[i]]
        BY <1>10
    <2>1. f[0] = g[0]
        <3>1. f[0] = 0
            BY ONLY <2>0, k \in Nat
        <3> QED
            BY <1>7, <3>1
    <2>2. \A i \in 1 .. k : f[i - 1] = g[i - 1] => f[i] = g[i]
        <3> TAKE i \in 1 .. k
        <3>1. f[i] = f[i - 1] * Radix + bytes[i]
            BY ONLY <2>0, i \in 1 .. k, k \in Nat
        <3>2. g[i] = g[i - 1] * Radix + bytes[i]
            BY <1>6
        <3> QED
            BY <3>1, <3>2
    <2> QED
        BY ONLY <2>1, <2>2, SameSteps, k \in Nat
<1>12. f[k] = num
    BY <1>7, <1>11
<1> QED
    BY <1>4, <1>9, <1>10, <1>12 DEF bytes

-----------------------------------------------------------------------------
(* The parts of a frame's text.                                              *)

\* What the applications send, and the keys that to_string draws.
Frame == [opcode : (0 .. 15) \ {op_handshake_req, op_handshake_ack},
          payload : Seq(0 .. Radix - 1), fin : BOOLEAN, mask : BOOLEAN]
Key == {key \in Seq(0 .. Radix - 1) : Len(key) = 4}

\* How many bytes a length takes behind the second byte, and a key; where the
\* payload begins and ends, and how many zeros follow it.
Extra(n) == IF n <= Short THEN 0 ELSE IF n <= Long THEN 2 ELSE 8
KeyBytes(f) == IF f.mask THEN 4 ELSE 0
Header(f) == 2 + Extra(Len(f.payload)) + KeyBytes(f)
Core(f) == Header(f) + Len(f.payload)
Zeros(f) == IF f.mask THEN Len(f.payload) ELSE 0

\* The high bit of a byte leaves room for a nibble below it.
LEMMA HighBits ==
    /\ Radix \in Nat /\ HighBit \in Nat /\ HighBit % 16 = 0 /\ HighBit >= 16
    /\ Radix = 2 * HighBit
<1>1. Radix \in Nat \ {0} /\ Radix % 32 = 0
    BY ByteAssumption
<1> QED
    BY <1>1 DEF HighBit

\* Two byte strings, joined.
LEMMA BytesJoined ==
    ASSUME NEW s \in Seq(Nat), NEW t \in Seq(Nat)
    PROVE  /\ s \o t \in Seq(Nat) /\ Len(s \o t) = Len(s) + Len(t)
           /\ Len(s) \in Nat /\ Len(t) \in Nat
           /\ \A i \in 1 .. Len(s) : (s \o t)[i] = s[i]
           /\ \A i \in 1 .. Len(t) : (s \o t)[Len(s) + i] = t[i]
<1>1. /\ s \o t \in Seq(Nat) /\ Len(s \o t) = Len(s) + Len(t)
      /\ \A i \in 1 .. Len(s) + Len(t) :
            (s \o t)[i] = IF i <= Len(s) THEN s[i] ELSE t[i - Len(s)]
    BY ConcatProperties
<1>2. Len(s) \in Nat /\ Len(t) \in Nat
    OBVIOUS
<1>3. \A i \in 1 .. Len(t) : (s \o t)[Len(s) + i] = t[i]
    <2> TAKE i \in 1 .. Len(t)
    <2>1. Len(s) + i \in 1 .. Len(s) + Len(t) /\ ~(Len(s) + i <= Len(s)) /\ (Len(s) + i) - Len(s) = i
        BY <1>2
    <2> QED
        BY <1>1, <2>1
<1> QED
    BY <1>1, <1>2, <1>3

\* The second byte and those of the length behind it.
LengthParts(L, n, flag, x) ==
    /\ L \in Seq(Nat) /\ Len(L) = 1 + x /\ x \in {0, 2, 8}
    /\ L[1] \in Nat /\ (L[1] >= HighBit <=> flag = HighBit)
    /\ IF x = 0 THEN L[1] % HighBit = n /\ n <= Short
       ELSE L[1] % HighBit = IF x = 2 THEN Short + 1 ELSE Short + 2
    /\ x # 0 => /\ HostToNet(n, x) \in Seq(Nat) /\ Len(HostToNet(n, x)) = x
                /\ NetToHost(HostToNet(n, x)) = n
                /\ \A i \in 1 .. x : L[1 + i] = HostToNet(n, x)[i]

\* The one, three or nine bytes that to_string writes for a length.
LEMMA LengthShape ==
    ASSUME NEW n \in Nat, NEW flag \in {0, HighBit}, Shifted(n, 8)[8] = 0,
           NEW L, L = LengthBytes(n, flag), NEW x, x = Extra(n)
    PROVE  LengthParts(L, n, flag, x)
<1>0. /\ Short \in Nat /\ Long \in Nat /\ Short + 2 < HighBit /\ Short <= Long
      /\ Long < Radix * Radix /\ HighBit \in Nat /\ flag \in Nat /\ Radix \in Nat \ {0}
    BY LengthAssumption, HighBits, ByteAssumption
<1>1. ASSUME NEW m \in 0 .. Short + 2
      PROVE  /\ <<m + flag>> \in Seq(Nat) /\ Len(<<m + flag>>) = 1 /\ <<m + flag>>[1] = m + flag
             /\ (m + flag) % HighBit = m /\ (m + flag >= HighBit <=> flag = HighBit)
    <2>1. m + flag \in Nat /\ m < HighBit
        BY <1>0
    <2>2. (m + flag) % HighBit = m
        <3>1. CASE flag = 0
            BY <1>0, <2>1, <3>1
        <3>2. CASE flag = HighBit
            BY <1>0, <2>1, <3>2
        <3> QED
            BY <3>1, <3>2
    <2>3. m + flag >= HighBit <=> flag = HighBit
        BY <1>0, <2>1
    <2> QED
        BY <2>1, <2>2, <2>3
<1>2. ASSUME NEW m \in 0 .. Short + 2, NEW k \in Nat \ {0}, Shifted(n, k)[k] = 0,
             L = <<m + flag>> \o HostToNet(n, k)
      PROVE  /\ L \in Seq(Nat) /\ Len(L) = 1 + k /\ L[1] = m + flag
             /\ HostToNet(n, k) \in Seq(Nat) /\ Len(HostToNet(n, k)) = k
             /\ NetToHost(HostToNet(n, k)) = n
             /\ \A i \in 1 .. k : L[1 + i] = HostToNet(n, k)[i]
    <2>1. /\ HostToNet(n, k) \in Seq(Nat) /\ Len(HostToNet(n, k)) = k
          /\ NetToHost(HostToNet(n, k)) = n
        BY <1>2, NumberReadBack
    <2> DEFINE first == <<m + flag>>
               bytes == HostToNet(n, k)
    <2>2. first \in Seq(Nat) /\ Len(first) = 1 /\ first[1] = m + flag
        BY <1>1
    <2> HIDE DEF first, bytes
    <2>3. /\ L \in Seq(Nat) /\ Len(L) = Len(first) + Len(bytes)
          /\ \A i \in 1 .. Len(first) : L[i] = first[i]
          /\ \A i \in 1 .. Len(bytes) : L[Len(first) + i] = bytes[i]
        BY <1>2, <2>1, <2>2, BytesJoined DEF first, bytes
    <2> QED
        BY <2>1, <2>2, <2>3 DEF bytes
<1>3. CASE x = 0
    <2>1. n <= Short /\ L = <<n + flag>> /\ n \in 0 .. Short + 2
        BY <1>0, <1>3 DEF Extra, LengthBytes
    <2> QED
        BY <1>0, <1>1, <1>3, <2>1 DEF LengthParts
<1>4. CASE x = 2
    <2>1. n <= Long /\ L = <<(Short + 1) + flag>> \o HostToNet(n, 2) /\ Short + 1 \in 0 .. Short + 2
        BY <1>0, <1>4 DEF Extra, LengthBytes
    <2>2. Shifted(n, 2)[2] = 0
        <3>1. Shifted(n, 2) = [i \in 0 .. 2 |-> IF i = 0 THEN n
                                                ELSE Shifted(n, 2)[i - 1] \div Radix]
            BY ShiftedIs
        <3>2. Shifted(n, 2)[0] = n /\ Shifted(n, 2)[1] = n \div Radix
              /\ Shifted(n, 2)[2] = (n \div Radix) \div Radix
            <4> DEFINE h == Shifted(n, 2)
            <4> HIDE DEF h
            <4>1. h[0] = n /\ h[1] = h[0] \div Radix /\ h[2] = h[1] \div Radix
                BY <3>1 DEF h
            <4> QED
                BY <4>1 DEF h
        <3>3. n < Radix * Radix
            BY <1>0, <2>1
        <3>4. n \div Radix \in Nat /\ n \div Radix < Radix
            <4>1. n = (n \div Radix) * Radix + (n % Radix) /\ n \div Radix \in Nat /\ n % Radix \in Nat
                BY DivMod
            <4> QED
                BY <1>0, <3>3, <4>1
        <3> QED
            BY <1>0, <3>2, <3>4
    <2>3. Shifted(n, 2)[2] = 0
        BY <2>2
    <2> DEFINE m == Short + 1
    <2>4. m \in 0 .. Short + 2 /\ L = <<m + flag>> \o HostToNet(n, 2) /\ 2 \in Nat \ {0}
        BY <2>1
    <2>5. m < HighBit /\ m \in Nat
        BY <1>0
    <2> HIDE DEF m
    <2>6. /\ (m + flag) % HighBit = m /\ (m + flag >= HighBit <=> flag = HighBit)
        BY <1>1, <2>4
    <2>7. /\ L \in Seq(Nat) /\ Len(L) = 1 + 2 /\ L[1] = m + flag
          /\ HostToNet(n, 2) \in Seq(Nat) /\ Len(HostToNet(n, 2)) = 2
          /\ NetToHost(HostToNet(n, 2)) = n
          /\ \A i \in 1 .. 2 : L[1 + i] = HostToNet(n, 2)[i]
        BY ONLY <1>2, <2>3, <2>4
    <2>8. L[1] \in Nat /\ L[1] % HighBit = m /\ (L[1] >= HighBit <=> flag = HighBit)
        BY <1>0, <2>5, <2>6, <2>7
    <2>9. IF x = 2 THEN m = Short + 1 ELSE m = Short + 2
        BY <1>4 DEF m
    <2> QED
        BY <1>4, <2>7, <2>8, <2>9 DEF LengthParts
<1>5. CASE x = 8
    <2>1. L = <<(Short + 2) + flag>> \o HostToNet(n, 8) /\ Short + 2 \in 0 .. Short + 2
        BY <1>0, <1>5 DEF Extra, LengthBytes
    <2>3. Shifted(n, 8)[8] = 0
        OBVIOUS
    <2> DEFINE m == Short + 2
    <2>4. m \in 0 .. Short + 2 /\ L = <<m + flag>> \o HostToNet(n, 8) /\ 8 \in Nat \ {0}
        BY <2>1
    <2>5. m < HighBit /\ m \in Nat
        BY <1>0
    <2> HIDE DEF m
    <2>6. /\ (m + flag) % HighBit = m /\ (m + flag >= HighBit <=> flag = HighBit)
        BY <1>1, <2>4
    <2>7. /\ L \in Seq(Nat) /\ Len(L) = 1 + 8 /\ L[1] = m + flag
          /\ HostToNet(n, 8) \in Seq(Nat) /\ Len(HostToNet(n, 8)) = 8
          /\ NetToHost(HostToNet(n, 8)) = n
          /\ \A i \in 1 .. 8 : L[1 + i] = HostToNet(n, 8)[i]
        BY ONLY <1>2, <2>3, <2>4
    <2>8. L[1] \in Nat /\ L[1] % HighBit = m /\ (L[1] >= HighBit <=> flag = HighBit)
        BY <1>0, <2>5, <2>6, <2>7
    <2>9. IF x = 2 THEN m = Short + 1 ELSE m = Short + 2
        BY <1>5 DEF m
    <2> QED
        BY <1>5, <2>7, <2>8, <2>9 DEF LengthParts
<1> QED
    BY <1>3, <1>4, <1>5 DEF Extra, LengthParts

\* The key, the payload and the zeros.
LEMMA BodyShape ==
    ASSUME NEW f \in Frame, NEW key \in Key, NEW B, B = Body(f, key)
    PROVE  /\ B \in Seq(Nat) /\ Len(B) = KeyBytes(f) + Len(f.payload) + Zeros(f)
           /\ f.mask => \A i \in 1 .. 4 : B[i] = key[i]
           /\ \A i \in 1 .. Len(f.payload) :
                 B[KeyBytes(f) + i] = IF f.mask THEN XorByte(f.payload[i], key[((i - 1) % 4) + 1])
                                      ELSE f.payload[i]
           /\ \A i \in 1 .. Zeros(f) : B[KeyBytes(f) + Len(f.payload) + i] = 0
<1> DEFINE payload == f.payload
           n == Len(payload)
<1>1. /\ payload \in Seq(0 .. Radix - 1) /\ n \in Nat /\ DOMAIN payload = 1 .. n
      /\ payload \in Seq(Nat) /\ \A i \in 1 .. n : payload[i] \in 0 .. Radix - 1
      /\ f.mask \in BOOLEAN
    BY HighBits DEF Frame
<1>2. /\ key \in Seq(Nat) /\ Len(key) = 4 /\ \A i \in 1 .. 4 : key[i] \in 0 .. Radix - 1
    <2>1. key \in Seq(0 .. Radix - 1) /\ Len(key) = 4
        BY DEF Key
    <2>2. 0 .. Radix - 1 \subseteq Nat
        BY HighBits
    <2>3. \A i \in 1 .. 4 : key[i] \in 0 .. Radix - 1
        BY <2>1, ElementOfSeq
    <2> QED
        BY <2>1, <2>2, <2>3, SeqMonotonic
<1> HIDE DEF payload, n
<1>3. CASE f.mask
    <2> DEFINE x == XorKey(payload, key)
               z == [i \in DOMAIN payload |-> 0]
    <2>1. /\ x \in Seq(Nat) /\ Len(x) = n
          /\ \A i \in 1 .. n : x[i] = XorByte(payload[i], key[((i - 1) % 4) + 1])
        <3>1. x = [i \in 1 .. n |-> XorByte(payload[i], key[((i - 1) % 4) + 1])]
            BY <1>1 DEF XorKey
        <3>2. \A i \in 1 .. n : XorByte(payload[i], key[((i - 1) % 4) + 1]) \in Nat
            <4> TAKE i \in 1 .. n
            <4>1. ((i - 1) % 4) + 1 \in 1 .. 4
                BY <1>1
            <4>2. payload[i] \in 0 .. Radix - 1 /\ key[((i - 1) % 4) + 1] \in 0 .. Radix - 1
                BY <1>1, <1>2, <4>1
            <4>3. XorByte(payload[i], key[((i - 1) % 4) + 1]) \in 0 .. Radix - 1
                BY <4>2, ByteAssumption
            <4> QED
                BY <4>3, HighBits
        <3> QED
            BY <1>1, <3>1, <3>2
    <2>2. z \in Seq(Nat) /\ Len(z) = n /\ \A i \in 1 .. n : z[i] = 0
        BY <1>1
    <2>3. B = (key \o x) \o z
        BY <1>3 DEF Body, payload
    <2> HIDE DEF x, z
    <2> DEFINE kx == key \o x
    <2>4. /\ kx \in Seq(Nat) /\ Len(kx) = 4 + n
          /\ \A i \in 1 .. 4 : kx[i] = key[i]
          /\ \A i \in 1 .. n : kx[4 + i] = x[i]
        <3>1. /\ kx \in Seq(Nat) /\ Len(kx) = Len(key) + Len(x)
              /\ \A i \in 1 .. Len(key) : kx[i] = key[i]
              /\ \A i \in 1 .. Len(x) : kx[Len(key) + i] = x[i]
            BY ONLY <1>2, <2>1, BytesJoined
        <3> HIDE DEF kx
        <3>2. Len(key) = 4 /\ Len(x) = n
            BY ONLY <1>2, <2>1
        <3> QED
            BY ONLY <3>1, <3>2
    <2> HIDE DEF kx
    <2>5. /\ B \in Seq(Nat) /\ Len(B) = (4 + n) + n
          /\ \A i \in 1 .. 4 + n : B[i] = kx[i]
          /\ \A i \in 1 .. n : B[(4 + n) + i] = z[i]
        <3>1. B = kx \o z
            BY <2>3 DEF kx
        <3>2. /\ kx \o z \in Seq(Nat) /\ Len(kx \o z) = Len(kx) + Len(z)
              /\ \A i \in 1 .. Len(kx) : (kx \o z)[i] = kx[i]
              /\ \A i \in 1 .. Len(z) : (kx \o z)[Len(kx) + i] = z[i]
            BY ONLY <2>2, <2>4, BytesJoined
        <3>3. Len(kx) = 4 + n /\ Len(z) = n
            BY ONLY <2>2, <2>4
        <3> QED
            BY ONLY <3>1, <3>2, <3>3
    <2>6. \A i \in 1 .. 4 : B[i] = key[i]
        BY <1>1, <2>4, <2>5
    <2>7. \A i \in 1 .. n : B[4 + i] = x[i]
        <3> TAKE i \in 1 .. n
        <3>1. 4 + i \in 1 .. 4 + n
            BY <1>1
        <3> QED
            BY <2>4, <2>5, <3>1
    <2>8. KeyBytes(f) = 4 /\ Zeros(f) = n
        BY <1>3 DEF KeyBytes, Zeros, n, payload
    <2>9. \A i \in 1 .. n : B[4 + i] = XorByte(payload[i], key[((i - 1) % 4) + 1])
        BY ONLY <2>1, <2>7
    <2>10. \A i \in 1 .. n : B[4 + n + i] = 0
        BY ONLY <2>2, <2>5
    <2> QED
        BY ONLY <1>3, <2>5, <2>6, <2>8, <2>9, <2>10, n = Len(f.payload), payload = f.payload
           DEF n, payload
<1>4. CASE ~f.mask
    <2>1. B = payload /\ KeyBytes(f) = 0 /\ Zeros(f) = 0
        BY <1>4 DEF Body, payload, KeyBytes, Zeros
    <2> QED
        BY <1>1, <1>4, <2>1 DEF n, payload
<1> QED
    BY <1>1, <1>3, <1>4

\* The whole text: where each of its parts is.
Shape(L, f, key, n, x, kl) ==
    /\ L \in Seq(Nat) /\ Len(L) = Core(f) + Zeros(f)
    /\ L[1] % 16 = f.opcode /\ (L[1] >= HighBit <=> f.fin)
    /\ L[2] \in Nat /\ (L[2] >= HighBit <=> f.mask)
    /\ IF x = 0 THEN L[2] % HighBit = n /\ n <= Short
       ELSE L[2] % HighBit = IF x = 2 THEN Short + 1 ELSE Short + 2
    /\ x # 0 => /\ HostToNet(n, x) \in Seq(Nat) /\ Len(HostToNet(n, x)) = x
                /\ NetToHost(HostToNet(n, x)) = n
                /\ \A i \in 1 .. x : L[2 + i] = HostToNet(n, x)[i]
    /\ f.mask => \A i \in 1 .. 4 : L[2 + x + i] = key[i]
    /\ \A i \in 1 .. n : L[2 + x + kl + i]
           = IF f.mask THEN XorByte(f.payload[i], key[((i - 1) % 4) + 1]) ELSE f.payload[i]
    /\ \A i \in 1 .. Zeros(f) : L[2 + x + kl + n + i] = 0

\* The sizes of the parts of a written frame.
LEMMA FrameSizes ==
    ASSUME NEW f \in Frame
    PROVE  /\ Len(f.payload) \in Nat /\ Extra(Len(f.payload)) \in {0, 2, 8} /\ KeyBytes(f) \in {0, 4}
           /\ Zeros(f) \in Nat /\ Core(f) \in Nat /\ Core(f) >= 2
           /\ Core(f) = 2 + Extra(Len(f.payload)) + KeyBytes(f) + Len(f.payload)
           /\ (f.mask => Len(f.payload) % 2 = 0) => Zeros(f) % 2 = 0
<1>1. f.payload \in Seq(0 .. Radix - 1)
    BY DEF Frame
<1>2. Len(f.payload) \in Nat
    BY <1>1
<1>3. Extra(Len(f.payload)) \in {0, 2, 8} /\ KeyBytes(f) \in {0, 4}
    BY DEF Extra, KeyBytes
<1>4. /\ Zeros(f) \in Nat
      /\ (f.mask => Len(f.payload) % 2 = 0) => Zeros(f) % 2 = 0
    <2>1. CASE f.mask
        BY <1>2, <2>1 DEF Zeros
    <2>2. CASE ~f.mask
        BY <1>2, <2>2 DEF Zeros
    <2> QED
        BY <2>1, <2>2
<1>5. Core(f) = 2 + Extra(Len(f.payload)) + KeyBytes(f) + Len(f.payload)
    BY DEF Core, Header
<1>6. Core(f) \in Nat /\ Core(f) >= 2
    BY <1>2, <1>3, <1>5
<1> QED
    BY ONLY <1>2, <1>3, <1>4, <1>5, <1>6

\* What to_string writes, byte by byte.
LEMMA FrameShape ==
    ASSUME NEW f \in Frame, NEW key \in Key, Shifted(Len(f.payload), 8)[8] = 0
    PROVE  Shape(FrameString(f, key), f, key, Len(f.payload), Extra(Len(f.payload)), KeyBytes(f))
<1> DEFINE n == Len(f.payload)
           x == Extra(n)
           kl == KeyBytes(f)
           flag == IF f.mask THEN HighBit ELSE 0
           head == f.opcode + (IF f.fin THEN HighBit ELSE 0)
           first == <<head>>
           len == LengthBytes(n, flag)
           body == Body(f, key)
           begin == first \o len
           L == FrameString(f, key)
<1>0. /\ n \in Nat /\ x \in {0, 2, 8} /\ kl \in {0, 4} /\ Zeros(f) \in Nat
      /\ Core(f) = 2 + x + kl + n
    BY FrameSizes
<1>1. head \in Nat /\ head % 16 = f.opcode /\ (head >= HighBit <=> f.fin)
    <2>1. f.opcode \in 0 .. 15
        BY DEF Frame
    <2>2. HighBit \in Nat /\ HighBit % 16 = 0 /\ HighBit >= 16
        BY HighBits
    <2>3. CASE f.fin
        <3>1. head = f.opcode + HighBit
            BY <2>3
        <3> QED
            BY ONLY <2>1, <2>2, <2>3, <3>1
    <2>4. CASE ~f.fin
        <3>1. head = f.opcode
            BY <2>1, <2>4
        <3> HIDE DEF head
        <3> QED
            BY ONLY <2>1, <2>2, <2>4, <3>1
    <2> QED
        BY ONLY <2>3, <2>4
<1>2. first \in Seq(Nat) /\ Len(first) = 1 /\ first[1] = head
    BY <1>1
<1>3. flag \in {0, HighBit} /\ (flag = HighBit <=> f.mask)
    BY HighBits
<1>4. L = begin \o body
    BY DEF FrameString
<1>5. /\ len \in Seq(Nat) /\ Len(len) = 1 + x
      /\ len[1] \in Nat /\ (len[1] >= HighBit <=> flag = HighBit)
      /\ IF x = 0 THEN len[1] % HighBit = n /\ n <= Short
         ELSE len[1] % HighBit = IF x = 2 THEN Short + 1 ELSE Short + 2
      /\ x # 0 => /\ HostToNet(n, x) \in Seq(Nat) /\ Len(HostToNet(n, x)) = x
                  /\ NetToHost(HostToNet(n, x)) = n
                  /\ \A i \in 1 .. x : len[1 + i] = HostToNet(n, x)[i]
    <2>1. Shifted(n, 8)[8] = 0
        OBVIOUS
    <2>2. len = LengthBytes(n, flag) /\ x = Extra(n)
        OBVIOUS
    <2> HIDE DEF n, flag, len, x
    <2> QED
        <3>1. LengthParts(len, n, flag, x)
            BY ONLY <1>0, <1>3, <2>1, <2>2, LengthShape
        <3> QED
            BY <3>1 DEF LengthParts
<1>6. /\ body \in Seq(Nat) /\ Len(body) = kl + n + Zeros(f)
      /\ f.mask => \A i \in 1 .. 4 : body[i] = key[i]
      /\ \A i \in 1 .. n :
            body[kl + i] = IF f.mask THEN XorByte(f.payload[i], key[((i - 1) % 4) + 1])
                           ELSE f.payload[i]
      /\ \A i \in 1 .. Zeros(f) : body[kl + n + i] = 0
    <2>1. body = Body(f, key)
        OBVIOUS
    <2> HIDE DEF body
    <2> QED
        BY ONLY <2>1, BodyShape, f \in Frame, key \in Key DEF n, kl
<1> HIDE DEF first, len, body, head, flag, L
<1>7. /\ begin \in Seq(Nat) /\ Len(begin) = 2 + x /\ begin[1] = head
      /\ \A i \in 1 .. 1 + x : begin[1 + i] = len[i]
    <2>1. /\ first \o len \in Seq(Nat) /\ Len(first \o len) = Len(first) + Len(len)
          /\ \A i \in 1 .. Len(first) : (first \o len)[i] = first[i]
          /\ \A i \in 1 .. Len(len) : (first \o len)[Len(first) + i] = len[i]
        BY ONLY <1>2, <1>5, BytesJoined
    <2> DEFINE b == first \o len
    <2> HIDE DEF x, b
    <2>2. b \in Seq(Nat) /\ Len(b) = 2 + x /\ b[1] = head /\ \A i \in 1 .. 1 + x : b[1 + i] = len[i]
        <3>1. /\ b \in Seq(Nat) /\ Len(b) = 1 + (1 + x) /\ b[1] = head
              /\ \A i \in 1 .. 1 + x : b[1 + i] = len[i]
            <4>1. Len(first) = 1 /\ Len(len) = 1 + x /\ first[1] = head
                BY ONLY <1>2, <1>5
            <4>2. 1 \in 1 .. 1
                OBVIOUS
            <4> QED
                BY ONLY <2>1, <4>1, <4>2 DEF b
        <3> QED
            BY <1>0, <3>1
    <2> QED
        BY <2>2 DEF b
<1> HIDE DEF begin, x, kl, n
<1>8. /\ L \in Seq(Nat) /\ Len(L) = (2 + x) + (kl + n + Zeros(f))
      /\ \A i \in 1 .. 2 + x : L[i] = begin[i]
      /\ \A i \in 1 .. kl + n + Zeros(f) : L[(2 + x) + i] = body[i]
    <2>1. /\ begin \o body \in Seq(Nat) /\ Len(begin \o body) = Len(begin) + Len(body)
          /\ \A i \in 1 .. Len(begin) : (begin \o body)[i] = begin[i]
          /\ \A i \in 1 .. Len(body) : (begin \o body)[Len(begin) + i] = body[i]
        BY ONLY <1>6, <1>7, BytesJoined
    <2>2. Len(begin) = 2 + x /\ Len(body) = kl + n + Zeros(f)
        BY ONLY <1>6, <1>7
    <2> QED
        BY ONLY <1>4, <2>1, <2>2
<1>9. L[1] = head /\ L[2] = len[1] /\ \A i \in 1 .. x : L[2 + i] = len[1 + i]
    <2>1. L[1] = begin[1] /\ L[2] = begin[1 + 1] /\ begin[1 + 1] = len[1]
        BY <1>0, <1>7, <1>8
    <2>2. \A i \in 1 .. x : L[2 + i] = len[1 + i]
        <3> TAKE i \in 1 .. x
        <3>1. 2 + i \in 1 .. 2 + x /\ 1 + i \in 1 .. 1 + x /\ 1 + (1 + i) = 2 + i
            BY <1>0
        <3> QED
            BY <1>7, <1>8, <3>1
    <2> QED
        BY <1>7, <2>1, <2>2
<1>10. \A i \in 1 .. Zeros(f) : L[2 + x + kl + n + i] = 0
    <2> TAKE i \in 1 .. Zeros(f)
    <2>1. kl + n + i \in 1 .. kl + n + Zeros(f) /\ (2 + x) + (kl + n + i) = 2 + x + kl + n + i
        BY <1>0
    <2> QED
        BY <1>6, <1>8, <2>1
<1>11. \A i \in 1 .. n : L[2 + x + kl + i]
           = IF f.mask THEN XorByte(f.payload[i], key[((i - 1) % 4) + 1]) ELSE f.payload[i]
    <2> TAKE i \in 1 .. n
    <2>1. kl + i \in 1 .. kl + n + Zeros(f) /\ (2 + x) + (kl + i) = 2 + x + kl + i
        BY <1>0
    <2> QED
        BY <1>6, <1>8, <2>1
<1>12. f.mask => \A i \in 1 .. 4 : L[2 + x + i] = key[i]
    <2> SUFFICES ASSUME f.mask, NEW i \in 1 .. 4 PROVE L[2 + x + i] = key[i]
        OBVIOUS
    <2>0. kl = 4
        BY DEF kl, KeyBytes
    <2>1. i \in 1 .. kl + n + Zeros(f) /\ (2 + x) + i = 2 + x + i
        BY <1>0, <2>0
    <2> QED
        BY <1>6, <1>8, <2>1
<1>13. Len(L) = Core(f) + Zeros(f)
    BY <1>0, <1>8
<1>14. \A i \in 1 .. x : x # 0 => L[2 + i] = HostToNet(n, x)[i]
    BY <1>5, <1>9
<1>15. Shape(L, f, key, n, x, kl)
    BY ONLY <1>1, <1>3, <1>5, <1>8, <1>9, <1>10, <1>11, <1>12, <1>13, <1>14 DEF Shape
<1> QED
    BY <1>15 DEF L, n, x, kl

\* A frame that try_parse_frame reads.
LEMMA ParseCases ==
    ASSUME NEW D \in Seq(Nat), NEW r, r = TryParseFrame(D), r.ok, r.size > 0
    PROVE  /\ Len(D) >= 2
           /\ LET ext == ExtendedLength(D)
                  pos == 2 + ext + KeyLength(D)
                  n == PayloadLength(D, ext)
              IN /\ ~(Len(D) < pos + n) /\ Len(D) >= pos
                 /\ r = [ok |-> TRUE, thrown |-> FALSE, size |-> pos + n,
                         fin |-> D[1] >= HighBit, opcode |-> D[1] % 16,
                         payload |-> IF KeyLength(D) = 0 THEN SubSeq(D, pos + 1, pos + n)
                                     ELSE XorKey(SubSeq(D, pos + 1, pos + n),
                                                 SubSeq(D, pos - 3, pos))]
<1> DEFINE ext == ExtendedLength(D)
           pos == 2 + ext + KeyLength(D)
           n == PayloadLength(D, ext)
<1>0. ~NotYet.ok /\ NotYet.size = 0 /\ ~LengthError.ok
    BY DEF NotYet, LengthError
<1>1. Len(D) >= 2
    <2>1. Len(D) < 2 => r = NotYet
        BY DEF TryParseFrame
    <2>2. Len(D) \in Nat
        OBVIOUS
    <2> QED
        BY <1>0, <2>1, <2>2
<1>2. r = CASE Len(D) < 2 + ext /\ ext = 8 ->
                   [NotYet EXCEPT !.ok = TRUE, !.fin = D[1] >= HighBit, !.opcode = D[1] % 16]
            [] Len(D) < 2 + ext /\ ext # 8 -> NotYet
            [] Len(D) >= 2 + ext /\ Len(D) < pos -> NotYet
            [] OTHER -> ParsePayload(D, pos, n)
    <2>1. ~(Len(D) < 2)
        BY <1>1
    <2> QED
        BY <2>1 DEF TryParseFrame
<1>3. ext \in {0, 2, 8} /\ KeyLength(D) \in {0, 4} /\ Len(D) \in Nat
    BY DEF ExtendedLength, KeyLength
<1> HIDE DEF ext, pos, n
<1>4. r = ParsePayload(D, pos, n) /\ Len(D) >= pos
    <2>1. CASE Len(D) < 2 + ext /\ ext = 8
        <3>1. r = [NotYet EXCEPT !.ok = TRUE, !.fin = D[1] >= HighBit, !.opcode = D[1] % 16]
            BY <1>2, <1>3, <2>1
        <3>2. r.size = 0
            BY <3>1 DEF NotYet
        <3> QED
            BY <3>2
    <2>2. CASE (Len(D) < 2 + ext /\ ext # 8) \/ (Len(D) >= 2 + ext /\ Len(D) < pos)
        <3>1. r = NotYet
            BY <1>2, <1>3, <2>2
        <3> QED
            BY <1>0, <3>1
    <2>3. CASE /\ ~(Len(D) < 2 + ext /\ ext = 8) /\ ~(Len(D) < 2 + ext /\ ext # 8)
               /\ ~(Len(D) >= 2 + ext /\ Len(D) < pos)
        <3>1. pos \in Nat
            BY <1>3 DEF pos
        <3>2. ~(Len(D) < pos)
            BY <1>3, <2>3
        <3> QED
            BY <1>2, <1>3, <2>3, <3>1, <3>2
    <2> QED
        BY <2>1, <2>2, <2>3
<1>5. Shifted(pos + n, 8)[8] = 0 /\ ~(Len(D) < pos + n)
    <2>1. Shifted(pos + n, 8)[8] # 0 => r = LengthError
        BY <1>4 DEF ParsePayload
    <2>2. Shifted(pos + n, 8)[8] = 0 /\ Len(D) < pos + n => r = NotYet
        BY <1>4 DEF ParsePayload
    <2> QED
        BY <1>0, <2>1, <2>2
<1>6. r = [ok |-> TRUE, thrown |-> FALSE, size |-> pos + n,
           fin |-> D[1] >= HighBit, opcode |-> D[1] % 16,
           payload |-> IF KeyLength(D) = 0 THEN SubSeq(D, pos + 1, pos + n)
                       ELSE XorKey(SubSeq(D, pos + 1, pos + n), SubSeq(D, pos - 3, pos))]
    BY <1>4, <1>5 DEF ParsePayload
<1> QED
    BY ONLY <1>1, <1>4, <1>5, <1>6 DEF ext, pos, n

\* What try_parse_frame reads of what to_string wrote is the frame, whatever
\* its length, its mask and what follows it in the buffer; it takes all of the
\* text but the zeros that to_string leaves behind a masked payload.
THEOREM FrameReadBack ==
    ASSUME NEW f \in Frame, NEW key \in Key, Shifted(Len(f.payload), 8)[8] = 0,
           NEW D \in Seq(Nat),
           \A i \in 1 .. Len(D) : i <= Core(f) => D[i] = FrameString(f, key)[i],
           NEW r, r = TryParseFrame(D), r.ok, r.size > 0
    PROVE  /\ r.size = Core(f) /\ Len(D) >= Core(f)
           /\ r.fin = f.fin /\ r.opcode = f.opcode /\ r.payload = f.payload
<1> DEFINE L == FrameString(f, key)
           payload == f.payload
           n == Len(payload)
           x == Extra(n)
           kl == KeyBytes(f)
           pos == 2 + x + kl
<1>0. /\ n \in Nat /\ x \in {0, 2, 8} /\ kl \in {0, 4} /\ Zeros(f) \in Nat /\ Len(D) \in Nat
      /\ Core(f) = 2 + x + kl + n /\ (f.mask => kl = 4) /\ (~f.mask => kl = 0)
    <2>1. (f.mask => kl = 4) /\ (~f.mask => kl = 0)
        BY DEF KeyBytes
    <2>2. /\ n \in Nat /\ x \in {0, 2, 8} /\ kl \in {0, 4} /\ Zeros(f) \in Nat
          /\ Core(f) = 2 + x + kl + n
        BY FrameSizes
    <2>3. Len(D) \in Nat
        OBVIOUS
    <2> QED
        BY ONLY <2>1, <2>2, <2>3
<1>1. Shape(L, f, key, n, x, kl)
    BY FrameShape
<1>2. /\ payload \in Seq(0 .. Radix - 1) /\ f.fin \in BOOLEAN /\ f.mask \in BOOLEAN
      /\ \A i \in 1 .. n : payload[i] \in 0 .. Radix - 1
    <2>1. payload \in Seq(0 .. Radix - 1) /\ f.fin \in BOOLEAN /\ f.mask \in BOOLEAN
        BY DEF Frame
    <2> HIDE DEF payload
    <2> QED
        BY <2>1, ElementOfSeq
<1>3. \A i \in 1 .. 4 : key[i] \in 0 .. Radix - 1
    <2>1. key \in Seq(0 .. Radix - 1) /\ Len(key) = 4
        BY DEF Key
    <2> QED
        BY <2>1, ElementOfSeq
<1> HIDE DEF L, n, x, kl, payload
<1>4. \A i \in 1 .. Len(D) : i <= Core(f) => D[i] = L[i]
    BY DEF L
<1> DEFINE ext == ExtendedLength(D)
           p == 2 + ext + KeyLength(D)
           size == PayloadLength(D, ext)
           bytes == SubSeq(D, p + 1, p + size)
<1>5. /\ Len(D) >= 2 /\ ~(Len(D) < p + size) /\ Len(D) >= p
      /\ r = [ok |-> TRUE, thrown |-> FALSE, size |-> p + size,
              fin |-> D[1] >= HighBit, opcode |-> D[1] % 16,
              payload |-> IF KeyLength(D) = 0 THEN bytes ELSE XorKey(bytes, SubSeq(D, p - 3, p))]
    BY ONLY ParseCases, D \in Seq(Nat), r = TryParseFrame(D), r.ok, r.size > 0
<1>6. D[1] = L[1] /\ D[2] = L[2]
    BY <1>0, <1>4, <1>5
<1>7. ext = x /\ KeyLength(D) = kl
    <2>1. Short \in Nat /\ HighBit \in Nat /\ Short + 2 < HighBit
        BY LengthAssumption, HighBits
    <2>2. KeyLength(D) = kl
        <3>1. KeyLength(D) = IF L[2] >= HighBit THEN 4 ELSE 0
            BY <1>6 DEF KeyLength
        <3>2. L[2] >= HighBit <=> f.mask
            BY <1>1 DEF Shape
        <3> QED
            BY <1>0, <1>2, <3>1, <3>2
    <2>3. ext = CASE L[2] % HighBit = Short + 1 -> 2 [] L[2] % HighBit = Short + 2 -> 8
                  [] OTHER -> 0
        BY <1>6 DEF ExtendedLength
    <2>4. IF x = 0 THEN L[2] % HighBit = n /\ n <= Short
          ELSE L[2] % HighBit = IF x = 2 THEN Short + 1 ELSE Short + 2
        BY <1>1 DEF Shape
    <2> HIDE DEF ext
    <2>5. ext = x
        <3>1. CASE x = 0
            BY <1>0, <2>1, <2>3, <2>4, <3>1
        <3>2. CASE x = 2
            BY <1>0, <2>1, <2>3, <2>4, <3>2
        <3>3. CASE x = 8
            BY <1>0, <2>1, <2>3, <2>4, <3>3
        <3> QED
            BY <1>0, <3>1, <3>2, <3>3
    <2> QED
        BY <2>2, <2>5
<1> HIDE DEF ext
<1>8. p = pos /\ pos \in Nat /\ Core(f) = pos + n /\ pos >= 2 + x
    BY <1>0, <1>7
<1>9. size = n
    <2>1. CASE x = 0
        <3>1. size = D[2] % HighBit
            BY <1>7, <2>1 DEF PayloadLength
        <3>2. L[2] % HighBit = n
            BY <1>1, <2>1 DEF Shape
        <3> QED
            BY <1>6, <3>1, <3>2
    <2>2. CASE x # 0
        <3> DEFINE num == HostToNet(n, x)
        <3>1. /\ num \in Seq(Nat) /\ Len(num) = x /\ NetToHost(num) = n
              /\ \A i \in 1 .. x : L[2 + i] = num[i]
            BY <1>1, <2>2 DEF Shape
        <3> HIDE DEF num
        <3>2. size = NetToHost(SubSeq(D, 3, 2 + x))
            BY <1>7, <2>2 DEF PayloadLength
        <3>3. Len(D) >= 2 + x
            BY <1>0, <1>5, <1>8
        <3>4. SubSeq(D, 3, 2 + x) = num
            <4> DEFINE part == SubSeq(D, 3, 2 + x)
            <4>1. \A i \in 3 .. 2 + x : D[i] \in Nat
                BY <1>0, <3>3, ElementOfSeq
            <4>2. /\ part \in Seq(Nat) /\ Len(part) = x
                  /\ \A i \in 1 .. x : part[i] = D[3 + i - 1]
                <5>1. /\ part \in Seq(Nat) /\ Len(part) = (IF 3 <= 2 + x THEN 2 + x - 3 + 1 ELSE 0)
                      /\ \A i \in 1 .. 2 + x - 3 + 1 : part[i] = D[3 + i - 1]
                    BY <1>0, <4>1, SubSeqProperties
                <5> HIDE DEF part
                <5> QED
                    BY <1>0, <2>2, <5>1
            <4> HIDE DEF part
            <4>3. \A i \in 1 .. Len(part) : part[i] = num[i]
                <5> TAKE i \in 1 .. Len(part)
                <5>1. /\ i \in 1 .. x /\ 3 + i - 1 = 2 + i /\ 2 + i \in 1 .. Len(D)
                      /\ 2 + i <= Core(f)
                    BY <1>0, <3>3, <4>2
                <5>2. part[i] = D[2 + i]
                    BY <4>2, <5>1
                <5>3. D[2 + i] = L[2 + i]
                    BY ONLY <1>4, <5>1
                <5>4. L[2 + i] = num[i]
                    BY ONLY <3>1, <5>1
                <5> QED
                    BY ONLY <5>2, <5>3, <5>4
            <4> QED
                BY <3>1, <4>2, <4>3, SeqEqual DEF part
        <3> QED
            BY <3>1, <3>2, <3>4
    <2> QED
        BY <2>1, <2>2
<1>10. /\ r.size = Core(f) /\ Len(D) >= Core(f)
    <2>1. r.size = p + size
        BY <1>5
    <2> QED
        BY <1>0, <1>5, <1>8, <1>9, <2>1
<1>11. r.fin = f.fin /\ r.opcode = f.opcode
    <2>1. r.fin = (D[1] >= HighBit) /\ r.opcode = D[1] % 16
        BY <1>5
    <2>2. L[1] % 16 = f.opcode /\ (L[1] >= HighBit <=> f.fin)
        BY <1>1 DEF Shape
    <2> QED
        BY <1>2, <1>6, <2>1, <2>2
<1>12. /\ pos \in Nat /\ n \in Nat /\ Core(f) = pos + n /\ Core(f) \in Nat
       /\ Len(D) >= Core(f) /\ Len(D) \in Nat
    <2>1. pos \in Nat /\ Core(f) = pos + n
        BY ONLY <1>8
    <2>2. n \in Nat /\ Len(D) \in Nat /\ Len(D) >= Core(f)
        BY ONLY <1>0, <1>10
    <2> QED
        BY <2>1, <2>2
<1>13. r.payload = payload
    <2>1. /\ bytes \in Seq(Nat) /\ Len(bytes) = n
          /\ \A i \in 1 .. n : bytes[i] = L[pos + i]
        <3>1. \A i \in pos + 1 .. pos + n : D[i] \in Nat
            <4> TAKE i \in pos + 1 .. pos + n
            <4>1. i \in 1 .. Len(D)
                BY ONLY <1>12, i \in pos + 1 .. pos + n
            <4> QED
                BY <4>1, ElementOfSeq
        <3>2. bytes = SubSeq(D, pos + 1, pos + n)
            BY <1>8, <1>9
        <3> HIDE DEF bytes, pos
        <3>3. /\ bytes \in Seq(Nat)
              /\ Len(bytes) = IF pos + 1 <= pos + n THEN pos + n - (pos + 1) + 1 ELSE 0
              /\ \A i \in 1 .. pos + n - (pos + 1) + 1 : bytes[i] = D[pos + 1 + i - 1]
            BY <1>0, <1>8, <3>1, <3>2, SubSeqProperties
        <3>4. Len(bytes) = n
            BY <1>0, <1>8, <3>3
        <3>5. ASSUME NEW i \in 1 .. n PROVE bytes[i] = L[pos + i]
            <4>1. /\ i \in 1 .. pos + n - (pos + 1) + 1 /\ pos + 1 + i - 1 = pos + i
                  /\ pos + i \in 1 .. Len(D) /\ pos + i <= Core(f)
                <5> QED
                    BY ONLY <1>12, i \in 1 .. n
            <4> QED
                BY <1>4, <3>3, <4>1
        <3> QED
            BY <3>3, <3>4, <3>5
    <2>2. \A i \in 1 .. n : L[pos + i]
              = IF f.mask THEN XorByte(payload[i], key[((i - 1) % 4) + 1]) ELSE payload[i]
        BY <1>1 DEF Shape, payload
    <2>3. r.payload = IF KeyLength(D) = 0 THEN bytes ELSE XorKey(bytes, SubSeq(D, pos - 3, pos))
        BY <1>5, <1>8
    <2> HIDE DEF bytes
    <2>4. payload \in Seq(Nat) /\ Len(payload) = n
        BY <1>2, HighBits, SeqMonotonic DEF n
    <2>5. CASE ~f.mask
        <3>1. r.payload = bytes
            BY <1>0, <1>7, <2>3, <2>5
        <3>2. \A i \in 1 .. n : bytes[i] = payload[i]
            BY <2>1, <2>2, <2>5
        <3> QED
            BY <2>1, <2>4, <3>1, <3>2, SeqEqual
    <2>6. CASE f.mask
        <3> DEFINE k == SubSeq(D, pos - 3, pos)
        <3>1. kl = 4 /\ pos = 6 + x /\ KeyLength(D) = 4
            BY <1>0, <1>7, <2>6
        <3>2. \A i \in 1 .. 4 : k[i] = key[i]
            <4>1. \A i \in pos - 3 .. pos : D[i] \in Nat
                <5> TAKE i \in pos - 3 .. pos
                <5>0. x \in Nat /\ pos = 6 + x
                    BY ONLY <1>0, <3>1
                <5>1. i \in 1 .. Len(D)
                    BY ONLY <1>12, <5>0, i \in pos - 3 .. pos
                <5> QED
                    BY <5>1, ElementOfSeq
            <4>2. k = SubSeq(D, pos - 3, pos) /\ pos - 3 \in Int /\ pos \in Int
                BY <1>8
            <4> HIDE DEF k, pos
            <4>3. \A i \in 1 .. pos - (pos - 3) + 1 : k[i] = D[pos - 3 + i - 1]
                BY <4>1, <4>2, SubSeqProperties
            <4> TAKE i \in 1 .. 4
            <4>4. /\ i \in 1 .. pos - (pos - 3) + 1 /\ pos - 3 + i - 1 = 2 + x + i
                  /\ 2 + x + i \in 1 .. Len(D) /\ 2 + x + i <= Core(f)
                <5>1. x \in Nat /\ pos = 6 + x
                    BY ONLY <1>0, <3>1
                <5> QED
                    BY ONLY <1>12, <5>1, i \in 1 .. 4
            <4>5. L[2 + x + i] = key[i]
                BY <1>1, <2>6 DEF Shape
            <4> QED
                BY <1>4, <4>3, <4>4, <4>5
        <3>3. r.payload = [i \in 1 .. n |-> XorByte(bytes[i], k[((i - 1) % 4) + 1])]
            <4>1. DOMAIN bytes = 1 .. n
                BY <2>1
            <4>2. r.payload = XorKey(bytes, k)
                BY <2>3, <3>1
            <4> HIDE DEF k
            <4> QED
                BY ONLY <4>1, <4>2 DEF XorKey
        <3> HIDE DEF k
        <3>4. \A i \in 1 .. n : XorByte(bytes[i], k[((i - 1) % 4) + 1]) = payload[i]
            <4> TAKE i \in 1 .. n
            <4>0. i - 1 \in Nat
                BY ONLY <1>0, i \in 1 .. n
            <4>1. ((i - 1) % 4) + 1 \in 1 .. 4
                BY ONLY <4>0
            <4> DEFINE b == payload[i]
                       c == key[((i - 1) % 4) + 1]
            <4>2. bytes[i] = XorByte(b, c) /\ k[((i - 1) % 4) + 1] = c
                BY <2>1, <2>2, <2>6, <3>2, <4>1
            <4>3. b \in 0 .. Radix - 1 /\ c \in 0 .. Radix - 1
                BY <1>2, <1>3, <4>1
            <4> HIDE DEF b, c
            <4>4. XorByte(XorByte(b, c), c) = b
                BY <4>3, ByteAssumption
            <4> QED
                BY <4>2, <4>4 DEF b
        <3>5. payload = [i \in 1 .. n |-> payload[i]]
            BY <2>4
        <3> QED
            BY ONLY <3>3, <3>4, <3>5
    <2> QED
        BY <1>2, <2>5, <2>6
<1> QED
    BY <1>10, <1>11, <1>13 DEF payload

\* Two of those zeros are read as a frame that is not the last, continues the
\* message under way and adds nothing to it.
THEOREM ZerosRead ==
    ASSUME NEW D \in Seq(Nat), \A i \in 1 .. Len(D) : i <= 2 => D[i] = 0,
           NEW r, r = TryParseFrame(D), r.ok, r.size > 0
    PROVE  /\ Len(D) >= 2 /\ r.size = 2
           /\ r.fin = FALSE /\ r.opcode = op_continuation_frame /\ r.payload = <<>>
<1> DEFINE ext == ExtendedLength(D)
           p == 2 + ext + KeyLength(D)
           size == PayloadLength(D, ext)
           bytes == SubSeq(D, p + 1, p + size)
<1>1. /\ Len(D) >= 2
      /\ r = [ok |-> TRUE, thrown |-> FALSE, size |-> p + size,
              fin |-> D[1] >= HighBit, opcode |-> D[1] % 16,
              payload |-> IF KeyLength(D) = 0 THEN bytes ELSE XorKey(bytes, SubSeq(D, p - 3, p))]
    BY ONLY ParseCases, D \in Seq(Nat), r = TryParseFrame(D), r.ok, r.size > 0
<1>2. /\ HighBit \in Nat /\ HighBit >= 16 /\ Short \in Nat /\ Len(D) \in Nat
    BY HighBits, LengthAssumption
<1>3. D[1] = 0 /\ D[2] = 0
    BY <1>1, <1>2
<1>4. 0 % HighBit = 0 /\ ~(0 >= HighBit) /\ 0 % 16 = 0
    BY <1>2
<1>5. ext = 0 /\ KeyLength(D) = 0
    BY <1>2, <1>3, <1>4 DEF ExtendedLength, KeyLength
<1> HIDE DEF ext
<1>6. size = 0
    BY <1>3, <1>4, <1>5 DEF PayloadLength
<1> HIDE DEF size
<1>7. p = 2 /\ bytes = <<>>
    <2>1. p = 2
        BY <1>5
    <2>2. SubSeq(D, 2 + 1, 2 + 0) = <<>>
        BY SubSeqEmpty
    <2> QED
        BY <1>6, <2>1, <2>2
<1> HIDE DEF p, bytes
<1>8. r.size = p + size /\ r.fin = (D[1] >= HighBit) /\ r.opcode = D[1] % 16
      /\ r.payload = IF KeyLength(D) = 0 THEN bytes ELSE XorKey(bytes, SubSeq(D, p - 3, p))
    BY <1>1
<1>9. r.size = 2 /\ r.payload = <<>>
    BY ONLY <1>5, <1>6, <1>7, <1>8
<1>10. r.fin = FALSE /\ r.opcode = 0
    <2>1. (D[1] >= HighBit) = FALSE /\ D[1] % 16 = 0
        BY ONLY <1>3, <1>4
    <2> QED
        BY ONLY <1>8, <2>1
<1> QED
    BY ONLY <1>1, <1>9, <1>10 DEF op_continuation_frame

-----------------------------------------------------------------------------
(* The messages that frames make up.                                         *)

\* Joined, frame by frame: what is done, and the message under way.
Nothing == [done |-> <<>>, payload |-> <<>>, opcode |-> op_unknow]
Opcodes == (0 .. 15) \ {op_handshake_req, op_handshake_ack}
Payloads == Seq(0 .. Radix - 1)
Under(acc, f) == acc.payload \o f.payload
Code(acc, f) == IF f.opcode = op_continuation_frame THEN acc.opcode ELSE f.opcode
With(acc, f) ==
    IF f.fin THEN [done |-> Append(acc.done, <<Code(acc, f), Under(acc, f)>>),
                   payload |-> <<>>, opcode |-> op_unknow]
    ELSE [done |-> acc.done, payload |-> Under(acc, f), opcode |-> Code(acc, f)]
Joinable == [done : Seq(Opcodes \X Payloads), payload : Payloads, opcode : Opcodes]

\* A frame added to the message under way.
LEMMA WithTypes ==
    ASSUME NEW acc \in Joinable, NEW f \in Frame
    PROVE  /\ With(acc, f) \in Joinable /\ Code(acc, f) \in Opcodes /\ Under(acc, f) \in Payloads
           /\ f.fin => /\ With(acc, f).done = Append(acc.done, <<Code(acc, f), Under(acc, f)>>)
                       /\ With(acc, f).payload = <<>> /\ With(acc, f).opcode = op_unknow
           /\ ~f.fin => /\ With(acc, f).done = acc.done
                        /\ With(acc, f).payload = Under(acc, f)
                        /\ With(acc, f).opcode = Code(acc, f)
<1>1. /\ acc.done \in Seq(Opcodes \X Payloads) /\ acc.payload \in Payloads /\ acc.opcode \in Opcodes
      /\ f.payload \in Payloads /\ f.opcode \in Opcodes /\ f.fin \in BOOLEAN
    BY DEF Joinable, Frame, Payloads, Opcodes
<1>2. Code(acc, f) \in Opcodes
    BY <1>1 DEF Code
<1>3. Under(acc, f) \in Payloads
    BY <1>1 DEF Under, Payloads
<1>4. op_unknow \in Opcodes /\ <<>> \in Payloads
    BY DEF op_unknow, Opcodes, Payloads, op_handshake_req, op_handshake_ack
<1> DEFINE code == Code(acc, f)
           under == Under(acc, f)
           more == Append(acc.done, <<code, under>>)
<1>5. more \in Seq(Opcodes \X Payloads)
    <2>1. <<code, under>> \in Opcodes \X Payloads
        BY <1>2, <1>3
    <2> QED
        BY <1>1, <2>1
<1>6. With(acc, f) = IF f.fin THEN [done |-> more, payload |-> <<>>, opcode |-> op_unknow]
                     ELSE [done |-> acc.done, payload |-> under, opcode |-> code]
    BY DEF With
<1> HIDE DEF code, under, more
<1>7. With(acc, f) \in Joinable
    BY <1>1, <1>2, <1>3, <1>4, <1>5, <1>6 DEF Joinable, code, under
<1>8. f.fin => With(acc, f).done = more /\ With(acc, f).payload = <<>> /\ With(acc, f).opcode = op_unknow
    BY <1>6
<1>9. ~f.fin => With(acc, f).done = acc.done /\ With(acc, f).payload = under
                /\ With(acc, f).opcode = code
    BY <1>6
<1> QED
    BY <1>2, <1>3, <1>7, <1>8, <1>9 DEF code, under, more

\* Joined is the function that its recursion describes.
LEMMA JoinedIs ==
    ASSUME NEW frames \in Seq(Frame)
    PROVE  /\ Joined(frames)[0] = Nothing
           /\ \A n \in 1 .. Len(frames) :
                 Joined(frames)[n] = With(Joined(frames)[n - 1], frames[n])
           /\ \A n \in 0 .. Len(frames) : Joined(frames)[n] \in Joinable
<1> DEFINE k == Len(frames)
           Is(f, n) == f = [i \in 0 .. n |-> IF i = 0 THEN Nothing ELSE With(f[i - 1], frames[i])]
           S == {n \in 0 .. k : \E f : Is(f, n)}
<1>0. k \in Nat
    OBVIOUS
<1>1. 0 \in S
    <2>1. PICK f : f = [i \in 0 .. 0 |-> Nothing]
        OBVIOUS
    <2>2. f = [i \in 0 .. 0 |-> IF i = 0 THEN Nothing ELSE With(f[i - 1], frames[i])]
        BY <2>1
    <2> QED
        BY <2>2
<1>2. ASSUME NEW n \in 1 .. k, n - 1 \in S PROVE n \in S
    <2>1. PICK f : f = [i \in 0 .. n - 1 |-> IF i = 0 THEN Nothing ELSE With(f[i - 1], frames[i])]
        BY <1>2
    <2>2. PICK g : g = [i \in 0 .. n |-> IF i = 0 THEN Nothing ELSE With(f[i - 1], frames[i])]
        OBVIOUS
    <2>3. \A i \in 0 .. n - 1 : g[i] = f[i]
        <3> TAKE i \in 0 .. n - 1
        <3>1. i \in 0 .. n
            OBVIOUS
        <3>2. g[i] = IF i = 0 THEN Nothing ELSE With(f[i - 1], frames[i])
            BY ONLY <2>2, <3>1
        <3>3. f[i] = IF i = 0 THEN Nothing ELSE With(f[i - 1], frames[i])
            BY ONLY <2>1, i \in 0 .. n - 1
        <3> QED
            BY <3>2, <3>3
    <2>4. \A i \in 0 .. n : (IF i = 0 THEN Nothing ELSE With(f[i - 1], frames[i]))
                                = (IF i = 0 THEN Nothing ELSE With(g[i - 1], frames[i]))
        <3> TAKE i \in 0 .. n
        <3>1. i # 0 => i - 1 \in 0 .. n - 1
            OBVIOUS
        <3> QED
            BY <2>3, <3>1
    <2>5. g = [i \in 0 .. n |-> IF i = 0 THEN Nothing ELSE With(g[i - 1], frames[i])]
        BY ONLY <2>2, <2>4
    <2> QED
        BY <2>5
<1>3. \E f : Is(f, k)
    <2> HIDE DEF S
    <2>1. \A n \in 0 .. k : n \in S
        BY <1>0, <1>1, <1>2, UpTo
    <2> QED
        BY <2>1 DEF S
<1>4. Joined(frames) = CHOOSE f : Is(f, k)
    BY DEF Joined, With, Code, Under, Nothing
<1> HIDE DEF Is
<1>5. Is(Joined(frames), k)
    BY <1>3, <1>4
<1>6. PICK h : h = Joined(frames)
    OBVIOUS
<1>7. h = [i \in 0 .. k |-> IF i = 0 THEN Nothing ELSE With(h[i - 1], frames[i])]
    BY <1>5, <1>6 DEF Is
<1>8. h[0] = Nothing /\ \A n \in 1 .. k : h[n] = With(h[n - 1], frames[n])
    <2>1. 0 \in 0 .. k /\ \A n \in 1 .. k : n \in 0 .. k /\ n # 0
        BY <1>0
    <2> QED
        BY ONLY <1>7, <2>1
<1> DEFINE T == {n \in 0 .. k : h[n] \in Joinable}
<1>9. 0 \in T
    <2>1. Nothing \in Joinable
        <3>1. <<>> \in Seq(Opcodes \X Payloads) /\ <<>> \in Payloads /\ op_unknow \in Opcodes
            BY DEF op_unknow, Opcodes, Payloads, op_handshake_req, op_handshake_ack
        <3> QED
            BY <3>1 DEF Nothing, Joinable
    <2> QED
        BY <1>0, <1>8, <2>1
<1>10. \A n \in 1 .. k : n - 1 \in T => n \in T
    <2> SUFFICES ASSUME NEW n \in 1 .. k, n - 1 \in T PROVE h[n] \in Joinable
        OBVIOUS
    <2>1. h[n - 1] \in Joinable /\ frames[n] \in Frame
        BY ElementOfSeq
    <2> QED
        BY <1>8, <2>1, WithTypes
<1> HIDE DEF T
<1>11. \A n \in 0 .. k : n \in T
    BY <1>0, <1>9, <1>10, UpTo
<1>12. \A n \in 0 .. k : h[n] \in Joinable
    BY <1>11 DEF T
<1> QED
    BY <1>6, <1>8, <1>12

\* Messages are only added.
LEMMA JoinedGrows ==
    ASSUME NEW frames \in Seq(Frame), NEW n \in 0 .. Len(frames), NEW k \in 0 .. n
    PROVE  IsPrefix(Joined(frames)[k].done, Joined(frames)[n].done)
<1> DEFINE M == Opcodes \X Payloads
           first == Joined(frames)[k].done
           done(i) == Joined(frames)[i].done
           Begins(t) == Len(first) <= Len(t) /\ \A j \in 1 .. Len(first) : t[j] = first[j]
           S == {i \in 0 .. n - k : Begins(done(k + i))}
<1>0. /\ Len(frames) \in Nat /\ n \in Nat /\ k \in Nat /\ k <= n
      /\ \A i \in 0 .. Len(frames) : done(i) \in Seq(M)
    <2>1. \A i \in 0 .. Len(frames) : Joined(frames)[i] \in Joinable
        BY JoinedIs
    <2> QED
        BY <2>1 DEF Joinable
<1>1. 0 \in S
    <2>1. k + 0 = k /\ first \in Seq(M) /\ Len(first) \in Nat
        BY <1>0
    <2> QED
        BY <1>0, <2>1
<1>2. ASSUME NEW i \in 1 .. n - k, i - 1 \in S PROVE i \in S
    <2>1. /\ k + i \in 1 .. Len(frames) /\ k + (i - 1) \in 0 .. Len(frames)
          /\ (k + i) - 1 = k + (i - 1)
        BY <1>0
    <2> DEFINE t == done(k + (i - 1))
               r == done(k + i)
    <2>2. Begins(t) /\ t \in Seq(M) /\ first \in Seq(M) /\ Len(t) \in Nat /\ Len(first) \in Nat
        <3>1. Begins(t)
            <4> HIDE DEF Begins, done
            <4> QED
                BY <1>2
        <3>2. t \in Seq(M) /\ first \in Seq(M)
            <4>1. k \in 0 .. Len(frames)
                BY <1>0
            <4> QED
                BY ONLY <1>0, <2>1, <4>1
        <3> QED
            BY <3>1, <3>2
    <2>3. r = t \/ \E x \in M : r = Append(t, x)
        <3> DEFINE acc == Joined(frames)[k + (i - 1)]
                   f == frames[k + i]
        <3>1. acc \in Joinable /\ f \in Frame /\ Joined(frames)[k + i] = With(acc, f)
            <4>1. frames[k + i] \in Frame
                BY <2>1, ElementOfSeq
            <4> QED
                BY <2>1, <4>1, JoinedIs
        <3>2. r = With(acc, f).done /\ t = acc.done
            BY <3>1
        <3> HIDE DEF acc, f, r, t
        <3>3. CASE f.fin
            <4>1. r = Append(t, <<Code(acc, f), Under(acc, f)>>)
                BY <3>1, <3>2, <3>3, WithTypes
            <4>2. <<Code(acc, f), Under(acc, f)>> \in M
                BY <3>1, WithTypes
            <4> QED
                BY <4>1, <4>2
        <3>4. CASE ~f.fin
            BY <3>1, <3>2, <3>4, WithTypes
        <3> QED
            BY <3>3, <3>4
    <2> HIDE DEF r, t, M, first
    <2>4. Begins(r)
        <3>1. CASE r = t
            BY <2>2, <3>1
        <3>2. ASSUME NEW x \in M, r = Append(t, x) PROVE Begins(r)
            <4>1. Len(r) = Len(t) + 1 /\ \A j \in 1 .. Len(t) : r[j] = t[j]
                BY <2>2, <3>2, AppendProperties
            <4> QED
                BY <2>2, <4>1
        <3> QED
            BY <2>3, <3>1, <3>2
    <2> QED
        BY <2>4 DEF r
<1> HIDE DEF S
<1>3. \A i \in 0 .. n - k : i \in S
    <2>1. n - k \in Nat
        BY <1>0
    <2> QED
        BY <1>1, <1>2, <2>1, UpTo
<1> DEFINE last == done(n)
<1>4. Begins(last)
    <2>1. n - k \in S /\ k + (n - k) = n
        BY <1>0, <1>3
    <2> QED
        BY <2>1 DEF S
<1>5. first \in Seq(M) /\ last \in Seq(M)
    BY <1>0
<1> HIDE DEF first, last, M, done
<1>6. SubSeq(first, 1, Len(first)) = SubSeq(last, 1, Len(first))
    <2>1. Len(first) \in Nat /\ Len(last) \in Nat
        BY <1>5
    <2> DEFINE x == SubSeq(first, 1, Len(first))
               y == SubSeq(last, 1, Len(first))
    <2>2. x = first
        BY <1>5, SubSeqFull
    <2>3. \A j \in 1 .. Len(first) : last[j] \in M
        BY <1>4, <1>5, <2>1, ElementOfSeq
    <2>4. /\ y \in Seq(M) /\ Len(y) = IF 1 <= Len(first) THEN Len(first) - 1 + 1 ELSE 0
          /\ \A j \in 1 .. Len(first) - 1 + 1 : y[j] = last[1 + j - 1]
        BY <2>1, <2>3, SubSeqProperties
    <2> HIDE DEF y
    <2>5. Len(y) = Len(first) /\ \A j \in 1 .. Len(first) : y[j] = first[j]
        BY <1>4, <2>1, <2>4
    <2>6. y = first
        BY <1>5, <2>4, <2>5, SeqEqual
    <2> QED
        BY <2>2, <2>6 DEF y
<1> QED
    BY <1>4, <1>6 DEF IsPrefix, first, last, done

-----------------------------------------------------------------------------
(* Parts of an endless stream.                                               *)

\* The elements of F at the places a + 1 to b.
Part(F, a, b) == [i \in 1 .. b - a |-> F[a + i]]

Elements(F, a, b) == {F[i] : i \in a + 1 .. b}
Shows(t, F, a, b) ==
    /\ t \in Seq(Elements(F, a, b)) /\ Len(t) = b - a /\ DOMAIN t = 1 .. b - a
    /\ \A i \in 1 .. b - a : t[i] = F[a + i]
    /\ t = <<>> <=> a = b

\* The elements a + 1 to b, as a sequence.
LEMMA PartShape ==
    ASSUME NEW F, NEW a \in Nat, NEW b \in Nat, a <= b
    PROVE  Shows(Part(F, a, b), F, a, b)
<1> DEFINE S == {F[i] : i \in a + 1 .. b}
<1>1. PICK t : t = Part(F, a, b)
    OBVIOUS
<1>2. t = [i \in 1 .. b - a |-> F[a + i]]
    BY <1>1 DEF Part
<1>3. \A i \in 1 .. b - a : t[i] = F[a + i] /\ a + i \in a + 1 .. b
    BY <1>2
<1>4. \A i \in 1 .. b - a : t[i] \in S
    BY <1>3
<1> HIDE DEF S
<1>5. t \in [1 .. b - a -> S] /\ b - a \in Nat
    BY <1>2, <1>4
<1>6. t \in Seq(S) /\ Len(t) = b - a /\ DOMAIN t = 1 .. b - a
    BY <1>5
<1>7. t = <<>> <=> a = b
    BY <1>6, EmptySeq
<1> QED
    BY <1>1, <1>3, <1>6, <1>7 DEF S, Shows, Elements

\* Two sequences of some elements are the same if they agree.
Agrees(t, F, a, b) == Len(t) = b - a /\ \A i \in 1 .. b - a : t[i] = F[a + i]
\* A sequence of the same elements is that part.
LEMMA PartIs ==
    ASSUME NEW F, NEW a \in Nat, NEW b \in Nat, a <= b, NEW S, NEW t \in Seq(S),
           Agrees(t, F, a, b)
    PROVE  t = Part(F, a, b)
<1>1. t = [i \in 1 .. b - a |-> t[i]]
    <2>1. DOMAIN t = 1 .. Len(t) /\ t \in [1 .. Len(t) -> S]
        BY LenProperties
    <2> QED
        BY <2>1 DEF Agrees
<1> QED
    BY <1>1 DEF Part, Agrees

\* F and G agree on the places a + 1 to b.
Same(F, G, a, b) == \A i \in a + 1 .. b : F[i] = G[i]
\* Functions that agree between two places have the same part there.
LEMMA PartsAgree ==
    ASSUME NEW F, NEW G, NEW a \in Nat, NEW b \in Nat, a <= b, Same(F, G, a, b)
    PROVE  Part(F, a, b) = Part(G, a, b)
<1>1. \A i \in 1 .. b - a : F[a + i] = G[a + i]
    <2> TAKE i \in 1 .. b - a
    <2>1. a + i \in a + 1 .. b
        OBVIOUS
    <2> QED
        BY <2>1 DEF Same
<1> QED
    BY <1>1 DEF Part

\* Two parts that meet are one.
LEMMA PartsMeet ==
    ASSUME NEW F, NEW a \in Nat, NEW b \in Nat, NEW c \in Nat, a <= b, b <= c
    PROVE  Part(F, a, b) \o Part(F, b, c) = Part(F, a, c)
<1> DEFINE S == {F[i] : i \in a + 1 .. c}
<1>1. PICK t, u : t = Part(F, a, b) /\ u = Part(F, b, c)
    OBVIOUS
<1>2. /\ t \in Seq({F[i] : i \in a + 1 .. b}) /\ u \in Seq({F[i] : i \in b + 1 .. c})
      /\ Len(t) = b - a /\ Len(u) = c - b
      /\ \A i \in 1 .. b - a : t[i] = F[a + i]
      /\ \A i \in 1 .. c - b : u[i] = F[b + i]
    <2>1. Shows(t, F, a, b) /\ Shows(u, F, b, c)
        BY <1>1, PartShape
    <2> QED
        BY <2>1 DEF Shows, Elements
<1>3. t \in Seq(S) /\ u \in Seq(S)
    <2>1. {F[i] : i \in a + 1 .. b} \subseteq S /\ {F[i] : i \in b + 1 .. c} \subseteq S
        OBVIOUS
    <2> HIDE DEF S
    <2> QED
        BY <1>2, <2>1, SeqMonotonic
<1> HIDE DEF S
<1>4. /\ t \o u \in Seq(S) /\ Len(t \o u) = Len(t) + Len(u)
      /\ \A i \in 1 .. Len(t) + Len(u) :
            (t \o u)[i] = IF i <= Len(t) THEN t[i] ELSE u[i - Len(t)]
    BY <1>3, ConcatProperties
<1>5. \A i \in 1 .. c - a : (t \o u)[i] = F[a + i]
    <2> TAKE i \in 1 .. c - a
    <2>1. (t \o u)[i] = IF i <= b - a THEN t[i] ELSE u[i - (b - a)]
        BY <1>2, <1>4
    <2>2. CASE i <= b - a
        BY <1>2, <2>1, <2>2
    <2>3. CASE ~(i <= b - a)
        <3>1. i - (b - a) \in 1 .. c - b /\ b + (i - (b - a)) = a + i
            BY <2>3
        <3> QED
            BY <1>2, <2>1, <2>3, <3>1
    <2> QED
        BY <2>2, <2>3
<1>6. Len(t \o u) = c - a
    BY <1>2, <1>4
<1>7. t \o u = Part(F, a, c)
    <2>1. a <= c
        OBVIOUS
    <2> QED
        <3>1. Agrees(t \o u, F, a, c)
            BY ONLY <1>5, <1>6 DEF Agrees
        <3> QED
            BY <1>4, <2>1, <3>1, PartIs
<1> QED
    BY <1>1, <1>7

\* The first n elements of a part, and the others.
IsCut(t, F, a, n, b) ==
    /\ SubSeq(t, 1, n) = Part(F, a, a + n)
    /\ SubSeq(t, n + 1, Len(t)) = Part(F, a + n, b)
    /\ Len(t) = b - a
\* A part cut in two.
LEMMA PartIsCut ==
    ASSUME NEW F, NEW a \in Nat, NEW b \in Nat, NEW n \in Nat, a + n <= b,
           NEW t, t = Part(F, a, b)
    PROVE  IsCut(t, F, a, n, b)
<1> DEFINE S == {F[i] : i \in a + 1 .. b}
<1>2. /\ t \in Seq(S) /\ Len(t) = b - a
      /\ \A i \in 1 .. b - a : t[i] = F[a + i]
    <2>1. Shows(t, F, a, b)
        BY PartShape
    <2> QED
        BY <2>1 DEF Shows, Elements
<1> HIDE DEF S
<1>3. \A i \in 1 .. b - a : t[i] \in S
    BY <1>2, ElementOfSeq
<1>4. PICK x : x = SubSeq(t, 1, n)
    OBVIOUS
<1>5. PICK y : y = SubSeq(t, n + 1, b - a)
    OBVIOUS
<1>6. /\ x \in Seq(S) /\ Len(x) = IF 1 <= n THEN n - 1 + 1 ELSE 0
      /\ \A i \in 1 .. n - 1 + 1 : x[i] = t[1 + i - 1]
    <2>1. \A i \in 1 .. n : t[i] \in S
        BY <1>3
    <2> QED
        BY <1>4, <2>1, SubSeqProperties
<1>7. /\ y \in Seq(S) /\ Len(y) = IF n + 1 <= b - a THEN b - a - (n + 1) + 1 ELSE 0
      /\ \A i \in 1 .. b - a - (n + 1) + 1 : y[i] = t[n + 1 + i - 1]
    <2>1. \A i \in n + 1 .. b - a : t[i] \in S
        BY <1>3
    <2> QED
        BY <1>5, <2>1, SubSeqProperties
<1>8. x = Part(F, a, a + n)
    <2>1. Len(x) = (a + n) - a
        BY <1>6
    <2>2. \A i \in 1 .. (a + n) - a : x[i] = F[a + i]
        <3> TAKE i \in 1 .. (a + n) - a
        <3>1. i \in 1 .. n - 1 + 1 /\ 1 + i - 1 = i /\ i \in 1 .. b - a
            OBVIOUS
        <3> QED
            BY <1>2, <1>6, <3>1
    <2>3. a + n \in Nat /\ a <= a + n
        OBVIOUS
    <2> QED
        <3>1. Agrees(x, F, a, a + n)
            BY ONLY <2>1, <2>2 DEF Agrees
        <3> QED
            BY <1>6, <2>3, <3>1, PartIs
<1>9. y = Part(F, a + n, b)
    <2>1. Len(y) = b - (a + n)
        BY <1>7
    <2>2. \A i \in 1 .. b - (a + n) : y[i] = F[(a + n) + i]
        <3> TAKE i \in 1 .. b - (a + n)
        <3>1. /\ i \in 1 .. b - a - (n + 1) + 1 /\ n + 1 + i - 1 = n + i /\ n + i \in 1 .. b - a
              /\ a + (n + i) = (a + n) + i
            OBVIOUS
        <3> QED
            BY <1>2, <1>7, <3>1
    <2>3. a + n \in Nat
        OBVIOUS
    <2> QED
        <3>1. Agrees(y, F, a + n, b)
            BY ONLY <2>1, <2>2 DEF Agrees
        <3> QED
            BY <1>7, <2>3, <3>1, PartIs
<1>10. SubSeq(t, 1, n) = Part(F, a, a + n) /\ SubSeq(t, n + 1, b - a) = Part(F, a + n, b)
    BY ONLY <1>4, <1>5, <1>8, <1>9
<1>11. Len(t) = b - a
    BY <1>2
<1> QED
    BY ONLY <1>10, <1>11 DEF IsCut

\* The first element of a part, and the others.
LEMMA PartBegins ==
    ASSUME NEW F, NEW a \in Nat, NEW b \in Nat, a < b
    PROVE  Head(Part(F, a, b)) = F[a + 1] /\ Tail(Part(F, a, b)) = Part(F, a + 1, b)
<1> DEFINE S == {F[i] : i \in a + 1 .. b}
<1>1. PICK t : t = Part(F, a, b)
    OBVIOUS
<1>2. /\ t \in Seq(S) /\ Len(t) = b - a /\ t # <<>>
      /\ \A i \in 1 .. b - a : t[i] = F[a + i]
    <2>1. Shows(t, F, a, b)
        BY <1>1, PartShape
    <2> QED
        BY <2>1 DEF Shows, Elements
<1> HIDE DEF S
<1>3. Tail(t) = SubSeq(t, 1 + 1, Len(t))
    BY <1>2, TailIsSubSeq
<1>4. Tail(t) = Part(F, a + 1, b)
    <2>1. 1 \in Nat /\ a + 1 <= b
        OBVIOUS
    <2>2. IsCut(t, F, a, 1, b)
        BY <1>1, <2>1, PartIsCut
    <2> QED
        BY ONLY <1>3, <2>2 DEF IsCut
<1>5. Head(t) = F[a + 1]
    BY <1>2
<1> QED
    BY <1>1, <1>4, <1>5

\* An element appended to a part.
LEMMA PartGrows ==
    ASSUME NEW F, NEW G, NEW a \in Nat, NEW b \in Nat, a <= b, NEW x,
           Same(F, G, a, b), G[b + 1] = x, NEW t, t = Part(F, a, b), NEW u, u = Append(t, x)
    PROVE  u = Part(G, a, b + 1)
<1> DEFINE S == {F[i] : i \in a + 1 .. b} \cup {x}
<1>2. /\ t \in Seq({F[i] : i \in a + 1 .. b}) /\ Len(t) = b - a
      /\ \A i \in 1 .. b - a : t[i] = F[a + i]
    <2>1. Shows(t, F, a, b)
        BY PartShape
    <2> QED
        BY <2>1 DEF Shows, Elements
<1>3. t \in Seq(S) /\ x \in S
    <2>1. {F[i] : i \in a + 1 .. b} \subseteq S /\ x \in S
        OBVIOUS
    <2> HIDE DEF S
    <2> QED
        BY <1>2, <2>1, SeqMonotonic
<1> HIDE DEF S
<1>5. /\ u \in Seq(S) /\ Len(u) = Len(t) + 1 /\ u[Len(t) + 1] = x
      /\ \A i \in 1 .. Len(t) : u[i] = t[i]
    BY <1>3, AppendProperties
<1>6. \A i \in 1 .. (b + 1) - a : u[i] = G[a + i]
    <2> TAKE i \in 1 .. (b + 1) - a
    <2>1. CASE i <= b - a
        <3>1. i \in 1 .. b - a /\ a + i \in a + 1 .. b
            BY <2>1
        <3> QED
            BY <1>2, <1>5, <3>1 DEF Same
    <2>2. CASE ~(i <= b - a)
        <3>1. i = Len(t) + 1 /\ a + i = b + 1
            BY <1>2, <2>2
        <3> QED
            BY <1>5, <3>1
    <2> QED
        BY <2>1, <2>2
<1>7. Len(u) = (b + 1) - a
    BY <1>2, <1>5
<1>8. u = Part(G, a, b + 1)
    <2>1. b + 1 \in Nat /\ a <= b + 1
        OBVIOUS
    <2> QED
        <3>1. Agrees(u, G, a, b + 1)
            BY ONLY <1>6, <1>7 DEF Agrees
        <3> QED
            BY <1>5, <2>1, <3>1, PartIs
<1> QED
    BY <1>8

-----------------------------------------------------------------------------
(* The stream to one side.                                                   *)

\* A stream v has the element T[i] at place i; a of them are parsed, and b are
\* received.  Packet i ends at the place E[i] and completes with the callback
\* C[i]; packets p + 1 to q are not yet written, E[p] elements are.  The messages
\* end at the place B[0], frame i of m ends at B[i]; u says that the last message
\* is that of the handshake.
Flow(T, E, C, p, q, B, m, u, a, b) ==
    [T |-> T, E |-> E, C |-> C, p |-> p, q |-> q, B |-> B, m |-> m, u |-> u, a |-> a, b |-> b]

\* The send_list, the wire and the receive buffer of a stream.
Packets(T, E, C) ==
    [i \in Nat |-> [rest |-> Part(T, E[i - 1], E[i]), callback |-> C[i]]]
Layout(v, buffer, way, list) ==
    /\ v.a \in Nat /\ v.b \in Nat /\ v.p \in Nat /\ v.q \in Nat
    /\ v.a <= v.b /\ v.b <= v.E[v.p] /\ v.p <= v.q
    /\ \A i \in v.p .. v.q : v.E[i] \in Nat
    /\ \A i \in v.p + 1 .. v.q : v.E[i - 1] < v.E[i]
    /\ buffer = Part(v.T, v.a, v.b)
    /\ way = Part(v.T, v.b, v.E[v.p])
    /\ list = Part(Packets(v.T, v.E, v.C), v.p, v.q)

\* The first end is at a place, and every later one behind the one before it.
LEMMA Rising ==
    ASSUME NEW E, NEW p \in Nat, NEW q \in Nat, p <= q, \A i \in p .. q : E[i] \in Nat,
           \A i \in p + 1 .. q : E[i - 1] < E[i]
    PROVE  \A i \in p .. q : /\ E[i] <= E[q] /\ E[p] <= E[i]
                             /\ i < q => E[i] < E[q]
<1> SUFFICES ASSUME NEW k \in p .. q PROVE \A i \in k .. q : E[k] <= E[i] /\ (k < i => E[k] < E[i])
    <2>1. p \in p .. q /\ \A i \in p .. q : q \in i .. q /\ i \in p .. q
        OBVIOUS
    <2> QED
        BY <2>1
<1> DEFINE S == {j \in 0 .. q - k : E[k] <= E[k + j] /\ (0 < j => E[k] < E[k + j])}
<1>1. 0 \in S
    <2>1. k + 0 = k /\ E[k] \in Nat
        OBVIOUS
    <2> QED
        BY <2>1
<1>2. ASSUME NEW j \in 1 .. q - k, j - 1 \in S PROVE j \in S
    <2>1. /\ k + j \in p + 1 .. q /\ (k + j) - 1 = k + (j - 1) /\ k + (j - 1) \in p .. q
          /\ k + j \in p .. q
        OBVIOUS
    <2>2. E[k + (j - 1)] < E[k + j] /\ E[k + j] \in Nat /\ E[k + (j - 1)] \in Nat /\ E[k] \in Nat
        BY <2>1
    <2>3. E[k] <= E[k + (j - 1)]
        BY <1>2
    <2> QED
        BY <2>2, <2>3
<1> HIDE DEF S
<1>3. \A j \in 0 .. q - k : j \in S
    <2>1. q - k \in Nat
        OBVIOUS
    <2> QED
        BY <1>1, <1>2, <2>1, UpTo
<1> TAKE i \in k .. q
<1>4. i - k \in S /\ k + (i - k) = i
    BY <1>3
<1> QED
    BY <1>4 DEF S

\* readv moves n elements from the way into the buffer.
LEMMA Received ==
    ASSUME NEW v, NEW buffer, NEW way, NEW list, Layout(v, buffer, way, list),
           NEW n \in Nat, n <= Len(way)
    PROVE  /\ Layout(Flow(v.T, v.E, v.C, v.p, v.q, v.B, v.m, v.u, v.a, v.b + n),
                     buffer \o SubSeq(way, 1, n), SubSeq(way, n + 1, Len(way)), list)
           /\ Len(way) = v.E[v.p] - v.b
<1> DEFINE e == v.E[v.p]
<1>1. /\ v.a \in Nat /\ v.b \in Nat /\ e \in Nat /\ v.a <= v.b /\ v.b <= e
      /\ buffer = Part(v.T, v.a, v.b) /\ way = Part(v.T, v.b, e)
    BY DEF Layout
<1>0. v.E[v.p] = e
    OBVIOUS
<1> HIDE DEF e
<1>2. Len(way) = e - v.b
    <2>1. Shows(way, v.T, v.b, e)
        BY <1>1, PartShape
    <2> QED
        BY <2>1 DEF Shows
<1>3. v.b + n \in Nat /\ v.b + n <= e /\ v.b <= v.b + n
    BY <1>1, <1>2
<1>4. IsCut(way, v.T, v.b, n, e)
    BY <1>1, <1>3, PartIsCut
<1>5. buffer \o SubSeq(way, 1, n) = Part(v.T, v.a, v.b + n)
    <2>1. Part(v.T, v.a, v.b) \o Part(v.T, v.b, v.b + n) = Part(v.T, v.a, v.b + n)
        BY <1>1, <1>3, PartsMeet
    <2> QED
        BY ONLY <1>1, <1>4, <2>1 DEF IsCut
<1>6. Layout(Flow(v.T, v.E, v.C, v.p, v.q, v.B, v.m, v.u, v.a, v.b + n),
             buffer \o SubSeq(way, 1, n), SubSeq(way, n + 1, Len(way)), list)
    <2> DEFINE w == Flow(v.T, v.E, v.C, v.p, v.q, v.B, v.m, v.u, v.a, v.b + n)
               now == buffer \o SubSeq(way, 1, n)
               left == SubSeq(way, n + 1, Len(way))
    <2>1. /\ w.T = v.T /\ w.E = v.E /\ w.C = v.C /\ w.p = v.p /\ w.q = v.q /\ w.a = v.a
          /\ w.b = v.b + n
        BY DEF Flow
    <2>2. left = Part(v.T, v.b + n, e)
        BY ONLY <1>4 DEF IsCut
    <2>3. now = Part(v.T, v.a, v.b + n)
        BY <1>5
    <2> HIDE DEF w, now, left
    <2>4. Layout(w, now, left, list)
        <3>1. /\ v.p \in Nat /\ v.q \in Nat /\ v.p <= v.q
              /\ \A i \in v.p .. v.q : v.E[i] \in Nat
              /\ \A i \in v.p + 1 .. v.q : v.E[i - 1] < v.E[i]
              /\ list = Part(Packets(v.T, v.E, v.C), v.p, v.q)
            BY DEF Layout
        <3>2. v.a <= v.b + n
            BY <1>1
        <3> QED
            BY ONLY <1>0, <1>1, <1>3, <2>1, <2>2, <2>3, <3>1, <3>2 DEF Layout
    <2> QED
        BY <2>4 DEF w, now, left
<1> QED
    BY <1>0, <1>2, <1>6

\* The parser takes n elements from the buffer.
LEMMA Parsed ==
    ASSUME NEW v, NEW buffer, NEW way, NEW list, Layout(v, buffer, way, list),
           NEW n \in Nat, n <= Len(buffer)
    PROVE  /\ Layout(Flow(v.T, v.E, v.C, v.p, v.q, v.B, v.m, v.u, v.a + n, v.b),
                     SubSeq(buffer, n + 1, Len(buffer)), way, list)
           /\ Len(buffer) = v.b - v.a
           /\ buffer # <<>> => /\ v.a < v.b /\ Head(buffer) = v.T[v.a + 1]
                               /\ Tail(buffer) = SubSeq(buffer, 1 + 1, Len(buffer))
<1>1. /\ v.a \in Nat /\ v.b \in Nat /\ v.a <= v.b /\ buffer = Part(v.T, v.a, v.b)
    BY DEF Layout
<1>2. Len(buffer) = v.b - v.a /\ (buffer = <<>> <=> v.a = v.b)
    <2>1. Shows(buffer, v.T, v.a, v.b)
        BY <1>1, PartShape
    <2> QED
        BY <2>1 DEF Shows
<1>3. v.a + n \in Nat /\ v.a + n <= v.b
    BY <1>1, <1>2
<1>4. IsCut(buffer, v.T, v.a, n, v.b)
    BY <1>1, <1>3, PartIsCut
<1>5. ASSUME buffer # <<>>
      PROVE  /\ v.a < v.b /\ Head(buffer) = v.T[v.a + 1]
             /\ Tail(buffer) = SubSeq(buffer, 1 + 1, Len(buffer))
    <2>1. v.a < v.b /\ 1 \in Nat /\ v.a + 1 <= v.b
        BY <1>1, <1>2, <1>5
    <2>2. Head(buffer) = v.T[v.a + 1] /\ Tail(buffer) = Part(v.T, v.a + 1, v.b)
        <3>1. /\ Head(Part(v.T, v.a, v.b)) = v.T[v.a + 1]
              /\ Tail(Part(v.T, v.a, v.b)) = Part(v.T, v.a + 1, v.b)
            BY <1>1, <2>1, PartBegins
        <3> QED
            BY ONLY <1>1, <3>1
    <2>3. IsCut(buffer, v.T, v.a, 1, v.b)
        BY <1>1, <2>1, PartIsCut
    <2>4. SubSeq(buffer, 1 + 1, Len(buffer)) = Part(v.T, v.a + 1, v.b)
        BY ONLY <2>3 DEF IsCut
    <2> QED
        BY ONLY <2>1, <2>2, <2>4
<1>6. Layout(Flow(v.T, v.E, v.C, v.p, v.q, v.B, v.m, v.u, v.a + n, v.b),
             SubSeq(buffer, n + 1, Len(buffer)), way, list)
    <2> DEFINE w == Flow(v.T, v.E, v.C, v.p, v.q, v.B, v.m, v.u, v.a + n, v.b)
               left == SubSeq(buffer, n + 1, Len(buffer))
    <2>1. /\ w.T = v.T /\ w.E = v.E /\ w.C = v.C /\ w.p = v.p /\ w.q = v.q /\ w.a = v.a + n
          /\ w.b = v.b
        BY DEF Flow
    <2>2. left = Part(v.T, v.a + n, v.b)
        BY ONLY <1>4 DEF IsCut
    <2> HIDE DEF w, left
    <2>3. Layout(w, left, way, list)
        <3>1. /\ v.p \in Nat /\ v.q \in Nat /\ v.p <= v.q /\ v.b \in Nat /\ v.b <= v.E[v.p]
              /\ \A i \in v.p .. v.q : v.E[i] \in Nat
              /\ \A i \in v.p + 1 .. v.q : v.E[i - 1] < v.E[i]
              /\ way = Part(v.T, v.b, v.E[v.p])
              /\ list = Part(Packets(v.T, v.E, v.C), v.p, v.q)
            BY DEF Layout
        <3> QED
            BY ONLY <1>3, <2>1, <2>2, <3>1 DEF Layout
    <2> QED
        BY <2>3 DEF w, left
<1> QED
    BY <1>2, <1>5, <1>6

\* The fields of a stream.
LEMMA FlowIs ==
    ASSUME NEW T, NEW E, NEW C, NEW p, NEW q, NEW B, NEW m, NEW u, NEW a, NEW b,
           NEW w, w = Flow(T, E, C, p, q, B, m, u, a, b)
    PROVE  /\ w.T = T /\ w.E = E /\ w.C = C /\ w.p = p /\ w.q = q /\ w.B = B /\ w.m = m
           /\ w.u = u /\ w.a = a /\ w.b = b
BY DEF Flow

\* What a packet of a stream holds.
IsPacket(packet, rest, callback) ==
    /\ packet = [rest |-> rest, callback |-> callback]
    /\ packet.rest = rest /\ packet.callback = callback
\* The packet between two ends.
LEMMA PacketIs ==
    ASSUME NEW T, NEW E, NEW C, NEW F, F = Packets(T, E, C), NEW i \in Nat
    PROVE  IsPacket(F[i], Part(T, E[i - 1], E[i]), C[i])
BY DEF Packets, IsPacket

\* The packet that is written next.
LEMMA NextPacket ==
    ASSUME NEW v, NEW buffer, NEW way, NEW list, Layout(v, buffer, way, list), list # <<>>,
           NEW packet, packet = Head(list)
    PROVE  /\ v.p < v.q /\ packet = list[1]
           /\ packet = [rest |-> packet.rest, callback |-> packet.callback]
           /\ packet.rest = Part(v.T, v.E[v.p], v.E[v.p + 1]) /\ packet.callback = v.C[v.p + 1]
           /\ Len(packet.rest) = v.E[v.p + 1] - v.E[v.p]
           /\ v.E[v.p] < v.E[v.p + 1]
<1> DEFINE F == Packets(v.T, v.E, v.C)
<1>1. /\ v.p \in Nat /\ v.q \in Nat /\ v.p <= v.q /\ list = Part(F, v.p, v.q)
      /\ \A i \in v.p .. v.q : v.E[i] \in Nat
      /\ \A i \in v.p + 1 .. v.q : v.E[i - 1] < v.E[i]
    BY DEF Layout
<1> HIDE DEF F
<1>2. Shows(list, F, v.p, v.q)
    BY <1>1, PartShape
<1>3. v.p < v.q /\ list[1] = F[v.p + 1] /\ Head(list) = list[1]
    <2>1. list = <<>> <=> v.p = v.q
        BY ONLY <1>2 DEF Shows
    <2>2. v.p < v.q
        BY <1>1, <2>1
    <2>3. DOMAIN list = 1 .. v.q - v.p /\ \A i \in 1 .. v.q - v.p : list[i] = F[v.p + i]
        BY ONLY <1>2 DEF Shows
    <2>4. 1 \in 1 .. v.q - v.p
        BY <1>1, <2>2
    <2> QED
        BY <2>2, <2>3, <2>4
<1>4. (v.p + 1) - 1 = v.p /\ v.p + 1 \in Nat /\ v.p + 1 \in v.p + 1 .. v.q /\ v.p \in v.p .. v.q
      /\ v.p + 1 \in v.p .. v.q
    BY <1>1, <1>3
<1>5. PICK k \in Nat : k = v.p + 1
    BY <1>4
<1>6. /\ F[k] = [rest |-> Part(v.T, v.E[k - 1], v.E[k]), callback |-> v.C[k]]
      /\ F[k].rest = Part(v.T, v.E[k - 1], v.E[k]) /\ F[k].callback = v.C[k]
    <2>1. IsPacket(F[k], Part(v.T, v.E[k - 1], v.E[k]), v.C[k])
        BY PacketIs DEF F
    <2> QED
        BY ONLY <2>1 DEF IsPacket
<1>7. packet = F[k] /\ k - 1 = v.p
    BY <1>3, <1>4, <1>5
<1>8. /\ packet.rest = Part(v.T, v.E[v.p], v.E[v.p + 1]) /\ packet.callback = v.C[v.p + 1]
      /\ packet = [rest |-> packet.rest, callback |-> packet.callback]
    BY ONLY <1>5, <1>6, <1>7
<1>9. v.E[v.p] < v.E[v.p + 1] /\ v.E[v.p] \in Nat /\ v.E[v.p + 1] \in Nat
    <2>1. v.E[(v.p + 1) - 1] < v.E[v.p + 1]
        BY ONLY <1>1, <1>4
    <2>2. v.E[v.p] \in Nat /\ v.E[v.p + 1] \in Nat
        BY ONLY <1>1, <1>4
    <2> QED
        BY ONLY <1>4, <2>1, <2>2
<1>10. Len(packet.rest) = v.E[v.p + 1] - v.E[v.p]
    <2>1. PICK x \in Nat : x = v.E[v.p]
        BY <1>9
    <2>2. PICK y \in Nat : y = v.E[v.p + 1]
        BY <1>9
    <2>3. PICK t : t = packet.rest
        OBVIOUS
    <2>4. t = Part(v.T, x, y) /\ x <= y
        BY <1>8, <1>9, <2>1, <2>2, <2>3
    <2>5. Shows(t, v.T, x, y)
        BY <2>4, PartShape
    <2> QED
        BY <2>1, <2>2, <2>3, <2>5 DEF Shows
<1> QED
    BY <1>3, <1>8, <1>9, <1>10

\* A packet is written to its end.
LEMMA WrittenAll ==
    ASSUME NEW v, NEW buffer, NEW way, NEW list, Layout(v, buffer, way, list), list # <<>>
    PROVE  Layout(Flow(v.T, v.E, v.C, v.p + 1, v.q, v.B, v.m, v.u, v.a, v.b),
                  buffer, way \o Head(list).rest, Tail(list))
<1> DEFINE packet == Head(list)
           F == Packets(v.T, v.E, v.C)
<1>1. /\ v.p \in Nat /\ v.q \in Nat /\ v.p <= v.q /\ list = Part(F, v.p, v.q)
      /\ \A i \in v.p .. v.q : v.E[i] \in Nat
      /\ \A i \in v.p + 1 .. v.q : v.E[i - 1] < v.E[i]
      /\ v.a \in Nat /\ v.b \in Nat /\ v.a <= v.b /\ v.b <= v.E[v.p]
      /\ buffer = Part(v.T, v.a, v.b) /\ way = Part(v.T, v.b, v.E[v.p])
    BY DEF Layout
<1>2. /\ v.p < v.q /\ packet.rest = Part(v.T, v.E[v.p], v.E[v.p + 1])
      /\ v.E[v.p] < v.E[v.p + 1]
    BY NextPacket
<1>3. PICK k \in Nat : k = v.p + 1
    BY <1>1
<1>4. PICK x \in Nat : x = v.E[v.p]
    <2>1. v.p \in v.p .. v.q
        BY <1>1
    <2> QED
        BY <1>1, <2>1
<1>5. PICK y \in Nat : y = v.E[k]
    <2>1. k \in v.p .. v.q
        BY <1>1, <1>2, <1>3
    <2> QED
        BY <1>1, <2>1
<1>6. way \o packet.rest = Part(v.T, v.b, y)
    <2>1. v.b \in Nat /\ v.b <= x /\ x <= y
        BY <1>1, <1>2, <1>3, <1>4, <1>5
    <2>2. Part(v.T, v.b, x) \o Part(v.T, x, y) = Part(v.T, v.b, y)
        BY <2>1, PartsMeet
    <2> QED
        BY ONLY <1>1, <1>2, <1>3, <1>4, <1>5, <2>2
<1>7. Tail(list) = Part(F, k, v.q)
    <2> HIDE DEF F
    <2>1. Tail(Part(F, v.p, v.q)) = Part(F, v.p + 1, v.q)
        BY <1>1, <1>2, PartBegins
    <2> QED
        BY ONLY <1>1, <1>3, <2>1
<1> DEFINE w == Flow(v.T, v.E, v.C, k, v.q, v.B, v.m, v.u, v.a, v.b)
           now == way \o packet.rest
           left == Tail(list)
<1>8. /\ w.T = v.T /\ w.E = v.E /\ w.C = v.C /\ w.p = k /\ w.q = v.q /\ w.a = v.a /\ w.b = v.b
    BY FlowIs
<1>9. /\ k <= v.q /\ v.b <= v.E[k]
      /\ \A i \in k .. v.q : v.E[i] \in Nat
      /\ \A i \in k + 1 .. v.q : v.E[i - 1] < v.E[i]
    <2>1. k <= v.q /\ v.b <= v.E[k]
        BY <1>1, <1>2, <1>3, <1>4, <1>5
    <2>2. (\A i \in k .. v.q : i \in v.p .. v.q) /\ (\A i \in k + 1 .. v.q : i \in v.p + 1 .. v.q)
        BY <1>1, <1>3
    <2> QED
        BY ONLY <1>1, <2>1, <2>2
<1>10. now = Part(v.T, v.b, v.E[k]) /\ left = Part(F, k, v.q)
    BY <1>5, <1>6, <1>7
<1> HIDE DEF w, now, left
<1>11. Layout(w, buffer, now, left)
    BY ONLY <1>1, <1>8, <1>9, <1>10, k \in Nat DEF Layout, F
<1> QED
    BY <1>3, <1>11 DEF w, now, left

\* The first n elements of it are.
LEMMA WrittenPart ==
    ASSUME NEW v, NEW buffer, NEW way, NEW list, Layout(v, buffer, way, list), list # <<>>,
           NEW n \in Nat, n < Len(Head(list).rest),
           NEW E, E = [i \in Nat |-> IF i = v.p THEN v.E[v.p] + n ELSE v.E[i]]
    PROVE  Layout(Flow(v.T, E, v.C, v.p, v.q, v.B, v.m, v.u, v.a, v.b),
                  buffer, way \o SubSeq(Head(list).rest, 1, n),
                  [list EXCEPT ![1].rest = SubSeq(@, n + 1, Len(@))])
<1> DEFINE packet == Head(list)
           F == Packets(v.T, v.E, v.C)
           G == Packets(v.T, E, v.C)
<1>1. /\ v.p \in Nat /\ v.q \in Nat /\ v.p <= v.q /\ list = Part(F, v.p, v.q)
      /\ \A i \in v.p .. v.q : v.E[i] \in Nat
      /\ \A i \in v.p + 1 .. v.q : v.E[i - 1] < v.E[i]
      /\ v.a \in Nat /\ v.b \in Nat /\ v.a <= v.b /\ v.b <= v.E[v.p]
      /\ buffer = Part(v.T, v.a, v.b) /\ way = Part(v.T, v.b, v.E[v.p])
    BY DEF Layout
<1>2. /\ v.p < v.q /\ packet = list[1]
      /\ packet = [rest |-> packet.rest, callback |-> packet.callback]
      /\ packet.rest = Part(v.T, v.E[v.p], v.E[v.p + 1]) /\ packet.callback = v.C[v.p + 1]
      /\ Len(packet.rest) = v.E[v.p + 1] - v.E[v.p]
      /\ v.E[v.p] < v.E[v.p + 1]
    BY NextPacket
<1>3. PICK k \in Nat : k = v.p + 1
    BY <1>1
<1>4. PICK x \in Nat : x = v.E[v.p]
    <2>1. v.p \in v.p .. v.q
        BY <1>1
    <2> QED
        BY <1>1, <2>1
<1>5. PICK y \in Nat : y = v.E[k]
    <2>1. k \in v.p .. v.q
        BY <1>1, <1>2, <1>3
    <2> QED
        BY <1>1, <2>1
<1>6. PICK z \in Nat : z = x + n
    OBVIOUS
<1>7. z < y /\ v.b <= z /\ v.b <= x /\ x <= z
    <2>1. n < y - x
        BY ONLY <1>2, <1>3, <1>4, <1>5, n < Len(packet.rest)
    <2>2. v.b \in Nat /\ v.b <= x
        BY ONLY <1>1, <1>4
    <2> QED
        BY <1>6, <2>1, <2>2
<1>8. IsCut(packet.rest, v.T, x, n, y)
    <2>1. x + n <= y
        BY <1>6, <1>7
    <2>2. PICK t : t = packet.rest
        OBVIOUS
    <2>3. t = Part(v.T, x, y)
        BY ONLY <1>2, <1>3, <1>4, <1>5, <2>2
    <2> QED
        BY <2>1, <2>2, <2>3, PartIsCut
<1>9. way \o SubSeq(packet.rest, 1, n) = Part(v.T, v.b, z)
    <2>1. v.b \in Nat
        BY <1>1
    <2>2. Part(v.T, v.b, x) \o Part(v.T, x, z) = Part(v.T, v.b, z)
        BY <1>7, <2>1, PartsMeet
    <2> QED
        BY ONLY <1>1, <1>4, <1>6, <1>8, <2>2 DEF IsCut
<1>10. E[v.p] = z /\ \A i \in Nat : i # v.p => E[i] = v.E[i]
    BY <1>1, <1>4, <1>6
<1>11. PICK first : first = [rest |-> Part(v.T, z, y), callback |-> v.C[k]]
    OBVIOUS
<1>12. G[k] = first /\ \A i \in Nat : i > k => G[i] = F[i]
    <2>1. G[k] = [rest |-> Part(v.T, E[k - 1], E[k]), callback |-> v.C[k]]
        <3>1. IsPacket(G[k], Part(v.T, E[k - 1], E[k]), v.C[k])
            BY PacketIs
        <3> QED
            BY ONLY <3>1 DEF IsPacket
    <2>2. E[k - 1] = z /\ E[k] = y
        BY <1>1, <1>3, <1>5, <1>10
    <2>3. ASSUME NEW i \in Nat, i > k PROVE G[i] = F[i]
        <3>1. G[i] = [rest |-> Part(v.T, E[i - 1], E[i]), callback |-> v.C[i]]
            <4>1. IsPacket(G[i], Part(v.T, E[i - 1], E[i]), v.C[i])
                BY PacketIs
            <4> QED
                BY ONLY <4>1 DEF IsPacket
        <3>2. F[i] = [rest |-> Part(v.T, v.E[i - 1], v.E[i]), callback |-> v.C[i]]
            <4>1. IsPacket(F[i], Part(v.T, v.E[i - 1], v.E[i]), v.C[i])
                BY PacketIs
            <4> QED
                BY ONLY <4>1 DEF IsPacket
        <3>3. i - 1 \in Nat /\ i - 1 # v.p /\ i # v.p
            BY <1>1, <1>3, <2>3
        <3>4. E[i] = v.E[i] /\ E[i - 1] = v.E[i - 1]
            BY <1>10, <3>3
        <3> QED
            BY ONLY <3>1, <3>2, <3>4
    <2> QED
        BY ONLY <1>11, <2>1, <2>2, <2>3
<1> HIDE DEF F, G
<1>13. Shows(list, F, v.p, v.q)
    BY <1>1, PartShape
<1>14. [list EXCEPT ![1].rest = SubSeq(@, n + 1, Len(@))] = [list EXCEPT ![1] = first]
    <2>1. packet \in [rest : {packet.rest}, callback : {packet.callback}]
        BY <1>2
    <2> DEFINE left == SubSeq(packet.rest, n + 1, Len(packet.rest))
    <2>2. left = Part(v.T, z, y)
        BY ONLY <1>6, <1>8 DEF IsCut
    <2>3. [packet EXCEPT !.rest = left] = first
        <3>1. PICK d : d = packet
            OBVIOUS
        <3>2. PICK l : l = left
            OBVIOUS
        <3>3. d \in [rest : {d.rest}, callback : {d.callback}] /\ d.callback = v.C[k]
            BY ONLY <1>2, <1>3, <2>1, <3>1
        <3>4. [d EXCEPT !.rest = l] \in [rest : {l}, callback : {d.callback}]
            BY <3>3
        <3>5. [d EXCEPT !.rest = l] = [rest |-> l, callback |-> d.callback]
            BY ONLY <3>4
        <3> QED
            BY ONLY <1>11, <2>2, <3>1, <3>2, <3>3, <3>5
    <2>4. [list EXCEPT ![1].rest = SubSeq(@, n + 1, Len(@))]
              = [list EXCEPT ![1] = [list[1] EXCEPT !.rest =
                                        SubSeq(list[1].rest, n + 1, Len(list[1].rest))]]
        OBVIOUS
    <2> QED
        BY ONLY <1>2, <2>3, <2>4
<1>15. [list EXCEPT ![1] = first] = Part(G, v.p, v.q)
    <2>1. PICK p \in Nat : p = v.p
        BY <1>1
    <2>2. PICK q \in Nat : q = v.q
        BY <1>1
    <2>3. PICK t : t = [list EXCEPT ![1] = first]
        OBVIOUS
    <2> DEFINE S == Elements(F, p, q) \cup {first}
    <2>4. /\ list \in Seq(Elements(F, p, q)) /\ Len(list) = q - p /\ DOMAIN list = 1 .. q - p
          /\ \A i \in 1 .. q - p : list[i] = F[p + i]
        BY <1>13, <2>1, <2>2 DEF Shows
    <2>5. Elements(F, p, q) \subseteq S /\ first \in S
        OBVIOUS
    <2> HIDE DEF S
    <2>6. list \in Seq(S) /\ 1 \in 1 .. Len(list)
        BY <1>2, <2>1, <2>2, <2>4, <2>5, SeqMonotonic
    <2>7. t \in Seq(S) /\ Len(t) = q - p
        BY <2>3, <2>4, <2>5, <2>6, ExceptSeq
    <2>8. \A i \in 1 .. q - p : t[i] = G[p + i]
        <3> TAKE i \in 1 .. q - p
        <3>1. CASE i = 1
            <4>1. t[1] = first /\ p + 1 = k
                BY <1>3, <2>1, <2>3, <2>4, <2>6
            <4> QED
                BY <1>12, <3>1, <4>1
        <3>2. CASE i # 1
            <4>1. t[i] = list[i]
                BY <2>3, <2>4, <3>2
            <4>2. p + i \in Nat /\ p + i > k
                BY <1>3, <2>1, <3>2
            <4> QED
                BY <1>12, <2>4, <4>1, <4>2
        <3> QED
            BY <3>1, <3>2
    <2>9. Agrees(t, G, p, q)
        BY ONLY <2>7, <2>8 DEF Agrees
    <2>10. p <= q
        BY <1>1, <2>1, <2>2
    <2>11. t = Part(G, p, q)
        BY <2>7, <2>9, <2>10, PartIs
    <2> QED
        BY ONLY <2>1, <2>2, <2>3, <2>11
<1> DEFINE w == Flow(v.T, E, v.C, v.p, v.q, v.B, v.m, v.u, v.a, v.b)
           now == way \o SubSeq(packet.rest, 1, n)
           left == [list EXCEPT ![1].rest = SubSeq(@, n + 1, Len(@))]
<1>16. /\ w.T = v.T /\ w.E = E /\ w.C = v.C /\ w.p = v.p /\ w.q = v.q /\ w.a = v.a /\ w.b = v.b
    BY FlowIs
<1>17. /\ v.b <= E[v.p]
       /\ \A i \in v.p .. v.q : E[i] \in Nat
       /\ \A i \in v.p + 1 .. v.q : E[i - 1] < E[i]
    <2>1. v.b <= E[v.p]
        BY <1>7, <1>10
    <2>2. \A i \in v.p .. v.q : E[i] \in Nat
        BY <1>1, <1>10
    <2>3. ASSUME NEW i \in v.p + 1 .. v.q PROVE E[i - 1] < E[i]
        <3>1. i \in Nat /\ i - 1 \in Nat /\ i # v.p /\ (i # k => i - 1 # v.p) /\ (i = k => i - 1 = v.p)
            BY <1>1, <1>3
        <3>2. CASE i = k
            <4>1. E[i - 1] = z /\ E[i] = y
                BY <1>5, <1>10, <3>1, <3>2
            <4> QED
                BY <1>7, <4>1
        <3>3. CASE i # k
            <4>1. E[i - 1] = v.E[i - 1] /\ E[i] = v.E[i]
                BY <1>10, <3>1, <3>3
            <4>2. v.E[i - 1] < v.E[i]
                BY <1>1
            <4> QED
                BY ONLY <4>1, <4>2
        <3> QED
            BY <3>2, <3>3
    <2> QED
        BY <2>1, <2>2, <2>3
<1>18. now = Part(v.T, v.b, E[v.p]) /\ left = Part(G, v.p, v.q)
    BY <1>9, <1>10, <1>14, <1>15
<1> HIDE DEF w, now, left
<1>19. Layout(w, buffer, now, left)
    BY ONLY <1>1, <1>16, <1>17, <1>18 DEF Layout, G
<1> QED
    BY <1>19 DEF w, now, left

\* A packet is sent: its elements follow all that was sent before.
Longer(T, end, es) == [i \in Nat |-> IF i <= end THEN T[i] ELSE es[i - end]]
More(F, q, x) == [i \in Nat |-> IF i <= q THEN F[i] ELSE x]

\* What Longer and More put behind a stream.
IsLonger(L, T, end, es) ==
    /\ \A i \in 0 .. end : L[i] = T[i]
    /\ \A i \in 1 .. Len(es) : L[end + i] = es[i]
    /\ es = Part(L, end, end + Len(es))
\* Elements put behind the end.
LEMMA LongerIs ==
    ASSUME NEW T, NEW end \in Nat, NEW S, NEW es \in Seq(S), NEW L, L = Longer(T, end, es)
    PROVE  IsLonger(L, T, end, es)
<1>1. \A i \in 0 .. end : L[i] = T[i]
    BY DEF Longer
<1>2. Len(es) \in Nat
    OBVIOUS
<1>3. \A i \in 1 .. Len(es) : L[end + i] = es[i]
    <2> TAKE i \in 1 .. Len(es)
    <2>1. end + i \in Nat /\ ~(end + i <= end) /\ (end + i) - end = i
        BY <1>2
    <2> QED
        BY <2>1 DEF Longer
<1>4. es = Part(L, end, end + Len(es))
    <2>1. PICK c \in Nat : c = end + Len(es)
        BY <1>2
    <2>2. Len(es) = c - end /\ end <= c
        BY <1>2, <2>1
    <2>3. Agrees(es, L, end, c)
        BY <1>3, <2>2 DEF Agrees
    <2> QED
        BY <2>1, <2>2, <2>3, PartIs
<1> QED
    BY ONLY <1>1, <1>3, <1>4 DEF IsLonger

IsMore(G, F, q, x) == G[q + 1] = x /\ \A i \in 0 .. q : G[i] = F[i]
\* A value put behind place q.
LEMMA MoreIs ==
    ASSUME NEW F, NEW q \in Nat, NEW x, NEW G, G = More(F, q, x)
    PROVE  IsMore(G, F, q, x)
BY DEF More, IsMore

\* A packet is appended to the list: the stream becomes longer by it.
LEMMA PacketSent ==
    ASSUME NEW v, NEW buffer, NEW way, NEW list, Layout(v, buffer, way, list),
           NEW S, NEW es \in Seq(S), Len(es) > 0, NEW callback,
           NEW T, T = Longer(v.T, v.E[v.q], es),
           NEW E, E = More(v.E, v.q, v.E[v.q] + Len(es)),
           NEW C, C = More(v.C, v.q, callback), NEW B, NEW m, NEW u
    PROVE  Layout(Flow(T, E, C, v.p, v.q + 1, B, m, u, v.a, v.b), buffer, way,
                  Append(list, [rest |-> es, callback |-> callback]))
<1> DEFINE F == Packets(v.T, v.E, v.C)
           G == Packets(T, E, C)
           packet == [rest |-> es, callback |-> callback]
<1>1. /\ v.p \in Nat /\ v.q \in Nat /\ v.p <= v.q /\ list = Part(F, v.p, v.q)
      /\ \A i \in v.p .. v.q : v.E[i] \in Nat
      /\ \A i \in v.p + 1 .. v.q : v.E[i - 1] < v.E[i]
      /\ v.a \in Nat /\ v.b \in Nat /\ v.a <= v.b /\ v.b <= v.E[v.p]
      /\ buffer = Part(v.T, v.a, v.b) /\ way = Part(v.T, v.b, v.E[v.p])
    BY DEF Layout
<1>2. PICK p \in Nat : p = v.p
    BY <1>1
<1>3. PICK q \in Nat : q = v.q
    BY <1>1
<1>4. PICK end \in Nat : end = v.E[q]
    <2>1. v.q \in v.p .. v.q
        BY <1>1
    <2> QED
        BY <1>1, <1>3, <2>1
<1>5. PICK x \in Nat : x = v.E[p]
    <2>1. v.p \in v.p .. v.q
        BY <1>1
    <2> QED
        BY <1>1, <1>2, <2>1
<1>6. p <= q /\ x <= end /\ \A i \in p .. q : v.E[i] \in Nat /\ v.E[i] <= end
    <2>1. PICK D : D = v.E
        OBVIOUS
    <2>2. p <= q /\ (\A i \in p .. q : D[i] \in Nat) /\ (\A i \in p + 1 .. q : D[i - 1] < D[i])
        BY ONLY <1>1, <1>2, <1>3, <2>1
    <2>3. \A i \in p .. q : D[i] <= D[q] /\ D[p] <= D[i] /\ (i < q => D[i] < D[q])
        BY <2>2, Rising
    <2>4. p \in p .. q
        BY <2>2
    <2> QED
        BY ONLY <1>4, <1>5, <2>1, <2>2, <2>3, <2>4
<1>7. /\ \A i \in 0 .. end : T[i] = v.T[i]
      /\ es = Part(T, end, end + Len(es)) /\ Len(es) \in Nat
    <2>1. T = Longer(v.T, end, es)
        BY ONLY <1>3, <1>4, T = Longer(v.T, v.E[v.q], es)
    <2>2. IsLonger(T, v.T, end, es)
        BY <2>1, LongerIs
    <2>3. Len(es) \in Nat
        OBVIOUS
    <2> QED
        BY ONLY <2>2, <2>3 DEF IsLonger
<1>8. E[q + 1] = end + Len(es) /\ \A i \in 0 .. q : E[i] = v.E[i]
    <2>1. E = More(v.E, q, end + Len(es))
        BY ONLY <1>3, <1>4, E = More(v.E, v.q, v.E[v.q] + Len(es))
    <2>2. IsMore(E, v.E, q, end + Len(es))
        BY <2>1, MoreIs
    <2> QED
        BY ONLY <2>2 DEF IsMore
<1>9. C[q + 1] = callback /\ \A i \in 0 .. q : C[i] = v.C[i]
    <2>1. C = More(v.C, q, callback)
        BY ONLY <1>3, C = More(v.C, v.q, callback)
    <2>2. IsMore(C, v.C, q, callback)
        BY <2>1, MoreIs
    <2> QED
        BY ONLY <2>2 DEF IsMore
<1>10. ASSUME NEW i \in p + 1 .. q PROVE F[i] = G[i]
    <2>1. i \in Nat /\ i - 1 \in p .. q /\ i \in p .. q /\ i \in 0 .. q /\ i - 1 \in 0 .. q
        OBVIOUS
    <2>2. /\ F[i] = [rest |-> Part(v.T, v.E[i - 1], v.E[i]), callback |-> v.C[i]]
        <3>1. IsPacket(F[i], Part(v.T, v.E[i - 1], v.E[i]), v.C[i])
            BY <2>1, PacketIs
        <3> QED
            BY ONLY <3>1 DEF IsPacket
    <2>3. /\ G[i] = [rest |-> Part(T, E[i - 1], E[i]), callback |-> C[i]]
        <3>1. IsPacket(G[i], Part(T, E[i - 1], E[i]), C[i])
            BY <2>1, PacketIs
        <3> QED
            BY ONLY <3>1 DEF IsPacket
    <2>4. PICK y \in Nat : y = v.E[i - 1]
        BY <1>6, <2>1
    <2>5. PICK z \in Nat : z = v.E[i]
        BY <1>6, <2>1
    <2>6. E[i - 1] = y /\ E[i] = z /\ C[i] = v.C[i]
        BY <1>8, <1>9, <2>1, <2>4, <2>5
    <2>7. y <= z /\ z <= end
        <3>1. v.E[i - 1] < v.E[i]
            BY <1>1, <1>2, <1>3
        <3> QED
            BY <1>6, <2>1, <2>4, <2>5, <3>1
    <2>8. Part(v.T, y, z) = Part(T, y, z)
        <3>1. \A j \in y + 1 .. z : v.T[j] = T[j]
            BY <1>7, <2>7
        <3>2. PICK U : U = v.T
            OBVIOUS
        <3>3. \A j \in y + 1 .. z : U[j] = T[j]
            BY ONLY <3>1, <3>2
        <3>4. Same(U, T, y, z)
            BY ONLY <3>3 DEF Same
        <3>5. Part(U, y, z) = Part(T, y, z)
            BY <2>7, <3>4, PartsAgree
        <3> QED
            BY ONLY <3>2, <3>5
    <2> QED
        BY ONLY <2>2, <2>3, <2>4, <2>5, <2>6, <2>8
<1>11. G[q + 1] = packet
    <2>1. q + 1 \in Nat /\ (q + 1) - 1 = q /\ q \in 0 .. q
        OBVIOUS
    <2>2. G[q + 1] = [rest |-> Part(T, E[(q + 1) - 1], E[q + 1]), callback |-> C[q + 1]]
        <3>1. IsPacket(G[q + 1], Part(T, E[(q + 1) - 1], E[q + 1]), C[q + 1])
            BY <2>1, PacketIs
        <3> QED
            BY ONLY <3>1 DEF IsPacket
    <2>3. E[(q + 1) - 1] = end
        BY ONLY <1>4, <1>8, <2>1
    <2> QED
        BY ONLY <1>7, <1>8, <1>9, <2>2, <2>3
<1>12. Append(list, packet) = Part(G, p, q + 1)
    <2> HIDE DEF F, G, packet
    <2>1. Append(Part(F, p, q), packet) = Part(G, p, q + 1)
        <3>1. Same(F, G, p, q)
            BY ONLY <1>10 DEF Same
        <3>2. PICK t : t = Part(F, p, q)
            OBVIOUS
        <3>3. PICK r : r = Append(t, packet)
            OBVIOUS
        <3>4. r = Part(G, p, q + 1)
            BY <1>6, <1>11, <3>1, <3>2, <3>3, PartGrows
        <3> QED
            BY ONLY <3>2, <3>3, <3>4
    <2> QED
        BY ONLY <1>1, <1>2, <1>3, <2>1
<1>13. buffer = Part(T, v.a, v.b) /\ way = Part(T, v.b, E[p])
    <2>1. PICK a \in Nat : a = v.a
        BY <1>1
    <2>2. PICK b \in Nat : b = v.b
        BY <1>1
    <2>3. PICK U : U = v.T
        OBVIOUS
    <2>4. a <= b /\ b <= x /\ x <= end /\ E[p] = x
        <3>1. p \in 0 .. q
            BY <1>6
        <3> QED
            BY <1>1, <1>2, <1>5, <1>6, <1>8, <2>1, <2>2, <3>1
    <2>5. (\A j \in a + 1 .. b : U[j] = T[j]) /\ (\A j \in b + 1 .. x : U[j] = T[j])
        BY <1>7, <2>3, <2>4
    <2>6. Part(U, a, b) = Part(T, a, b) /\ Part(U, b, x) = Part(T, b, x)
        <3>1. Same(U, T, a, b) /\ Same(U, T, b, x)
            BY ONLY <2>5 DEF Same
        <3> QED
            BY <2>4, <3>1, PartsAgree
    <2> QED
        BY ONLY <1>1, <1>2, <1>5, <2>1, <2>2, <2>3, <2>4, <2>6
<1> DEFINE w == Flow(T, E, C, v.p, v.q + 1, B, m, u, v.a, v.b)
           all == Append(list, packet)
<1>14. /\ w.T = T /\ w.E = E /\ w.C = C /\ w.p = v.p /\ w.q = v.q + 1 /\ w.a = v.a /\ w.b = v.b
    BY FlowIs
<1>15. /\ p <= q + 1 /\ v.b <= E[p]
       /\ \A i \in p .. q + 1 : E[i] \in Nat
       /\ \A i \in p + 1 .. q + 1 : E[i - 1] < E[i]
    <2>1. p \in 0 .. q /\ q \in 0 .. q /\ (q + 1) - 1 = q
        BY <1>6
    <2>2. v.b <= E[p]
        BY <1>1, <1>2, <1>8, <2>1
    <2>3. ASSUME NEW i \in p .. q + 1 PROVE E[i] \in Nat
        <3>1. CASE i = q + 1
            BY <1>7, <1>8, <3>1
        <3>2. CASE i # q + 1
            <4>1. i \in p .. q /\ i \in 0 .. q
                BY <3>2
            <4> QED
                BY <1>6, <1>8, <4>1
        <3> QED
            BY <3>1, <3>2
    <2>4. ASSUME NEW i \in p + 1 .. q + 1 PROVE E[i - 1] < E[i]
        <3>1. CASE i = q + 1
            <4>1. E[i] = end + Len(es) /\ E[i - 1] = end
                BY <1>4, <1>8, <2>1, <3>1
            <4> QED
                BY <1>7, <4>1
        <3>2. CASE i # q + 1
            <4>1. i \in p + 1 .. q /\ i \in 0 .. q /\ i - 1 \in 0 .. q
                BY <3>2
            <4>2. v.E[i - 1] < v.E[i]
                BY ONLY <1>1, <1>2, <1>3, <4>1
            <4>3. E[i] = v.E[i] /\ E[i - 1] = v.E[i - 1]
                BY <1>8, <4>1
            <4> QED
                BY ONLY <4>2, <4>3
        <3> QED
            BY <3>1, <3>2
    <2>5. p <= q + 1
        BY <1>6
    <2> QED
        BY <2>2, <2>3, <2>4, <2>5
<1> HIDE DEF w, all
<1>16. Layout(w, buffer, way, all)
    <2>0. q + 1 \in Nat
        BY ONLY <1>6
    <2>1. all = Part(G, p, q + 1)
        BY ONLY <1>12 DEF all
    <2> QED
        BY ONLY <1>1, <1>2, <1>3, <1>13, <1>14, <1>15, <2>1, <2>0 DEF Layout, G
<1> QED
    BY <1>16 DEF w, all

\* The messages come in two halves; only the last one, of the handshake, may
\* switch protocols, and a server is never told to.
Switches == {"upgrade", "switch"}
MessagePart(e, i, s, last) ==
    /\ e.half = IF i % 2 = 1 THEN 1 ELSE 2
    /\ e.value \in Switches <=> last
    /\ s = "server" => e.value # "switch"
Messages(v, s) ==
    /\ v.B[0] \in Nat /\ v.B[0] % 2 = 0 /\ v.u \in BOOLEAN /\ (v.u => v.B[0] >= 2)
    /\ \A i \in 1 .. v.B[0] : MessagePart(v.T[i], i, s, v.u /\ i > v.B[0] - 2)

\* The text of frame f, with some key, is at the places a + 1 to b.
TextAt(T, a, b, f) ==
    \E key \in Key : /\ b = a + Len(FrameString(f, key))
                     /\ \A j \in 1 .. b - a : T[a + j] = Byte(FrameString(f, key)[j])
Texts(v, frames) ==
    /\ v.m \in 0 .. Len(frames) /\ (v.m > 0 => v.u)
    /\ \A i \in 0 .. v.m : v.B[i] \in Nat
    /\ \A i \in 1 .. v.m : v.B[i - 1] < v.B[i] /\ TextAt(v.T, v.B[i - 1], v.B[i], frames[i])
    /\ \A i \in v.B[0] + 1 .. v.B[v.m] : v.T[i].value \in Nat

\* No packet holds both a message and a frame, and the handshake is over when
\* its answer is written.
Ends(v, s) ==
    /\ v.E[v.q] = v.B[v.m]
    /\ \A i \in v.p + 1 .. v.q :
          /\ v.E[i - 1] >= v.B[0] \/ v.E[i] <= v.B[0]
          /\ v.C[i] = "ack" <=> s = "client" /\ v.u /\ v.E[i] = v.B[0]

\* k frames are read, but not yet all the zeros behind them, which are read two
\* by two.
Zeroes(T, a, b) == \A i \in a + 1 .. b : T[i] = Byte(0)
Behind(frames, k) == IF k = 0 THEN 0 ELSE Zeros(frames[k])
Reads(v, frames, w, g, k) ==
    /\ v.a <= v.B[k] /\ Zeroes(v.T, v.a, v.B[k])
    /\ (v.B[k] - v.a) % 2 = Behind(frames, k) % 2
    /\ g = Joined(frames)[k].done
    /\ w.frame.payload = Joined(frames)[k].payload /\ w.frame.opcode = Joined(frames)[k].opcode
    /\ w.key \/ w.accept => k = 0
\* One that is switched reads frames; one that is not reads messages, and has
\* neither a frame nor a message under way.
ReadsFrames(v, frames, w, g) ==
    v.u /\ v.a >= v.B[0] /\ \E k \in 0 .. v.m : Reads(v, frames, w, g, k)
ReadsMessages(v, w, g) ==
    /\ v.a <= v.B[0] /\ (v.u => v.a < v.B[0]) /\ g = <<>>
    /\ w.frame.payload = <<>> /\ w.frame.opcode = op_unknow /\ ~w.key /\ ~w.accept
Reader(v, frames, up, w, g) ==
    IF up THEN ReadsFrames(v, frames, w, g) ELSE ReadsMessages(v, w, g)

\* What is in a stream, and the stream as a whole.
Content(v, s, frames, up, w, g) ==
    Messages(v, s) /\ Texts(v, frames) /\ Ends(v, s) /\ Reader(v, frames, up, w, g)
Stream(v, s, frames, buffer, way, list, up, w, g) ==
    Layout(v, buffer, way, list) /\ Content(v, s, frames, up, w, g)

-----------------------------------------------------------------------------
(* Reads, writes and sends move the stream.                                  *)

\* The ends of the packets not yet written lie behind what is written.
LEMMA EndsRise ==
    ASSUME NEW v, NEW buffer, NEW way, NEW list, Layout(v, buffer, way, list)
    PROVE  /\ v.E[v.p] <= v.E[v.q] /\ v.E[v.p] \in Nat /\ v.E[v.q] \in Nat
           /\ \A i \in v.p .. v.q : v.E[i] \in Nat /\ v.E[i] <= v.E[v.q] /\ v.E[v.p] <= v.E[i]
<1>1. PICK E : E = v.E
    OBVIOUS
<1>2. PICK p \in Nat : p = v.p
    BY DEF Layout
<1>3. PICK q \in Nat : q = v.q
    BY DEF Layout
<1>4. /\ p <= q /\ (\A i \in p .. q : E[i] \in Nat) /\ \A i \in p + 1 .. q : E[i - 1] < E[i]
    BY ONLY <1>1, <1>2, <1>3, Layout(v, buffer, way, list) DEF Layout
<1>5. \A i \in p .. q : E[i] <= E[q] /\ E[p] <= E[i] /\ (i < q => E[i] < E[q])
    BY <1>4, Rising
<1>6. p \in p .. q /\ q \in p .. q
    BY <1>4
<1>7. E[p] <= E[q] /\ E[p] \in Nat /\ E[q] \in Nat
    BY <1>4, <1>5, <1>6
<1> QED
    BY ONLY <1>1, <1>2, <1>3, <1>4, <1>5, <1>7

\* The frames lie one behind the other.
LEMMA TextsRise ==
    ASSUME NEW v, NEW frames \in Seq(Frame), Texts(v, frames)
    PROVE  /\ v.m \in Nat /\ v.m <= Len(frames) /\ v.B[0] \in Nat /\ v.B[v.m] \in Nat
           /\ \A i \in 0 .. v.m : /\ v.B[i] \in Nat /\ v.B[i] <= v.B[v.m] /\ v.B[0] <= v.B[i]
                                  /\ i < v.m => v.B[i] < v.B[v.m]
<1>1. PICK B : B = v.B
    OBVIOUS
<1>2. PICK m \in Nat : m = v.m
    BY DEF Texts
<1>3. m <= Len(frames) /\ (\A i \in 0 .. m : B[i] \in Nat) /\ \A i \in 0 + 1 .. m : B[i - 1] < B[i]
    <2>1. /\ m \in 0 .. Len(frames) /\ (\A i \in 0 .. m : B[i] \in Nat)
          /\ \A i \in 1 .. m : B[i - 1] < B[i]
        BY ONLY <1>1, <1>2, Texts(v, frames) DEF Texts
    <2> QED
        BY <2>1
<1>4. \A i \in 0 .. m : B[i] <= B[m] /\ B[0] <= B[i] /\ (i < m => B[i] < B[m])
    <2>1. 0 \in Nat /\ 0 <= m
        OBVIOUS
    <2> QED
        BY <1>3, <2>1, Rising
<1>5. B[0] \in Nat /\ B[m] \in Nat
    BY <1>3
<1> QED
    BY ONLY <1>1, <1>2, <1>3, <1>4, <1>5

\* The reader depends on the elements and on how many are parsed.
LEMMA SameReader ==
    ASSUME NEW v, NEW z, NEW frames, NEW up, NEW w, NEW g,
           z.T = v.T, z.B = v.B, z.m = v.m, z.u = v.u, z.a = v.a,
           Reader(v, frames, up, w, g)
    PROVE  Reader(z, frames, up, w, g)
BY DEF Reader, ReadsFrames, ReadsMessages, Reads

\* What is in a stream does not depend on how much of it is parsed.
LEMMA SameContent ==
    ASSUME NEW v, NEW z, NEW s, NEW frames,
           z.T = v.T, z.E = v.E, z.C = v.C, z.p = v.p, z.q = v.q, z.B = v.B, z.m = v.m, z.u = v.u,
           Messages(v, s), Texts(v, frames), Ends(v, s)
    PROVE  Messages(z, s) /\ Texts(z, frames) /\ Ends(z, s)
<1>1. Messages(z, s)
    BY DEF Messages
<1>2. Texts(z, frames)
    BY DEF Texts
<1>3. Ends(z, s)
    BY DEF Ends
<1> QED
    BY <1>1, <1>2, <1>3

\* n elements are received or parsed; a packet is written, in whole or in part.
Took(v, n) == Flow(v.T, v.E, v.C, v.p, v.q, v.B, v.m, v.u, v.a, v.b + n)
Read(v, n) == Flow(v.T, v.E, v.C, v.p, v.q, v.B, v.m, v.u, v.a + n, v.b)
WroteAll(v) == Flow(v.T, v.E, v.C, v.p + 1, v.q, v.B, v.m, v.u, v.a, v.b)
Shorter(v, n) == [i \in Nat |-> IF i = v.p THEN v.E[v.p] + n ELSE v.E[i]]
WrotePart(v, n) == Flow(v.T, Shorter(v, n), v.C, v.p, v.q, v.B, v.m, v.u, v.a, v.b)

\* readv on a stream.
LEMMA StreamReceived ==
    ASSUME NEW v, NEW s, NEW frames, NEW buffer, NEW way, NEW list, NEW up, NEW w, NEW g,
           Stream(v, s, frames, buffer, way, list, up, w, g), NEW n \in Nat, n <= Len(way)
    PROVE  Stream(Took(v, n), s, frames, buffer \o SubSeq(way, 1, n),
                  SubSeq(way, n + 1, Len(way)), list, up, w, g)
<1>0. Layout(v, buffer, way, list) /\ Content(v, s, frames, up, w, g)
    BY DEF Stream
<1>1. Layout(Took(v, n), buffer \o SubSeq(way, 1, n), SubSeq(way, n + 1, Len(way)), list)
    BY <1>0, Received DEF Took
<1>2. PICK z : z = Took(v, n)
    OBVIOUS
<1>3. /\ z.T = v.T /\ z.E = v.E /\ z.C = v.C /\ z.p = v.p /\ z.q = v.q /\ z.B = v.B
      /\ z.m = v.m /\ z.u = v.u /\ z.a = v.a
    BY <1>2, FlowIs DEF Took
<1>4. Messages(v, s) /\ Texts(v, frames) /\ Ends(v, s) /\ Reader(v, frames, up, w, g)
    BY <1>0 DEF Content
<1>5. Reader(z, frames, up, w, g)
    BY <1>3, <1>4, SameReader
<1>6. Messages(z, s) /\ Texts(z, frames) /\ Ends(z, s)
    BY <1>3, <1>4, SameContent
<1> QED
    BY ONLY <1>1, <1>2, <1>5, <1>6 DEF Stream, Content

\* The elements that are parsed are of no matter to the rest.
LEMMA StreamParsed ==
    ASSUME NEW v, NEW s, NEW frames, NEW buffer, NEW way, NEW list, NEW up, NEW w, NEW g,
           Stream(v, s, frames, buffer, way, list, up, w, g), NEW n \in Nat, n <= Len(buffer),
           NEW up2, NEW w2, NEW g2, Reader(Read(v, n), frames, up2, w2, g2)
    PROVE  Stream(Read(v, n), s, frames, SubSeq(buffer, n + 1, Len(buffer)), way, list,
                  up2, w2, g2)
<1>0. Layout(v, buffer, way, list) /\ Content(v, s, frames, up, w, g)
    BY DEF Stream
<1>1. Layout(Read(v, n), SubSeq(buffer, n + 1, Len(buffer)), way, list)
    BY <1>0, Parsed DEF Read
<1>2. PICK z : z = Read(v, n)
    OBVIOUS
<1>3. /\ z.T = v.T /\ z.E = v.E /\ z.C = v.C /\ z.p = v.p /\ z.q = v.q /\ z.B = v.B
      /\ z.m = v.m /\ z.u = v.u
    BY <1>2, FlowIs DEF Read
<1>4. Messages(v, s) /\ Texts(v, frames) /\ Ends(v, s)
    BY <1>0 DEF Content
<1>6. Messages(z, s) /\ Texts(z, frames) /\ Ends(z, s)
    BY <1>3, <1>4, SameContent
<1> QED
    BY ONLY <1>1, <1>2, <1>6, Reader(Read(v, n), frames, up2, w2, g2) DEF Stream, Content

\* What is read changes without an element being parsed.
LEMMA StreamRead ==
    ASSUME NEW v, NEW s, NEW frames, NEW buffer, NEW way, NEW list, NEW up, NEW w, NEW g,
           Stream(v, s, frames, buffer, way, list, up, w, g),
           NEW up2, NEW w2, NEW g2, Reader(v, frames, up2, w2, g2)
    PROVE  Stream(v, s, frames, buffer, way, list, up2, w2, g2)
BY DEF Stream, Content

\* What one knows of a place among the messages.
IsPlace(v, s, e, buffer) ==
    /\ v.a \in Nat /\ v.B[0] \in Nat /\ v.a < v.B[0] /\ v.B[0] % 2 = 0 /\ v.u \in BOOLEAN
    /\ e = v.T[v.a + 1]
    /\ e.half = (IF (v.a + 1) % 2 = 1 THEN 1 ELSE 2)
    /\ e.value \in Switches <=> v.u /\ v.a + 1 > v.B[0] - 2
    /\ s = "server" => e.value # "switch"
    /\ Tail(buffer) = SubSeq(buffer, 1 + 1, Len(buffer)) /\ 1 <= Len(buffer)
\* The element that http_parser_execute takes next is at such a place.
LEMMA PlaceIsRead ==
    ASSUME NEW v, NEW s, NEW frames, NEW buffer, NEW way, NEW list, NEW w, NEW g,
           Stream(v, s, frames, buffer, way, list, FALSE, w, g), buffer # <<>>,
           NEW e, e = Head(buffer)
    PROVE  IsPlace(v, s, e, buffer)
<1>0. /\ Layout(v, buffer, way, list) /\ Messages(v, s) /\ Texts(v, frames) /\ Ends(v, s)
      /\ ReadsMessages(v, w, g)
    BY DEF Stream, Content, Reader
<1>1. /\ v.a < v.b /\ e = v.T[v.a + 1] /\ Tail(buffer) = SubSeq(buffer, 1 + 1, Len(buffer))
      /\ Len(buffer) = v.b - v.a
    <2>1. 0 \in Nat /\ 0 <= Len(buffer)
        <3>1. v.a \in Nat /\ v.b \in Nat /\ v.a <= v.b /\ buffer = Part(v.T, v.a, v.b)
            BY <1>0 DEF Layout
        <3>2. Shows(buffer, v.T, v.a, v.b)
            BY <3>1, PartShape
        <3> QED
            BY <3>1, <3>2 DEF Shows
    <2> QED
        BY <1>0, <2>1, Parsed
<1>2. /\ v.a \in Nat /\ v.b \in Nat /\ v.p \in Nat /\ v.q \in Nat /\ v.b <= v.E[v.p] /\ v.p <= v.q
      /\ \A i \in v.p .. v.q : v.E[i] \in Nat
      /\ \A i \in v.p + 1 .. v.q : v.E[i - 1] < v.E[i]
    BY <1>0 DEF Layout
<1>3. v.B[0] \in Nat /\ v.u \in BOOLEAN /\ v.a <= v.B[0] /\ (v.u => v.a < v.B[0])
      /\ v.B[0] % 2 = 0
    BY <1>0 DEF ReadsMessages, Messages
<1>4. v.a < v.B[0]
    <2>1. CASE v.u
        BY <1>3, <2>1
    <2>2. CASE ~v.u
        <3>1. v.m = 0
            BY <1>0, <2>2 DEF Texts
        <3>2. v.E[v.q] = v.B[0]
            BY <1>0, <3>1 DEF Ends
        <3>3. v.E[v.p] <= v.E[v.q] /\ v.E[v.p] \in Nat
            BY <1>0, EndsRise
        <3> QED
            BY ONLY <1>1, <1>2, <1>3, <3>2, <3>3, SMTT(30)
    <2> QED
        BY <1>3, <2>1, <2>2
<1>5. MessagePart(v.T[v.a + 1], v.a + 1, s, v.u /\ v.a + 1 > v.B[0] - 2)
    <2>1. v.a + 1 \in 1 .. v.B[0]
        BY <1>2, <1>3, <1>4
    <2> QED
        BY <1>0, <2>1 DEF Messages
<1>6. 1 <= Len(buffer)
    BY <1>1, <1>2
<1> QED
    BY ONLY <1>1, <1>2, <1>3, <1>4, <1>5, <1>6 DEF MessagePart, IsPlace

\* The answer to the handshake, and only it, ends in a callback that finds all
\* messages written.
Past(v) == v.E[v.p] >= v.B[0]

\* writev takes the first packet to its end; the answer to the handshake is
\* then past.
LEMMA StreamWrittenAll ==
    ASSUME NEW v, NEW s, NEW frames, NEW buffer, NEW way, NEW list, NEW up, NEW w, NEW g,
           Stream(v, s, frames, buffer, way, list, up, w, g), list # <<>>
    PROVE  /\ Stream(WroteAll(v), s, frames, buffer, way \o Head(list).rest, Tail(list), up, w, g)
           /\ Head(list).callback = "ack"
                 => s = "client" /\ v.u /\ ~Past(v) /\ Past(WroteAll(v))
           /\ s = "client" /\ v.u /\ Head(list).callback # "ack" => (Past(WroteAll(v)) <=> Past(v))
<1>0. /\ Layout(v, buffer, way, list) /\ Messages(v, s) /\ Texts(v, frames) /\ Ends(v, s)
      /\ Reader(v, frames, up, w, g)
    BY DEF Stream, Content
<1>1. Layout(WroteAll(v), buffer, way \o Head(list).rest, Tail(list))
    BY <1>0, WrittenAll DEF WroteAll
<1>2. PICK z : z = WroteAll(v)
    OBVIOUS
<1>3. /\ z.T = v.T /\ z.E = v.E /\ z.C = v.C /\ z.p = v.p + 1 /\ z.q = v.q /\ z.B = v.B
      /\ z.m = v.m /\ z.u = v.u /\ z.a = v.a
    BY <1>2, FlowIs DEF WroteAll
<1>4. Messages(z, s) /\ Texts(z, frames)
    BY <1>0, <1>3 DEF Messages, Texts
<1>5. Reader(z, frames, up, w, g)
    BY <1>0, <1>3, SameReader
<1>6. /\ v.p \in Nat /\ v.q \in Nat /\ v.p < v.q /\ Head(list).callback = v.C[v.p + 1]
      /\ v.E[v.p] < v.E[v.p + 1] /\ v.E[v.p] \in Nat /\ v.E[v.p + 1] \in Nat
    <2>1. /\ v.p < v.q /\ Head(list).callback = v.C[v.p + 1] /\ v.E[v.p] < v.E[v.p + 1]
        BY <1>0, NextPacket
    <2>2. v.p \in Nat /\ v.q \in Nat
        BY <1>0 DEF Layout
    <2>3. v.p + 1 \in v.p .. v.q /\ v.p \in v.p .. v.q
        BY <2>1, <2>2
    <2> QED
        BY <1>0, <2>1, <2>2, <2>3, EndsRise
<1>7. Ends(z, s)
    <2>1. z.E[z.q] = z.B[z.m]
        BY <1>0, <1>3 DEF Ends
    <2>2. \A i \in z.p + 1 .. z.q : i \in v.p + 1 .. v.q
        BY <1>3, <1>6
    <2> QED
        BY <1>0, <1>3, <2>1, <2>2 DEF Ends
<1>8. /\ v.E[v.p] >= v.B[0] \/ v.E[v.p + 1] <= v.B[0]
      /\ v.C[v.p + 1] = "ack" <=> s = "client" /\ v.u /\ v.E[v.p + 1] = v.B[0]
    <2>1. v.p + 1 \in v.p + 1 .. v.q /\ (v.p + 1) - 1 = v.p
        BY <1>6
    <2>2. /\ v.E[(v.p + 1) - 1] >= v.B[0] \/ v.E[v.p + 1] <= v.B[0]
          /\ v.C[v.p + 1] = "ack" <=> s = "client" /\ v.u /\ v.E[v.p + 1] = v.B[0]
        BY <1>0, <2>1 DEF Ends
    <2> QED
        BY ONLY <2>1, <2>2
<1>9. v.B[0] \in Nat /\ v.u \in BOOLEAN
    BY <1>0 DEF Messages
<1>10. /\ (Past(z) <=> v.E[v.p + 1] >= v.B[0])
       /\ (Past(v) <=> v.E[v.p] >= v.B[0])
    BY ONLY <1>3 DEF Past
<1>11. v.C[v.p + 1] = "ack" => s = "client" /\ v.u /\ ~Past(v) /\ Past(z)
    BY ONLY <1>6, <1>8, <1>9, <1>10
<1>12. s = "client" /\ v.u /\ v.C[v.p + 1] # "ack" => (Past(z) <=> Past(v))
    BY ONLY <1>6, <1>8, <1>9, <1>10
<1>13. Stream(z, s, frames, buffer, way \o Head(list).rest, Tail(list), up, w, g)
    BY ONLY <1>1, <1>2, <1>4, <1>5, <1>7 DEF Stream, Content
<1> QED
    BY ONLY <1>2, <1>6, <1>11, <1>12, <1>13

\* writev takes n elements of the first packet.
Lessened(less, list, n) == less = [list EXCEPT ![1].rest = SubSeq(@, n + 1, Len(@))]
\* writev takes only n elements of the first packet.
LEMMA StreamWrittenPart ==
    ASSUME NEW v, NEW s, NEW frames, NEW buffer, NEW way, NEW list, NEW up, NEW w, NEW g,
           Stream(v, s, frames, buffer, way, list, up, w, g), list # <<>>,
           NEW n \in Nat, n < Len(Head(list).rest), NEW less, Lessened(less, list, n)
    PROVE  /\ Stream(WrotePart(v, n), s, frames, buffer, way \o SubSeq(Head(list).rest, 1, n),
                     less, up, w, g)
           /\ Past(WrotePart(v, n)) <=> Past(v)
<1>0. /\ Layout(v, buffer, way, list) /\ Messages(v, s) /\ Texts(v, frames) /\ Ends(v, s)
      /\ Reader(v, frames, up, w, g)
    BY DEF Stream, Content
<1>1. Layout(WrotePart(v, n), buffer, way \o SubSeq(Head(list).rest, 1, n),
             [list EXCEPT ![1].rest = SubSeq(@, n + 1, Len(@))])
    <2>1. PICK E : E = Shorter(v, n)
        OBVIOUS
    <2>2. E = [i \in Nat |-> IF i = v.p THEN v.E[v.p] + n ELSE v.E[i]]
        BY <2>1 DEF Shorter
    <2>3. Layout(Flow(v.T, E, v.C, v.p, v.q, v.B, v.m, v.u, v.a, v.b),
                 buffer, way \o SubSeq(Head(list).rest, 1, n),
                 [list EXCEPT ![1].rest = SubSeq(@, n + 1, Len(@))])
        BY <1>0, <2>2, WrittenPart
    <2> QED
        BY ONLY <2>1, <2>3 DEF WrotePart
<1>2. PICK z : z = WrotePart(v, n)
    OBVIOUS
<1>3. /\ z.T = v.T /\ z.C = v.C /\ z.p = v.p /\ z.q = v.q /\ z.B = v.B
      /\ z.m = v.m /\ z.u = v.u /\ z.a = v.a
      /\ z.E = [i \in Nat |-> IF i = v.p THEN v.E[v.p] + n ELSE v.E[i]]
    BY <1>2, FlowIs DEF WrotePart, Shorter
<1>4. Messages(z, s) /\ Texts(z, frames)
    BY <1>0, <1>3 DEF Messages, Texts
<1>5. Reader(z, frames, up, w, g)
    BY <1>0, <1>3, SameReader
<1>6. /\ v.p \in Nat /\ v.q \in Nat /\ v.p < v.q
      /\ v.E[v.p] < v.E[v.p + 1] /\ v.E[v.p] \in Nat /\ v.E[v.p + 1] \in Nat
      /\ n < v.E[v.p + 1] - v.E[v.p]
    <2>1. /\ v.p < v.q /\ v.E[v.p] < v.E[v.p + 1]
          /\ Len(Head(list).rest) = v.E[v.p + 1] - v.E[v.p]
        BY <1>0, NextPacket
    <2>2. v.p \in Nat /\ v.q \in Nat
        BY <1>0 DEF Layout
    <2>3. v.p + 1 \in v.p .. v.q /\ v.p \in v.p .. v.q
        BY <2>1, <2>2
    <2> QED
        BY <1>0, <2>1, <2>2, <2>3, EndsRise
<1>7. z.E[v.p] = v.E[v.p] + n /\ \A i \in v.p + 1 .. v.q : z.E[i] = v.E[i]
    BY <1>3, <1>6
<1>8. v.E[v.p] >= v.B[0] \/ v.E[v.p + 1] <= v.B[0]
    <2>1. v.p + 1 \in v.p + 1 .. v.q /\ (v.p + 1) - 1 = v.p
        BY <1>6
    <2>2. v.E[(v.p + 1) - 1] >= v.B[0] \/ v.E[v.p + 1] <= v.B[0]
        BY <1>0, <2>1 DEF Ends
    <2> QED
        BY ONLY <2>1, <2>2
<1>9. v.B[0] \in Nat
    BY <1>0 DEF Messages
<1>10. z.E[v.p] >= v.B[0] \/ v.E[v.p + 1] <= v.B[0]
    BY <1>6, <1>7, <1>8, <1>9
<1>11. Ends(z, s)
    <2>1. z.E[z.q] = z.B[z.m]
        <3>1. v.q \in v.p + 1 .. v.q
            BY <1>6
        <3>2. v.E[v.q] = v.B[v.m]
            BY <1>0 DEF Ends
        <3> QED
            BY ONLY <1>3, <1>7, <3>1, <3>2
    <2>2. ASSUME NEW i \in v.p + 1 .. v.q
          PROVE  /\ z.E[i - 1] >= v.B[0] \/ z.E[i] <= v.B[0]
                 /\ v.C[i] = "ack" <=> s = "client" /\ v.u /\ z.E[i] = v.B[0]
        <3>1. /\ v.E[i - 1] >= v.B[0] \/ v.E[i] <= v.B[0]
              /\ v.C[i] = "ack" <=> s = "client" /\ v.u /\ v.E[i] = v.B[0]
            BY <1>0 DEF Ends
        <3>2. z.E[i] = v.E[i]
            BY <1>7
        <3>3. CASE i = v.p + 1
            <4>1. i - 1 = v.p
                BY <1>6, <3>3
            <4> QED
                BY ONLY <1>10, <3>1, <3>2, <3>3, <4>1
        <3>4. CASE i # v.p + 1
            <4>1. i - 1 \in v.p + 1 .. v.q
                BY <1>6, <3>4
            <4>2. z.E[i - 1] = v.E[i - 1]
                BY <1>7, <4>1
            <4> QED
                BY ONLY <3>1, <3>2, <4>2
        <3> QED
            BY <3>3, <3>4
    <2> QED
        BY ONLY <1>3, <2>1, <2>2 DEF Ends
<1>12. Past(z) <=> Past(v)
    <2>1. (Past(z) <=> z.E[v.p] >= v.B[0]) /\ (Past(v) <=> v.E[v.p] >= v.B[0])
        BY ONLY <1>3 DEF Past
    <2> QED
        BY <1>6, <1>7, <1>8, <1>9, <2>1
<1>13. Stream(z, s, frames, buffer, way \o SubSeq(Head(list).rest, 1, n),
              [list EXCEPT ![1].rest = SubSeq(@, n + 1, Len(@))], up, w, g)
    BY ONLY <1>1, <1>2, <1>4, <1>5, <1>11 DEF Stream, Content
<1> QED
    BY ONLY <1>2, <1>12, <1>13, Lessened(less, list, n) DEF Lessened

IsLast(value) == IF value \in Switches THEN TRUE ELSE FALSE
\* A message, or the text of a frame, is put behind the stream.
SentMessage(v, es, callback, value) ==
    Flow(Longer(v.T, v.E[v.q], es), More(v.E, v.q, v.E[v.q] + Len(es)), More(v.C, v.q, callback),
         v.p, v.q + 1, [i \in Nat |-> v.B[0] + 2], 0, IsLast(value), v.a, v.b)
SentFrame(v, es) ==
    Flow(Longer(v.T, v.E[v.q], es), More(v.E, v.q, v.E[v.q] + Len(es)), More(v.C, v.q, "none"),
         v.p, v.q + 1, More(v.B, v.m, v.E[v.q] + Len(es)), v.m + 1, v.u, v.a, v.b)

\* A message is two elements.
LEMMA MessageSent ==
    ASSUME NEW kind, NEW value, NEW es, es = Message(kind, value)
    PROVE  /\ es \in Seq({es[1], es[2]}) /\ Len(es) = 2
           /\ es[1].half = 1 /\ es[2].half = 2 /\ es[1].value = value /\ es[2].value = value
BY DEF Message

\* tcp_session::send of a message, or of a frame, to a stream.
AddsMessage(after, longer, v, list, s, kind, value, callback) ==
    /\ s = "server" => value # "switch"
    /\ callback = "ack" <=> s = "client" /\ value \in Switches
    /\ longer = Append(list, [rest |-> Message(kind, value), callback |-> callback])
    /\ after = SentMessage(v, Message(kind, value), callback, value)
\* tcp_session::send of a request or an answer.
LEMMA StreamMessageSent ==
    ASSUME NEW v, NEW s, NEW frames, NEW buffer, NEW way, NEW list, NEW up, NEW w, NEW g,
           Stream(v, s, frames, buffer, way, list, up, w, g), ~v.u,
           NEW longer, NEW after, NEW callback, NEW kind, NEW value,
           AddsMessage(after, longer, v, list, s, kind, value, callback)
    PROVE  Stream(after, s, frames, buffer, way, longer, up, w, g) /\ ~Past(after)
<1> PICK es : es = Message(kind, value)
    OBVIOUS
<1> PICK last \in BOOLEAN : last = IsLast(value)
    BY DEF IsLast
<1>l. /\ last <=> value \in Switches
      /\ s = "server" => value # "switch"
      /\ callback = "ack" <=> s = "client" /\ last
      /\ longer = Append(list, [rest |-> es, callback |-> callback])
      /\ after = SentMessage(v, es, callback, value)
    BY DEF AddsMessage, IsLast
<1>0. /\ Layout(v, buffer, way, list) /\ Messages(v, s) /\ Texts(v, frames) /\ Ends(v, s)
      /\ Reader(v, frames, up, w, g)
    BY DEF Stream, Content
<1>2. v.m = 0 /\ v.B[0] \in Nat /\ v.E[v.q] = v.B[0]
    BY <1>0 DEF Texts, Messages, Ends
<1>3. PICK d \in Nat : d = v.B[0]
    BY <1>2
<1>4. PICK T : T = Longer(v.T, d, es)
    OBVIOUS
<1>5. PICK q \in Nat : q = v.q
    BY <1>0 DEF Layout
<1>6. PICK E : E = More(v.E, q, d + 2)
    OBVIOUS
<1>7. PICK C : C = More(v.C, q, callback)
    OBVIOUS
<1>8. PICK B : B = [i \in Nat |-> d + 2]
    OBVIOUS
<1>9. PICK z : z = after
    OBVIOUS
<1>10. es \in Seq({es[1], es[2]}) /\ Len(es) = 2 /\ es[1].half = 1 /\ es[2].half = 2
       /\ es[1].value = value /\ es[2].value = value
    BY MessageSent
<1>11. z = Flow(T, E, C, v.p, v.q + 1, B, 0, last, v.a, v.b)
    BY ONLY <1>2, <1>3, <1>4, <1>5, <1>6, <1>7, <1>8, <1>9, <1>10, <1>l,
            last = IsLast(value) DEF SentMessage
<1>12. /\ z.T = T /\ z.E = E /\ z.C = C /\ z.p = v.p /\ z.q = v.q + 1 /\ z.B = B /\ z.m = 0
       /\ z.u = last /\ z.a = v.a /\ z.b = v.b
    BY <1>11, FlowIs
<1>13. Layout(z, buffer, way, Append(list, [rest |-> es, callback |-> callback]))
    <2>1. /\ T = Longer(v.T, v.E[v.q], es) /\ E = More(v.E, v.q, v.E[v.q] + Len(es))
          /\ C = More(v.C, v.q, callback)
        BY ONLY <1>2, <1>3, <1>4, <1>5, <1>6, <1>7, <1>10
    <2>2. Len(es) > 0
        BY <1>10
    <2>3. Layout(Flow(T, E, C, v.p, v.q + 1, B, 0, last, v.a, v.b), buffer, way,
                 Append(list, [rest |-> es, callback |-> callback]))
        BY <1>0, <1>10, <2>1, <2>2, PacketSent
    <2> QED
        BY ONLY <1>11, <2>3
<1>14. /\ \A i \in 0 .. d : T[i] = v.T[i]
       /\ T[d + 1] = es[1] /\ T[d + 2] = es[2]
    <2>4. IsLonger(T, v.T, d, es)
        BY <1>4, <1>10, LongerIs
    <2>1. \A i \in 0 .. d : T[i] = v.T[i]
        BY ONLY <2>4 DEF IsLonger
    <2>2. \A i \in 1 .. Len(es) : T[d + i] = es[i]
        BY ONLY <2>4 DEF IsLonger
    <2>3. 1 \in 1 .. Len(es) /\ 2 \in 1 .. Len(es)
        BY <1>10
    <2> QED
        BY <2>1, <2>2, <2>3
<1>15. B[0] = d + 2
    BY <1>8
<1>16. Messages(z, s)
    <2>1. d % 2 = 0 /\ \A i \in 1 .. d : MessagePart(v.T[i], i, s, v.u /\ i > d - 2)
        BY ONLY <1>0, <1>3 DEF Messages
    <2>2. ASSUME NEW i \in 1 .. d + 2 PROVE MessagePart(T[i], i, s, last /\ i > (d + 2) - 2)
        <3>1. CASE i <= d
            <4>1. i \in 1 .. d /\ i \in 0 .. d /\ ~(i > (d + 2) - 2)
                BY <3>1
            <4>2. MessagePart(T[i], i, s, v.u /\ i > d - 2)
                BY ONLY <1>14, <2>1, <4>1
            <4> QED
                BY ONLY <4>1, <4>2, ~v.u DEF MessagePart
        <3>2. CASE i = d + 1
            <4>1. i % 2 = 1 /\ i > (d + 2) - 2
                BY <2>1, <3>2
            <4> QED
                BY ONLY <1>10, <1>14, <3>2, <4>1, <1>l DEF MessagePart
        <3>3. CASE i = d + 2
            <4>1. i % 2 # 1 /\ i > (d + 2) - 2
                BY <2>1, <3>3
            <4> QED
                BY ONLY <1>10, <1>14, <3>3, <4>1, <1>l DEF MessagePart
        <3> QED
            BY <3>1, <3>2, <3>3
    <2>3. (d + 2) \in Nat /\ (d + 2) % 2 = 0 /\ d + 2 >= 2
        BY <2>1
    <2> QED
        BY ONLY <1>12, <1>15, <2>2, <2>3, last \in BOOLEAN DEF Messages
<1>17. Texts(z, frames)
    <2>1. 0 \in 0 .. Len(frames) /\ ~(0 > 0)
        BY <1>0, <1>2 DEF Texts
    <2>2. (\A i \in 0 .. 0 : B[i] \in Nat) /\ (\A i \in 1 .. 0 : FALSE)
          /\ (\A i \in B[0] + 1 .. B[0] : FALSE)
        BY <1>15
    <2> QED
        BY ONLY <1>12, <2>1, <2>2 DEF Texts
<1>18. /\ E[q + 1] = d + 2 /\ (\A i \in 0 .. q : E[i] = v.E[i])
       /\ C[q + 1] = callback /\ (\A i \in 0 .. q : C[i] = v.C[i])
    <2>1. IsMore(E, v.E, q, d + 2) /\ IsMore(C, v.C, q, callback)
        BY <1>6, <1>7, MoreIs
    <2> QED
        BY ONLY <2>1 DEF IsMore
<1>19. v.p \in Nat /\ v.p <= q /\ \A i \in v.p .. q : v.E[i] \in Nat /\ v.E[i] <= d
    <2>1. v.p \in Nat /\ v.p <= q
        BY ONLY <1>0, <1>5 DEF Layout
    <2>2. \A i \in v.p .. v.q : v.E[i] \in Nat /\ v.E[i] <= v.E[v.q] /\ v.E[v.p] <= v.E[i]
        BY <1>0, EndsRise
    <2> QED
        BY ONLY <1>2, <1>3, <1>5, <2>1, <2>2
<1>20. Ends(z, s)
    <2>1. ASSUME NEW i \in v.p + 1 .. q + 1
          PROVE  /\ E[i] <= d + 2
                 /\ C[i] = "ack" <=> s = "client" /\ last /\ E[i] = d + 2
        <3>1. CASE i = q + 1
            BY ONLY <1>18, <1>l, <3>1
        <3>2. CASE i # q + 1
            <4>1. i \in 0 .. q /\ i \in v.p .. q /\ i \in v.p + 1 .. q
                BY <1>19, <3>2
            <4>2. E[i] \in Nat /\ E[i] <= d /\ C[i] = v.C[i]
                BY <1>18, <1>19, <4>1
            <4>3. C[i] # "ack"
                <5>1. v.C[i] = "ack" <=> s = "client" /\ v.u /\ v.E[i] = v.B[0]
                    BY ONLY <1>0, <1>5, <4>1 DEF Ends
                <5> QED
                    BY ONLY <4>2, <5>1, ~v.u
            <4>4. E[i] <= d + 2 /\ E[i] # d + 2
                BY <4>2
            <4> QED
                BY <4>3, <4>4
        <3> QED
            BY <3>1, <3>2
    <2> QED
        BY ONLY <1>5, <1>12, <1>15, <1>18, <2>1 DEF Ends
<1>21. Reader(z, frames, up, w, g)
    <2>1. ReadsMessages(v, w, g) /\ ~(up = TRUE)
        BY <1>0 DEF Reader, ReadsFrames
    <2>2. v.a \in Nat
        BY <1>0 DEF Layout
    <2>3. v.a <= d + 2 /\ v.a < d + 2
        BY <1>3, <2>1, <2>2 DEF ReadsMessages
    <2>4. ReadsMessages(z, w, g)
        BY ONLY <1>12, <1>15, <2>1, <2>3 DEF ReadsMessages
    <2>5. ~up
        BY <1>0 DEF Reader, ReadsFrames
    <2> QED
        BY <2>4, <2>5 DEF Reader
<1>22. ~Past(z)
    <2>1. v.p \in v.p .. q /\ v.p \in 0 .. q
        BY <1>19
    <2>2. E[v.p] \in Nat /\ E[v.p] <= d
        BY <1>18, <1>19, <2>1
    <2>3. ~(E[v.p] >= d + 2)
        BY <2>2
    <2> QED
        BY ONLY <1>12, <1>15, <2>3 DEF Past
<1>23. Stream(z, s, frames, buffer, way, Append(list, [rest |-> es, callback |-> callback]), up, w, g)
    BY ONLY <1>13, <1>16, <1>17, <1>20, <1>21 DEF Stream, Content
<1> QED
    BY ONLY <1>9, <1>22, <1>23, <1>l

\* es carries the numbers of L as bytes.
AreBytes(es, L, S) ==
    /\ es \in Seq(S) /\ Len(es) = Len(L) /\ Len(L) \in Nat
    /\ \A i \in 1 .. Len(L) : es[i] = Byte(L[i]) /\ es[i].value = L[i] /\ L[i] \in Nat
\* Bytes as elements.
LEMMA BytesAre ==
    ASSUME NEW L \in Seq(Nat), NEW es, es = Bytes(L)
    PROVE  AreBytes(es, L, {Byte(x) : x \in Nat})
<1>1. Len(L) \in Nat /\ DOMAIN L = 1 .. Len(L) /\ \A i \in 1 .. Len(L) : L[i] \in Nat
    BY LenProperties, ElementOfSeq
<1>2. es = [i \in 1 .. Len(L) |-> Byte(L[i])]
    BY <1>1 DEF Bytes
<1> DEFINE S == {Byte(x) : x \in Nat}
<1>3. \A i \in 1 .. Len(L) : Byte(L[i]) \in S
    BY <1>1
<1> HIDE DEF S
<1>4. es \in [1 .. Len(L) -> S]
    BY <1>2, <1>3
<1>5. es \in Seq(S) /\ Len(es) = Len(L)
    BY <1>1, <1>4
<1>6. \A i \in 1 .. Len(L) : es[i] = Byte(L[i]) /\ es[i].value = L[i]
    BY <1>2 DEF Byte
<1> QED
    <2>1. AreBytes(es, L, S)
        BY <1>1, <1>5, <1>6 DEF AreBytes
    <2> QED
        BY <2>1 DEF S

AddsFrame(after, longer, v, list, frames, f, key) ==
    /\ v.u /\ v.m < Len(frames) /\ f = frames[v.m + 1] /\ Shifted(Len(f.payload), 8)[8] = 0
    /\ longer = Append(list, [rest |-> Bytes(FrameString(f, key)), callback |-> "none"])
    /\ after = SentFrame(v, Bytes(FrameString(f, key)))
\* tcp_session::send of a frame.
LEMMA StreamFrameSent ==
    ASSUME NEW v, NEW s, NEW frames \in Seq(Frame), NEW buffer, NEW way, NEW list,
           NEW up, NEW w, NEW g,
           Stream(v, s, frames, buffer, way, list, up, w, g),
           NEW f, NEW key \in Key,
           NEW longer, NEW after, AddsFrame(after, longer, v, list, frames, f, key)
    PROVE  /\ Stream(after, s, frames, buffer, way, longer, up, w, g)
           /\ Past(after) <=> Past(v)
<1> PICK es : es = Bytes(FrameString(f, key))
    OBVIOUS
<1>l. /\ longer = Append(list, [rest |-> es, callback |-> "none"])
      /\ after = SentFrame(v, es)
      /\ v.u /\ v.m < Len(frames) /\ f = frames[v.m + 1] /\ Shifted(Len(f.payload), 8)[8] = 0
    BY DEF AddsFrame
<1>0. /\ Layout(v, buffer, way, list) /\ Messages(v, s) /\ Texts(v, frames) /\ Ends(v, s)
      /\ Reader(v, frames, up, w, g)
    BY DEF Stream, Content
<1>1. PICK m \in Nat : m = v.m
    BY <1>0, TextsRise
<1>2. f \in Frame
    <2>1. m + 1 \in 1 .. Len(frames)
        BY <1>1, <1>l
    <2> QED
        BY <1>1, <1>l, <2>1, ElementOfSeq
<1>3. PICK L \in Seq(Nat) : L = FrameString(f, key) /\ Len(L) >= 2
    <2>1. Shape(FrameString(f, key), f, key, Len(f.payload), Extra(Len(f.payload)), KeyBytes(f))
        BY <1>2, <1>l, FrameShape
    <2>2. FrameString(f, key) \in Seq(Nat) /\ Len(FrameString(f, key)) = Core(f) + Zeros(f)
        BY ONLY <2>1 DEF Shape
    <2>3. Core(f) \in Nat /\ Core(f) >= 2 /\ Zeros(f) \in Nat
        BY <1>2, FrameSizes
    <2> QED
        BY <2>2, <2>3
<1>4. PICK n \in Nat : n = Len(L)
    OBVIOUS
<1>5. /\ es \in Seq({Byte(x) : x \in Nat}) /\ Len(es) = n /\ n >= 2
      /\ \A i \in 1 .. n : es[i] = Byte(L[i]) /\ es[i].value \in Nat
    <2>1. AreBytes(es, L, {Byte(x) : x \in Nat})
        BY <1>3, BytesAre
    <2> QED
        BY ONLY <1>3, <1>4, <2>1 DEF AreBytes
<1>6. PICK d \in Nat : d = v.E[v.q] /\ d = v.B[m]
    <2>1. v.E[v.q] = v.B[v.m]
        BY <1>0 DEF Ends
    <2>2. v.B[v.m] \in Nat
        BY <1>0, TextsRise
    <2> QED
        BY <1>1, <2>1, <2>2
<1>7. PICK T : T = Longer(v.T, d, es)
    OBVIOUS
<1>8. PICK q \in Nat : q = v.q
    BY <1>0 DEF Layout
<1>9. PICK E : E = More(v.E, q, d + n)
    OBVIOUS
<1>10. PICK C : C = More(v.C, q, "none")
    OBVIOUS
<1>11. PICK B : B = More(v.B, m, d + n)
    OBVIOUS
<1>12. PICK z : z = SentFrame(v, es)
    OBVIOUS
<1>13. z = Flow(T, E, C, v.p, v.q + 1, B, m + 1, v.u, v.a, v.b)
    BY ONLY <1>1, <1>5, <1>6, <1>7, <1>8, <1>9, <1>10, <1>11, <1>12 DEF SentFrame
<1>27. PICK m2, q2 : m2 = m + 1 /\ q2 = v.q + 1
    OBVIOUS
<1>28. z = Flow(T, E, C, v.p, q2, B, m2, v.u, v.a, v.b)
    BY ONLY <1>13, <1>27
<1>14. /\ z.T = T /\ z.E = E /\ z.C = C /\ z.p = v.p /\ z.q = q + 1 /\ z.B = B /\ z.m = m + 1
       /\ z.u = v.u /\ z.a = v.a /\ z.b = v.b
    <2>1. /\ z.T = T /\ z.E = E /\ z.C = C /\ z.p = v.p /\ z.q = q2 /\ z.B = B /\ z.m = m2
          /\ z.u = v.u /\ z.a = v.a /\ z.b = v.b
        BY ONLY <1>28 DEF Flow
    <2> QED
        BY ONLY <1>8, <1>27, <2>1
<1>15. Layout(z, buffer, way, Append(list, [rest |-> es, callback |-> "none"]))
    <2>1. /\ T = Longer(v.T, v.E[v.q], es) /\ E = More(v.E, v.q, v.E[v.q] + Len(es))
          /\ C = More(v.C, v.q, "none")
        BY ONLY <1>5, <1>6, <1>7, <1>8, <1>9, <1>10
    <2>2. Len(es) > 0
        BY <1>5
    <2>4. PICK S : es \in Seq(S)
        BY <1>5
    <2>3. Layout(Flow(T, E, C, v.p, v.q + 1, B, m2, v.u, v.a, v.b), buffer, way,
                 Append(list, [rest |-> es, callback |-> "none"]))
        BY <1>0, <2>1, <2>2, <2>4, PacketSent
    <2> QED
        BY ONLY <1>13, <1>27, <2>3
<1>16. /\ \A i \in 0 .. d : T[i] = v.T[i]
       /\ \A i \in 1 .. n : T[d + i] = es[i]
    <2>1. IsLonger(T, v.T, d, es)
        BY <1>5, <1>7, LongerIs
    <2> QED
        BY ONLY <1>5, <2>1 DEF IsLonger
<1>17. /\ E[q + 1] = d + n /\ (\A i \in 0 .. q : E[i] = v.E[i])
       /\ C[q + 1] = "none" /\ (\A i \in 0 .. q : C[i] = v.C[i])
       /\ B[m + 1] = d + n /\ (\A i \in 0 .. m : B[i] = v.B[i])
    <2>1. IsMore(E, v.E, q, d + n) /\ IsMore(C, v.C, q, "none") /\ IsMore(B, v.B, m, d + n)
        BY <1>9, <1>10, <1>11, MoreIs
    <2> QED
        BY ONLY <2>1 DEF IsMore
<1>18. \A i \in 0 .. m : v.B[i] \in Nat /\ v.B[i] <= d /\ v.B[0] <= v.B[i]
    <2>1. \A i \in 0 .. v.m : /\ v.B[i] \in Nat /\ v.B[i] <= v.B[v.m] /\ v.B[0] <= v.B[i]
                              /\ i < v.m => v.B[i] < v.B[v.m]
        BY <1>0, TextsRise
    <2> QED
        BY ONLY <1>1, <1>6, <2>1
<1>19. PICK start \in Nat : start = v.B[0] /\ start = B[0] /\ start <= d
    <2>1. 0 \in 0 .. m
        OBVIOUS
    <2> QED
        BY <1>17, <1>18, <2>1
<1>20. Messages(z, s)
    <2>1. /\ start % 2 = 0 /\ v.u \in BOOLEAN /\ (v.u => start >= 2)
          /\ \A i \in 1 .. start : MessagePart(v.T[i], i, s, v.u /\ i > start - 2)
        BY ONLY <1>0, <1>19 DEF Messages
    <2>2. \A i \in 1 .. start : T[i] = v.T[i]
        BY <1>16, <1>19
    <2>3. \A i \in 1 .. start : MessagePart(T[i], i, s, v.u /\ i > start - 2)
        BY ONLY <2>1, <2>2
    <2> QED
        BY ONLY <1>14, <1>19, <2>1, <2>3 DEF Messages
<1>21. Texts(z, frames)
    <2>1. m + 1 \in 0 .. Len(frames)
        BY <1>1, <1>l
    <2>2. \A i \in 0 .. m + 1 : B[i] \in Nat
        BY ONLY <1>17, <1>18, m \in Nat, d \in Nat, n \in Nat
    <2>3. ASSUME NEW i \in 1 .. m + 1
          PROVE  B[i - 1] < B[i] /\ TextAt(T, B[i - 1], B[i], frames[i])
        <3>1. CASE i = m + 1
            <4>1. i - 1 = m /\ m \in 0 .. m
                BY <3>1
            <4>2. B[i - 1] = d /\ B[i] = d + n /\ frames[i] = f
                BY ONLY <1>1, <1>6, <1>17, <3>1, <4>1, <1>l
            <4>3. \A j \in 1 .. (d + n) - d : T[d + j] = Byte(FrameString(f, key)[j])
                <5>1. (d + n) - d = n
                    OBVIOUS
                <5> QED
                    BY ONLY <1>3, <1>5, <1>16, <5>1
            <4>4. TextAt(T, d, d + n, f)
                BY ONLY <1>3, <1>4, <4>3, key \in Key DEF TextAt
            <4>5. d < d + n
                BY <1>5
            <4> QED
                BY ONLY <4>2, <4>4, <4>5
        <3>2. CASE i # m + 1
            <4>1. i \in 1 .. m /\ i \in 0 .. m /\ i - 1 \in 0 .. m
                BY <3>2
            <4>2. v.B[i - 1] < v.B[i] /\ TextAt(v.T, v.B[i - 1], v.B[i], frames[i])
                BY ONLY <1>0, <1>1, <4>1 DEF Texts
            <4>3. PICK x \in Nat : x = v.B[i - 1] /\ x = B[i - 1]
                BY <1>17, <1>18, <4>1
            <4>4. PICK y \in Nat : y = v.B[i] /\ y = B[i] /\ y <= d
                BY <1>17, <1>18, <4>1
            <4>5. PICK k \in Key : /\ y = x + Len(FrameString(frames[i], k))
                                   /\ \A j \in 1 .. y - x : v.T[x + j]
                                                              = Byte(FrameString(frames[i], k)[j])
                BY ONLY <4>2, <4>3, <4>4 DEF TextAt
            <4>6. \A j \in 1 .. y - x : T[x + j] = v.T[x + j]
                <5> TAKE j \in 1 .. y - x
                <5>1. x + j \in 0 .. d
                    BY <4>4
                <5> QED
                    BY <1>16, <5>1
            <4>7. \A j \in 1 .. y - x : T[x + j] = Byte(FrameString(frames[i], k)[j])
                BY ONLY <4>5, <4>6
            <4>8. TextAt(T, x, y, frames[i])
                BY ONLY <4>5, <4>7 DEF TextAt
            <4> QED
                BY ONLY <4>2, <4>3, <4>4, <4>8
        <3> QED
            BY <3>1, <3>2
    <2>4. ASSUME NEW i \in start + 1 .. d + n PROVE T[i].value \in Nat
        <3>1. CASE i <= d
            <4>1. i \in start + 1 .. d /\ i \in 0 .. d
                BY <3>1
            <4>2. v.T[i].value \in Nat
                BY ONLY <1>0, <1>1, <1>6, <1>19, <4>1 DEF Texts
            <4> QED
                BY ONLY <1>16, <4>1, <4>2
        <3>2. CASE ~(i <= d)
            <4>1. i - d \in 1 .. n /\ d + (i - d) = i
                BY <3>2
            <4>2. T[d + (i - d)] = es[i - d] /\ es[i - d].value \in Nat
                BY ONLY <1>5, <1>16, <4>1
            <4> QED
                BY ONLY <4>1, <4>2
        <3> QED
            BY <3>1, <3>2
    <2> QED
        BY ONLY <1>14, <1>17, <1>19, <2>1, <2>2, <2>3, <2>4, <1>l DEF Texts
<1>22. v.p \in Nat /\ v.p <= q /\ \A i \in v.p .. q : v.E[i] \in Nat /\ v.E[i] <= d
    <2>1. v.p \in Nat /\ v.p <= q
        BY ONLY <1>0, <1>8 DEF Layout
    <2>2. \A i \in v.p .. v.q : v.E[i] \in Nat /\ v.E[i] <= v.E[v.q] /\ v.E[v.p] <= v.E[i]
        BY <1>0, EndsRise
    <2> QED
        BY ONLY <1>6, <1>8, <2>1, <2>2
<1>23. Ends(z, s)
    <2>1. ASSUME NEW i \in v.p + 1 .. q + 1
          PROVE  /\ E[i - 1] >= start \/ E[i] <= start
                 /\ C[i] = "ack" <=> s = "client" /\ v.u /\ E[i] = start
        <3>1. CASE i = q + 1
            <4>1. i - 1 = q /\ q \in 0 .. q
                BY <3>1
            <4>2. E[i - 1] = d /\ E[i] = d + n /\ C[i] = "none"
                BY ONLY <1>6, <1>8, <1>17, <3>1, <4>1
            <4>3. E[i - 1] >= start /\ E[i] # start
                BY <1>5, <1>19, <4>2
            <4> QED
                BY ONLY <4>2, <4>3
        <3>2. CASE i # q + 1
            <4>1. i \in 0 .. q /\ i - 1 \in 0 .. q /\ i \in v.p + 1 .. q
                BY <1>22, <3>2
            <4>2. /\ v.E[i - 1] >= start \/ v.E[i] <= start
                  /\ v.C[i] = "ack" <=> s = "client" /\ v.u /\ v.E[i] = start
                BY ONLY <1>0, <1>8, <1>19, <4>1 DEF Ends
            <4> QED
                BY ONLY <1>17, <4>1, <4>2
        <3> QED
            BY <3>1, <3>2
    <2>2. E[q + 1] = B[m + 1]
        BY ONLY <1>17
    <2> QED
        BY ONLY <1>14, <1>19, <2>1, <2>2 DEF Ends
<1>24. Reader(z, frames, up, w, g)
    <2>1. CASE up
        <3>1. v.a >= start
            BY ONLY <1>0, <1>19, <2>1 DEF Reader, ReadsFrames
        <3>2. PICK k \in 0 .. m : Reads(v, frames, w, g, k)
            BY ONLY <1>0, <1>1, <2>1 DEF Reader, ReadsFrames
        <3>3. PICK y \in Nat : y = v.B[k] /\ y = B[k] /\ y <= d
            BY <1>17, <1>18
        <3>4. v.a \in Nat
            BY <1>0 DEF Layout
        <3>5. v.a <= y /\ (y - v.a) % 2 = Behind(frames, k) % 2 /\ \A i \in v.a + 1 .. y : v.T[i] = Byte(0)
            BY ONLY <3>2, <3>3 DEF Reads, Zeroes
        <3>6. \A i \in v.a + 1 .. y : T[i] = Byte(0)
            <4> TAKE i \in v.a + 1 .. y
            <4>1. i \in 0 .. d
                BY <3>3, <3>4
            <4> QED
                BY <1>16, <3>5, <4>1
        <3>7. Reads(z, frames, w, g, k)
            BY ONLY <1>14, <3>2, <3>3, <3>5, <3>6 DEF Reads, Zeroes
        <3>8. k \in 0 .. m + 1
            OBVIOUS
        <3> QED
            BY ONLY <1>14, <1>19, <2>1, <3>1, <3>7, <3>8, <1>l DEF Reader, ReadsFrames
    <2>2. CASE ~up
        BY ONLY <1>0, <1>14, <1>19, <2>2 DEF Reader, ReadsMessages
    <2> QED
        BY <2>1, <2>2
<1>25. Past(z) <=> Past(v)
    <2>1. v.p \in 0 .. q
        BY <1>22
    <2> QED
        BY ONLY <1>14, <1>17, <1>19, <2>1 DEF Past
<1>26. Stream(z, s, frames, buffer, way, Append(list, [rest |-> es, callback |-> "none"]), up, w, g)
    BY ONLY <1>15, <1>20, <1>21, <1>23, <1>24 DEF Stream, Content
<1> QED
    BY ONLY <1>12, <1>25, <1>26, <1>l

\* n more elements are parsed.
LEMMA ReadIs ==
    ASSUME NEW v, NEW n \in Nat, NEW z, z = Read(v, n)
    PROVE  /\ z.T = v.T /\ z.E = v.E /\ z.C = v.C /\ z.p = v.p /\ z.q = v.q /\ z.B = v.B
           /\ z.m = v.m /\ z.u = v.u /\ z.a = v.a + n /\ z.b = v.b
BY DEF Read, Flow

\* An element that is not the end of the handshake leaves HTTP going.
LEMMA StreamHttp ==
    ASSUME NEW v, NEW s, NEW frames, NEW buffer, NEW way, NEW list, NEW w, NEW g,
           Stream(v, s, frames, buffer, way, list, FALSE, w, g), buffer # <<>>,
           NEW e, e = Head(buffer), e.half = 1 \/ e.value \notin Switches
    PROVE  Stream(Read(v, 1), s, frames, Tail(buffer), way, list, FALSE, w, g)
<1>1. /\ v.a \in Nat /\ v.B[0] \in Nat /\ v.a < v.B[0] /\ v.B[0] % 2 = 0 /\ v.u \in BOOLEAN
      /\ e.half = (IF (v.a + 1) % 2 = 1 THEN 1 ELSE 2)
      /\ (e.value \in Switches <=> v.u /\ v.a + 1 > v.B[0] - 2)
      /\ Tail(buffer) = SubSeq(buffer, 1 + 1, Len(buffer)) /\ 1 <= Len(buffer)
    <2>1. IsPlace(v, s, e, buffer)
        BY PlaceIsRead
    <2> QED
        BY ONLY <2>1 DEF IsPlace
<1>2. PICK z : z = Read(v, 1)
    OBVIOUS
<1>3. /\ z.B = v.B /\ z.u = v.u /\ z.a = v.a + 1
    BY <1>2, ReadIs
<1>4. v.a + 1 <= v.B[0] /\ (v.u => v.a + 1 < v.B[0])
    BY <1>1
<1>5. ReadsMessages(v, w, g)
    BY DEF Stream, Content, Reader
<1>6. ReadsMessages(z, w, g)
    BY ONLY <1>3, <1>4, <1>5 DEF ReadsMessages
<1>7. Reader(z, frames, FALSE, w, g)
    BY <1>6 DEF Reader
<1>8. Stream(Read(v, 1), s, frames, SubSeq(buffer, 1 + 1, Len(buffer)), way, list, FALSE, w, g)
    BY <1>1, <1>2, <1>7, StreamParsed
<1> QED
    BY ONLY <1>1, <1>8

\* The end of the handshake is the last of the messages: frames follow.
LEMMA StreamUpgrade ==
    ASSUME NEW v, NEW s, NEW frames \in Seq(Frame), NEW buffer, NEW way, NEW list, NEW w, NEW g,
           Stream(v, s, frames, buffer, way, list, FALSE, w, g), buffer # <<>>,
           NEW e, e = Head(buffer), e.half = 2, e.value \in Switches,
           NEW w2, w2.frame = w.frame
    PROVE  /\ Stream(Read(v, 1), s, frames, Tail(buffer), way, list, TRUE, w2, g)
           /\ v.u /\ v.a + 1 = v.B[0]
<1>1. /\ v.a \in Nat /\ v.B[0] \in Nat /\ v.a < v.B[0] /\ v.B[0] % 2 = 0 /\ v.u \in BOOLEAN
      /\ e.half = (IF (v.a + 1) % 2 = 1 THEN 1 ELSE 2)
      /\ (e.value \in Switches <=> v.u /\ v.a + 1 > v.B[0] - 2)
      /\ Tail(buffer) = SubSeq(buffer, 1 + 1, Len(buffer)) /\ 1 <= Len(buffer)
    <2>1. IsPlace(v, s, e, buffer)
        BY PlaceIsRead
    <2> QED
        BY ONLY <2>1 DEF IsPlace
<1>2. PICK z : z = Read(v, 1)
    OBVIOUS
<1>3. /\ z.T = v.T /\ z.B = v.B /\ z.u = v.u /\ z.a = v.a + 1 /\ z.m = v.m
    BY <1>2, ReadIs
<1>4. v.a + 1 = v.B[0] /\ v.u
    BY <1>1
<1>5. ReadsMessages(v, w, g) /\ Texts(v, frames)
    BY DEF Stream, Content, Reader
<1>6. Reads(z, frames, w2, g, 0)
    <2>1. PICK d \in Nat : d = v.B[0]
        BY <1>1
    <2>2. z.a = d /\ z.B[0] = d
        BY <1>3, <1>4, <2>1
    <2>3. d <= d /\ (d - d) % 2 = 0 % 2 /\ \A i \in d + 1 .. d : FALSE
        OBVIOUS
    <2>4. Joined(frames)[0] = Nothing
        BY JoinedIs
    <2>5. g = Joined(frames)[0].done /\ w2.frame.payload = Joined(frames)[0].payload
          /\ w2.frame.opcode = Joined(frames)[0].opcode
        BY ONLY <1>5, <2>4, w2.frame = w.frame DEF ReadsMessages, Nothing
    <2> QED
        BY ONLY <2>2, <2>3, <2>5 DEF Reads, Zeroes, Behind
<1>7. Reader(z, frames, TRUE, w2, g)
    <2>1. 0 \in 0 .. z.m
        BY <1>3, <1>5, TextsRise
    <2>2. z.a >= z.B[0]
        BY <1>1, <1>3, <1>4
    <2> QED
        BY ONLY <1>3, <1>4, <1>6, <2>1, <2>2 DEF Reader, ReadsFrames
<1>8. Stream(Read(v, 1), s, frames, SubSeq(buffer, 1 + 1, Len(buffer)), way, list, TRUE, w2, g)
    BY <1>1, <1>2, <1>7, StreamParsed
<1> QED
    BY ONLY <1>1, <1>4, <1>8

-----------------------------------------------------------------------------
(* The websocket parser reads the stream.                                    *)

\* The values of what is in the buffer of one that reads frames.
Spread(D, buffer, v) ==
    /\ D \in Seq(Nat) /\ Len(D) = v.b - v.a /\ Len(buffer) = v.b - v.a
    /\ v.a \in Nat /\ v.b \in Nat /\ v.b <= v.B[v.m] /\ v.B[0] <= v.a
    /\ \A i \in 1 .. v.b - v.a : D[i] = v.T[v.a + i].value
\* The websocket parser is given the bytes that come next in the stream.
LEMMA ValuesAre ==
    ASSUME NEW v, NEW s, NEW frames \in Seq(Frame), NEW buffer, NEW way, NEW list, NEW w, NEW g,
           Stream(v, s, frames, buffer, way, list, TRUE, w, g), NEW D, D = Values(buffer)
    PROVE  Spread(D, buffer, v)
<1>0. /\ Layout(v, buffer, way, list) /\ Texts(v, frames) /\ Ends(v, s)
      /\ ReadsFrames(v, frames, w, g)
    BY DEF Stream, Content, Reader
<1>1. PICK a \in Nat : a = v.a
    BY <1>0 DEF Layout
<1>2. PICK b \in Nat : b = v.b
    BY <1>0 DEF Layout
<1>3. buffer = Part(v.T, a, b) /\ a <= b /\ b <= v.E[v.p]
    BY ONLY <1>0, <1>1, <1>2 DEF Layout
<1>4. Shows(buffer, v.T, a, b)
    BY <1>3, PartShape
<1>5. DOMAIN buffer = 1 .. b - a /\ Len(buffer) = b - a
      /\ \A i \in 1 .. b - a : buffer[i] = v.T[a + i]
    BY ONLY <1>4 DEF Shows
<1>6. D = [i \in 1 .. b - a |-> v.T[a + i].value]
    BY <1>5 DEF Values
<1>7. PICK d \in Nat : d = v.B[v.m]
    BY <1>0, TextsRise
<1>8. PICK c \in Nat : c = v.B[0]
    BY <1>0, TextsRise
<1>9. b <= d /\ c <= a
    <2>1. v.E[v.p] <= v.E[v.q] /\ v.E[v.p] \in Nat /\ v.E[v.q] \in Nat
        BY <1>0, EndsRise
    <2>2. v.E[v.q] = d /\ v.a >= v.B[0]
        BY ONLY <1>0, <1>7 DEF Ends, ReadsFrames
    <2> QED
        BY <1>1, <1>3, <1>8, <2>1, <2>2
<1>10. \A i \in 1 .. b - a : v.T[a + i].value \in Nat
    <2> TAKE i \in 1 .. b - a
    <2>1. a + i \in c + 1 .. d
        BY <1>9
    <2> QED
        BY ONLY <1>0, <1>7, <1>8, <2>1 DEF Texts
<1>11. D \in [1 .. b - a -> Nat]
    BY <1>6, <1>10
<1>12. D \in Seq(Nat) /\ Len(D) = b - a
    BY <1>3, <1>11
<1>13. \A i \in 1 .. b - a : D[i] = v.T[a + i].value
    BY <1>6
<1> QED
    BY ONLY <1>1, <1>2, <1>5, <1>7, <1>8, <1>9, <1>12, <1>13 DEF Spread

\* The parser reads the zeros behind a frame, or the next frame.
Opened == [opcode : Opcodes, payload : Payloads, fin : BOOLEAN, mask : BOOLEAN]
\* InStep of one list, m of which are begun, and lengths that fit eight bytes.
Aligned(frames, m) ==
    /\ \A i \in 1 .. Len(frames) : Shifted(Len(frames[i].payload), 8)[8] = 0
    /\ \A i \in 1 .. m - 1 : frames[i].mask => Len(frames[i].payload) % 2 = 0

\* D is the bytes from place a on; r reads frame f there, and leaves its zeros.
OfText(D, T, a, b) == \A i \in 1 .. b - a : D[i] = T[a + i].value
IsRead(r, f, D, T, a, d) ==
    /\ r.size = Core(f) /\ Core(f) \in Nat /\ Len(D) >= Core(f)
    /\ r.fin = f.fin /\ r.opcode = f.opcode /\ r.payload = f.payload
    /\ a + Core(f) <= d /\ Zeroes(T, a + Core(f), d) /\ d - (a + Core(f)) = Zeros(f)
\* try_parse_frame on the bytes from the start of a frame on.
LEMMA TextIsRead ==
    ASSUME NEW T, NEW a \in Nat, NEW d \in Nat, NEW b \in Nat, NEW f \in Frame, TextAt(T, a, d, f),
           Shifted(Len(f.payload), 8)[8] = 0,
           NEW D \in Seq(Nat), Len(D) = b - a, OfText(D, T, a, b),
           NEW r, r = TryParseFrame(D), r.ok, r.size > 0
    PROVE  IsRead(r, f, D, T, a, d)
<1>1. PICK key \in Key : /\ d = a + Len(FrameString(f, key))
                         /\ \A j \in 1 .. d - a : T[a + j] = Byte(FrameString(f, key)[j])
    BY DEF TextAt
<1>2. Shape(FrameString(f, key), f, key, Len(f.payload), Extra(Len(f.payload)), KeyBytes(f))
    BY FrameShape
<1>3. PICK L \in Seq(Nat) : L = FrameString(f, key)
    BY ONLY <1>2 DEF Shape
<1>4. PICK c \in Nat : c = Core(f) /\ c >= 2
    BY FrameSizes
<1>5. PICK o \in Nat : o = Zeros(f)
    BY FrameSizes
<1>6. Len(L) = c + o /\ d = a + (c + o)
    BY ONLY <1>1, <1>2, <1>3, <1>4, <1>5 DEF Shape
<1>7. \A j \in 1 .. c + o : T[a + j] = Byte(L[j]) /\ T[a + j].value = L[j]
    <2>1. d - a = c + o
        BY <1>6
    <2>2. \A j \in 1 .. c + o : T[a + j] = Byte(L[j])
        BY ONLY <1>1, <1>3, <2>1
    <2> QED
        BY ONLY <2>2 DEF Byte
<1>8. \A i \in 1 .. Len(D) : i <= Core(f) => D[i] = FrameString(f, key)[i]
    <2> SUFFICES ASSUME NEW i \in 1 .. Len(D), i <= c PROVE D[i] = L[i]
        BY <1>3, <1>4
    <2>1. i \in 1 .. c + o /\ i \in 1 .. b - a
        BY <1>4
    <2> QED
        BY <1>7, <2>1 DEF OfText
<1>9. /\ r.size = Core(f) /\ Len(D) >= Core(f)
      /\ r.fin = f.fin /\ r.opcode = f.opcode /\ r.payload = f.payload
    BY <1>8, FrameReadBack
<1>10. \A i \in a + c + 1 .. d : T[i] = Byte(0)
    <2>1. \A i \in 1 .. o : L[c + i] = 0
        <3>1. c = 2 + Extra(Len(f.payload)) + KeyBytes(f) + Len(f.payload)
            BY ONLY <1>4, FrameSizes, f \in Frame
        <3>2. \A i \in 1 .. o : L[2 + Extra(Len(f.payload)) + KeyBytes(f) + Len(f.payload) + i] = 0
            BY ONLY <1>2, <1>3, <1>5 DEF Shape
        <3> QED
            BY ONLY <3>1, <3>2
    <2> TAKE i \in a + c + 1 .. d
    <2>2. i - a - c \in 1 .. o /\ c + (i - a - c) \in 1 .. c + o /\ a + (c + (i - a - c)) = i
        BY <1>6
    <2>3. T[a + (c + (i - a - c))] = Byte(L[c + (i - a - c)]) /\ L[c + (i - a - c)] = 0
        BY ONLY <1>7, <2>1, <2>2
    <2> QED
        BY ONLY <2>2, <2>3
<1>11. a + c <= d /\ d - (a + c) = o
    <2>1. a \in Nat /\ c \in Nat /\ o \in Nat /\ d = a + (c + o)
        BY ONLY <1>4, <1>5, <1>6, a \in Nat
    <2> QED
        BY ONLY <2>1
<1> QED
    BY ONLY <1>4, <1>5, <1>9, <1>10, <1>11, c \in Nat DEF Zeroes, IsRead

\* websocket_frame after a fragment; and one round of the loop of try_ws_parse.
IsGathered(x, frame, r) ==
    /\ x \in Opened /\ x.payload = frame.payload \o r.payload
    /\ x.opcode = IF r.opcode = op_continuation_frame THEN frame.opcode ELSE r.opcode
\* A fragment is joined to what is gathered.
LEMMA GatheredIs ==
    ASSUME NEW frame \in Opened, NEW r, r.payload \in Payloads, r.opcode \in Opcodes,
           NEW x, x = Gathered(frame, r)
    PROVE  IsGathered(x, frame, r)
<1>1. PICK payload \in Payloads : payload = frame.payload \o r.payload
    <2>1. frame.payload \in Seq(0 .. Radix - 1) /\ r.payload \in Seq(0 .. Radix - 1)
        BY DEF Opened, Payloads
    <2>2. frame.payload \o r.payload \in Payloads
        BY <2>1 DEF Payloads
    <2> QED
        BY <2>2
<1>2. PICK opcode \in Opcodes :
          opcode = IF r.opcode # op_continuation_frame THEN r.opcode ELSE frame.opcode
    BY DEF Opened
<1>3. x = [frame EXCEPT !.payload = payload, !.opcode = opcode]
    BY <1>1, <1>2 DEF Gathered
<1> QED
    <2>1. x \in Opened /\ x.payload = payload /\ x.opcode = opcode
        BY <1>3 DEF Opened
    <2> QED
        BY <1>1, <1>2, <2>1 DEF IsGathered

Round(r, frame, w2, g2, bytes, w, g) ==
    /\ r = TryParseFrame(bytes) /\ r.ok /\ r.size > 0
    /\ frame = Gathered(w.frame, r)
    /\ ~w2.key /\ ~w2.accept /\ w2.frame = IF r.fin THEN NoFrame ELSE frame
    /\ g2 = IF r.fin THEN Append(g, <<frame.opcode, frame.payload>>) ELSE g
\* A round of the loop of try_ws_parse: a frame of the stream, or two of its
\* zeros.
LEMMA StreamFrame ==
    ASSUME NEW v, NEW s, NEW frames \in Seq(Frame), Aligned(frames, v.m),
           NEW buffer, NEW way, NEW list, NEW w, NEW g,
           Stream(v, s, frames, buffer, way, list, TRUE, w, g), w.frame \in Opened,
           ~w.key, ~w.accept,
           NEW r, NEW frame, NEW w2, NEW g2, Round(r, frame, w2, g2, Values(buffer), w, g)
    PROVE  /\ Stream(Read(v, r.size), s, frames, SubSeq(buffer, r.size + 1, Len(buffer)), way, list,
                     TRUE, w2, g2)
           /\ r.size \in Nat /\ r.size <= Len(buffer) /\ frame \in Opened
<1>r. /\ r = TryParseFrame(Values(buffer)) /\ r.ok /\ r.size > 0
      /\ frame = Gathered(w.frame, r)
      /\ ~w2.key /\ ~w2.accept /\ w2.frame = IF r.fin THEN NoFrame ELSE frame
      /\ g2 = IF r.fin THEN Append(g, <<frame.opcode, frame.payload>>) ELSE g
    BY DEF Round
<1>0. Texts(v, frames) /\ v.u /\ v.a >= v.B[0]
    BY DEF Stream, Content, Reader, ReadsFrames
<1>1. PICK k \in 0 .. v.m : Reads(v, frames, w, g, k)
    BY DEF Stream, Content, Reader, ReadsFrames
<1>s. Spread(Values(buffer), buffer, v)
    BY ValuesAre
<1>2. PICK D \in Seq(Nat) : D = Values(buffer)
    BY ONLY <1>s DEF Spread
<1>3. PICK a \in Nat : a = v.a
    BY ONLY <1>s DEF Spread
<1>4. PICK b \in Nat : b = v.b
    BY ONLY <1>s DEF Spread
<1>5. /\ Len(D) = b - a /\ Len(buffer) = b - a /\ b <= v.B[v.m] /\ v.B[0] <= a
      /\ \A i \in 1 .. b - a : D[i] = v.T[a + i].value
    <2>1. /\ Len(D) = v.b - v.a /\ Len(buffer) = v.b - v.a /\ v.b <= v.B[v.m] /\ v.B[0] <= v.a
          /\ \A i \in 1 .. v.b - v.a : D[i] = v.T[v.a + i].value
        <3>1. Spread(D, buffer, v)
            BY ONLY <1>s, <1>2
        <3> QED
            BY ONLY <3>1 DEF Spread
    <2> QED
        BY ONLY <1>3, <1>4, <2>1
<1>6. PICK m \in Nat : m = v.m /\ m <= Len(frames) /\ k \in 0 .. m
    BY <1>0, TextsRise
<1>7. PICK T : T = v.T
    OBVIOUS
<1>8. PICK d \in Nat : d = v.B[k]
    BY <1>0, TextsRise
<1>9. /\ a <= d /\ Zeroes(T, a, d) /\ g = Joined(frames)[k].done
      /\ w.frame.payload = Joined(frames)[k].payload /\ w.frame.opcode = Joined(frames)[k].opcode
    BY ONLY <1>1, <1>3, <1>7, <1>8 DEF Reads
<1>10. (d - a) % 2 = Behind(frames, k) % 2 /\ \A i \in a + 1 .. d : T[i] = Byte(0)
    BY ONLY <1>1, <1>3, <1>8, <1>9 DEF Zeroes, Reads
<1>11. r = TryParseFrame(D) /\ k \in 0 .. Len(frames)
    BY <1>r, <1>2, <1>6
<1>12. Joined(frames)[k] \in Joinable
    BY <1>11, JoinedIs
<1>13. \A i \in 1 .. b - a : D[i] = T[a + i].value
    BY ONLY <1>5, <1>7
<1> DEFINE Done(n) ==
        /\ r.size \in Nat /\ r.size <= Len(buffer) /\ frame \in Opened
        /\ n \in 0 .. m /\ v.B[n] \in Nat /\ a + r.size <= v.B[n] /\ Zeroes(T, a + r.size, v.B[n])
        /\ (v.B[n] - (a + r.size)) % 2 = Behind(frames, n) % 2
        /\ g2 = Joined(frames)[n].done
        /\ w2.frame.payload = Joined(frames)[n].payload
        /\ w2.frame.opcode = Joined(frames)[n].opcode
<1>14. ASSUME a < d PROVE \E n : Done(n)
    <2>0. a + 2 <= d
        <3>1. CASE k = 0
            <4>1. (d - a) % 2 = 0
                BY ONLY <1>10, <3>1 DEF Behind
            <4> QED
                BY <1>14, <4>1
        <3>2. CASE k # 0 /\ k < m
            <4>1. k \in 1 .. Len(frames) /\ k \in 1 .. m - 1
                BY <1>6, <3>2
            <4>2. PICK f \in Frame : f = frames[k]
                BY <4>1, ElementOfSeq
            <4>3. f.mask => Len(f.payload) % 2 = 0
                BY ONLY <1>6, <4>1, <4>2, Aligned(frames, v.m) DEF Aligned
            <4>4. Zeros(f) % 2 = 0
                BY <4>3, FrameSizes
            <4>5. (d - a) % 2 = 0
                BY ONLY <1>10, <3>2, <4>2, <4>4 DEF Behind
            <4> QED
                BY <1>14, <4>5
        <3>3. CASE k = m
            <4>1. b <= d
                BY ONLY <1>5, <1>6, <1>8, <3>3
            <4>2. Len(D) <= d - a /\ Len(D) \in Nat
                BY <1>5, <4>1
            <4>3. Len(D) < 2 => ~r.ok
                BY ONLY <1>11 DEF TryParseFrame, NotYet
            <4> QED
                BY <1>r, <1>14, <4>2, <4>3
        <3> QED
            BY <1>6, <3>1, <3>2, <3>3
    <2>1. \A i \in 1 .. Len(D) : i <= 2 => D[i] = 0
        <3> SUFFICES ASSUME NEW i \in 1 .. Len(D), i <= 2 PROVE D[i] = 0
            OBVIOUS
        <3>2. i \in 1 .. b - a /\ a + i \in a + 1 .. d
            BY <1>5, <2>0
        <3>3. D[i] = T[a + i].value /\ T[a + i] = Byte(0)
            BY ONLY <1>10, <1>13, <3>2
        <3> QED
            BY ONLY <3>3 DEF Byte
    <2>2. /\ Len(D) >= 2 /\ r.size = 2 /\ r.fin = FALSE /\ r.opcode = op_continuation_frame
          /\ r.payload = <<>>
        BY <1>r, <1>11, <2>1, ZerosRead
    <2>3. r.payload \in Payloads /\ r.opcode \in Opcodes
        BY <2>2 DEF Payloads, Opcodes, op_continuation_frame, op_handshake_req, op_handshake_ack
    <2>4. /\ frame \in Opened /\ frame.payload = w.frame.payload \o r.payload
          /\ frame.opcode = w.frame.opcode
        <3>1. /\ frame \in Opened /\ frame.payload = w.frame.payload \o r.payload
              /\ frame.opcode = IF r.opcode = op_continuation_frame THEN w.frame.opcode ELSE r.opcode
            <4>1. IsGathered(frame, w.frame, r)
                BY <1>r, <2>3, GatheredIs
            <4> QED
                BY ONLY <4>1 DEF IsGathered
        <3> QED
            BY ONLY <2>2, <3>1
    <2>5. w.frame.payload \o <<>> = w.frame.payload
        <3>1. w.frame.payload \in Seq(0 .. Radix - 1)
            BY DEF Opened, Payloads
        <3> QED
            BY <3>1
    <2>6. /\ w2.frame.payload = Joined(frames)[k].payload
          /\ w2.frame.opcode = Joined(frames)[k].opcode /\ g2 = Joined(frames)[k].done
        <3>1. w2.frame = frame /\ g2 = g
            BY <1>r, <2>2
        <3> QED
            BY ONLY <1>9, <2>2, <2>4, <2>5, <3>1
    <2>7. /\ a + 2 <= d /\ (d - (a + 2)) % 2 = Behind(frames, k) % 2
          /\ \A i \in a + 2 + 1 .. d : T[i] = Byte(0)
        <3>1. (d - (a + 2)) % 2 = (d - a) % 2
            BY <2>0
        <3>2. \A i \in a + 2 + 1 .. d : i \in a + 1 .. d
            OBVIOUS
        <3> QED
            BY ONLY <1>10, <2>0, <3>1, <3>2
    <2>8. Zeroes(T, a + 2, d)
        BY ONLY <2>7 DEF Zeroes
    <2>9. 2 \in Nat /\ 2 <= Len(buffer)
        BY <1>5, <2>2
    <2>10. Done(k)
        BY ONLY <1>6, <1>8, <2>2, <2>4, <2>6, <2>7, <2>8, <2>9, d \in Nat
    <2> QED
        BY <2>10
<1>15. ASSUME ~(a < d) PROVE \E n : Done(n)
    <2>1. a = d
        BY <1>9, <1>15
    <2>2. k < m
        <3>1. \A i \in 0 .. v.m : /\ v.B[i] \in Nat /\ v.B[i] <= v.B[v.m] /\ v.B[0] <= v.B[i]
                                  /\ i < v.m => v.B[i] < v.B[v.m]
            BY <1>0, TextsRise
        <3>2. ASSUME k = m PROVE FALSE
            <4>1. b <= d
                BY ONLY <1>5, <1>6, <1>8, <3>2
            <4>2. Len(D) = 0
                BY <1>5, <2>1, <4>1
            <4>3. ~r.ok
                BY ONLY <1>11, <4>2 DEF TryParseFrame, NotYet
            <4> QED
                BY <1>r, <4>3
        <3> QED
            BY <1>6, <3>2
    <2>3. PICK n \in 1 .. m : n = k + 1 /\ n - 1 = k
        BY <1>6, <2>2
    <2>4. PICK f \in Frame : f = frames[n]
        <3>1. n \in 1 .. Len(frames)
            BY <1>6
        <3> QED
            BY <3>1, ElementOfSeq
    <2>5. PICK e \in Nat : e = v.B[n]
        <3>1. n \in 0 .. v.m
            BY <1>6
        <3> QED
            BY <1>0, <3>1, TextsRise
    <2>6. TextAt(T, a, e, f)
        BY ONLY <1>0, <1>6, <1>7, <1>8, <2>1, <2>3, <2>4, <2>5 DEF Texts
    <2>7. Shifted(Len(f.payload), 8)[8] = 0
        <3>1. n \in 1 .. Len(frames)
            BY <1>6
        <3> QED
            BY ONLY <2>4, <3>1, Aligned(frames, v.m) DEF Aligned
    <2>8. /\ r.size = Core(f) /\ Core(f) \in Nat /\ Len(D) >= Core(f)
          /\ r.fin = f.fin /\ r.opcode = f.opcode /\ r.payload = f.payload
          /\ a + Core(f) <= e /\ Zeroes(T, a + Core(f), e)
          /\ (e - (a + Core(f))) % 2 = Behind(frames, n) % 2
        <3>0. Behind(frames, n) = Zeros(f)
            BY ONLY <2>3, <2>4, m \in Nat DEF Behind
        <3>1. OfText(D, T, a, b)
            BY ONLY <1>13 DEF OfText
        <3>2. IsRead(r, f, D, T, a, e)
            BY <1>r, <1>5, <1>11, <2>6, <2>7, <3>1, TextIsRead
        <3> QED
            BY ONLY <3>0, <3>2 DEF IsRead
    <2>9. f.payload \in Payloads /\ f.opcode \in Opcodes /\ f.fin \in BOOLEAN
        BY DEF Frame, Payloads, Opcodes
    <2>10. /\ frame \in Opened /\ frame.payload = w.frame.payload \o f.payload
           /\ frame.opcode = IF f.opcode = op_continuation_frame THEN w.frame.opcode ELSE f.opcode
        <3>1. r.payload \in Payloads /\ r.opcode \in Opcodes
            BY ONLY <2>8, <2>9
        <3>2. /\ frame \in Opened /\ frame.payload = w.frame.payload \o r.payload
              /\ frame.opcode = IF r.opcode = op_continuation_frame THEN w.frame.opcode ELSE r.opcode
            <4>1. IsGathered(frame, w.frame, r)
                BY <1>r, <3>1, GatheredIs
            <4> QED
                BY ONLY <4>1 DEF IsGathered
        <3> QED
            BY ONLY <2>8, <3>2
    <2>11. PICK acc \in Joinable : acc = Joined(frames)[k]
        BY <1>12
    <2>12. frame.payload = Under(acc, f) /\ frame.opcode = Code(acc, f)
        BY ONLY <1>9, <2>10, <2>11 DEF Under, Code
    <2>13. Joined(frames)[n] = With(acc, f)
        <3>1. n \in 1 .. Len(frames)
            BY <1>6
        <3>2. Joined(frames)[n] = With(Joined(frames)[n - 1], frames[n])
            BY <3>1, JoinedIs
        <3> QED
            BY ONLY <2>3, <2>4, <2>11, <3>2
    <2>14. /\ g2 = With(acc, f).done /\ w2.frame.payload = With(acc, f).payload
           /\ w2.frame.opcode = With(acc, f).opcode
        <3>1. CASE f.fin
            <4>1. w2.frame = NoFrame /\ g2 = Append(g, <<frame.opcode, frame.payload>>)
                BY <1>r, <2>8, <3>1
            <4>2. /\ With(acc, f).done = Append(acc.done, <<Code(acc, f), Under(acc, f)>>)
                  /\ With(acc, f).payload = <<>> /\ With(acc, f).opcode = op_unknow
                BY <3>1, WithTypes
            <4>3. NoFrame.payload = <<>> /\ NoFrame.opcode = op_unknow
                BY DEF NoFrame
            <4> QED
                BY ONLY <1>9, <2>11, <2>12, <4>1, <4>2, <4>3
        <3>2. CASE ~f.fin
            <4>1. w2.frame = frame /\ g2 = g
                BY <1>r, <2>8, <3>2
            <4>2. /\ With(acc, f).done = acc.done /\ With(acc, f).payload = Under(acc, f)
                  /\ With(acc, f).opcode = Code(acc, f)
                BY <3>2, WithTypes
            <4> QED
                BY ONLY <1>9, <2>11, <2>12, <4>1, <4>2
        <3> QED
            BY <3>1, <3>2
    <2>15. n \in 0 .. m /\ Core(f) <= Len(buffer)
        BY ONLY <1>5, <2>8, n \in 1 .. m, m \in Nat
    <2>16. Done(n)
        BY ONLY <2>5, <2>8, <2>10, <2>13, <2>14, <2>15, e \in Nat
    <2> QED
        BY <2>16
<1>16. PICK n : Done(n)
    BY <1>14, <1>15
<1>17. PICK z : z = Read(v, r.size)
    OBVIOUS
<1>18. z.T = T /\ z.B = v.B /\ z.u = v.u /\ z.m = m /\ z.a = a + r.size
    <2>1. r.size \in Nat
        BY <1>16
    <2>2. z.T = v.T /\ z.B = v.B /\ z.u = v.u /\ z.m = v.m /\ z.a = v.a + r.size
        BY <1>17, <2>1, ReadIs
    <2> QED
        BY ONLY <1>3, <1>6, <1>7, <2>2
<1>19. Reader(z, frames, TRUE, w2, g2)
    <2>1. Reads(z, frames, w2, g2, n)
        BY ONLY <1>16, <1>18, <1>r DEF Reads
    <2>2. z.u /\ z.a >= z.B[0]
        <3>1. PICK c \in Nat : c = v.B[0]
            BY <1>0, TextsRise
        <3>2. PICK o \in Nat : o = r.size
            BY <1>16
        <3>3. c <= a + o
            BY <1>5, <3>1
        <3> QED
            BY ONLY <1>0, <1>18, <3>1, <3>2, <3>3
    <2> QED
        BY ONLY <1>16, <1>18, <2>1, <2>2 DEF Reader, ReadsFrames
<1>20. PICK o \in Nat : o = r.size /\ o <= Len(buffer)
    BY <1>16
<1>21. Stream(Read(v, o), s, frames, SubSeq(buffer, o + 1, Len(buffer)), way, list, TRUE, w2, g2)
    BY <1>17, <1>19, <1>20, StreamParsed
<1> QED
    BY <1>16, <1>20, <1>21
=============================================================================

--------------------------- MODULE WebSocketProofs ---------------------------
(***************************************************************************)
(* For any frames of the peer and any length of the request: the handshake *)
(* is decided exactly, what the peer masks as RFC 6455 lays it down Cipher *)
(* gives back, the automaton for UTF-8 accepts the well-formed texts and   *)
(* no other, the frames of the peer are handled one by one, in order, none *)
(* left behind, however TCP cuts their bytes, and it can read the answers. *)
(***************************************************************************)
EXTENDS WebSocket, CipherProofs, SequenceTheorems, FiniteSetTheorems, WellFoundedInduction

Byte == 0..255

(***************************************************************************)
(* The exclusive or of bytes                                               *)
(***************************************************************************)
LEMMA XorByte ==
    ASSUME NEW a \in Byte, NEW b \in Byte
    PROVE  Xor(a, b) \in Byte
<1>1. ASSUME NEW k \in Nat \ {0} PROVE XorBit(a, b, k) = 0 \/ XorBit(a, b, k) = k
    <2>1. (a \div k) \in Nat /\ (b \div k) \in Nat
        BY DEF Byte
    <2>2. ((a \div k) + (b \div k)) % 2 \in {0, 1}
        BY <2>1
    <2> QED
        BY <2>2 DEF XorBit
<1>2. /\ XorBit(a, b, 1) \in 0..1 /\ XorBit(a, b, 2) \in 0..2
      /\ XorBit(a, b, 4) \in 0..4 /\ XorBit(a, b, 8) \in 0..8
      /\ XorBit(a, b, 16) \in 0..16 /\ XorBit(a, b, 32) \in 0..32
      /\ XorBit(a, b, 64) \in 0..64 /\ XorBit(a, b, 128) \in 0..128
    BY <1>1
<1>x0. PICK x0 \in 0..1 : x0 = XorBit(a, b, 1)
    BY <1>2
<1>x1. PICK x1 \in 0..2 : x1 = XorBit(a, b, 2)
    BY <1>2
<1>x2. PICK x2 \in 0..4 : x2 = XorBit(a, b, 4)
    BY <1>2
<1>x3. PICK x3 \in 0..8 : x3 = XorBit(a, b, 8)
    BY <1>2
<1>x4. PICK x4 \in 0..16 : x4 = XorBit(a, b, 16)
    BY <1>2
<1>x5. PICK x5 \in 0..32 : x5 = XorBit(a, b, 32)
    BY <1>2
<1>x6. PICK x6 \in 0..64 : x6 = XorBit(a, b, 64)
    BY <1>2
<1>x7. PICK x7 \in 0..128 : x7 = XorBit(a, b, 128)
    BY <1>2
<1>3. x0 + x1 + x2 + x3 + x4 + x5 + x6 + x7 \in Byte
    BY DEF Byte
<1> QED
    BY <1>3, <1>x0, <1>x1, <1>x2, <1>x3, <1>x4, <1>x5, <1>x6, <1>x7 DEF Xor

\* The bits of a sum of powers of two.
LEMMA BitsOfSum ==
    ASSUME NEW x0 \in 0..1, NEW x1 \in 0..1, NEW x2 \in 0..1, NEW x3 \in 0..1,
           NEW x4 \in 0..1, NEW x5 \in 0..1, NEW x6 \in 0..1, NEW x7 \in 0..1, NEW x,
           x = 1 * x0 + 2 * x1 + 4 * x2 + 8 * x3 + 16 * x4 + 32 * x5 + 64 * x6 + 128 * x7
    PROVE  /\ x \in Byte
           /\ (x \div 1) % 2 = x0 /\ (x \div 2) % 2 = x1
           /\ (x \div 4) % 2 = x2 /\ (x \div 8) % 2 = x3
           /\ (x \div 16) % 2 = x4 /\ (x \div 32) % 2 = x5
           /\ (x \div 64) % 2 = x6 /\ (x \div 128) % 2 = x7
BY DEF Byte

LEMMA SumOfBits ==
    ASSUME NEW a \in Byte
    PROVE  a = 1 * ((a \div 1) % 2) + 2 * ((a \div 2) % 2) + 4 * ((a \div 4) % 2) + 8 * ((a \div 8) % 2)
               + 16 * ((a \div 16) % 2) + 32 * ((a \div 32) % 2) + 64 * ((a \div 64) % 2)
               + 128 * ((a \div 128) % 2)
BY DEF Byte

LEMMA XorTwice ==
    ASSUME NEW a \in Byte, NEW b \in Byte
    PROVE  Xor(Xor(a, b), b) = a
<1> DEFINE Bit(x, k) == ((x \div k) + (b \div k)) % 2
           X == Xor(a, b)
<1>1. /\ Bit(a, 1) \in 0..1 /\ Bit(a, 2) \in 0..1 /\ Bit(a, 4) \in 0..1 /\ Bit(a, 8) \in 0..1
      /\ Bit(a, 16) \in 0..1 /\ Bit(a, 32) \in 0..1 /\ Bit(a, 64) \in 0..1 /\ Bit(a, 128) \in 0..1
    BY DEF Byte
<1>2. X = 1 * Bit(a, 1) + 2 * Bit(a, 2) + 4 * Bit(a, 4) + 8 * Bit(a, 8)
          + 16 * Bit(a, 16) + 32 * Bit(a, 32) + 64 * Bit(a, 64) + 128 * Bit(a, 128)
    BY DEF Xor, XorBit
<1>3. Xor(X, b) = 1 * Bit(X, 1) + 2 * Bit(X, 2) + 4 * Bit(X, 4) + 8 * Bit(X, 8)
          + 16 * Bit(X, 16) + 32 * Bit(X, 32) + 64 * Bit(X, 64) + 128 * Bit(X, 128)
    BY DEF Xor, XorBit
<1>4. X \in Byte
    BY XorByte
<1> HIDE DEF X, Bit
<1>x0. PICK x0 \in 0..1 : x0 = Bit(a, 1)
    BY <1>1
<1>x1. PICK x1 \in 0..1 : x1 = Bit(a, 2)
    BY <1>1
<1>x2. PICK x2 \in 0..1 : x2 = Bit(a, 4)
    BY <1>1
<1>x3. PICK x3 \in 0..1 : x3 = Bit(a, 8)
    BY <1>1
<1>x4. PICK x4 \in 0..1 : x4 = Bit(a, 16)
    BY <1>1
<1>x5. PICK x5 \in 0..1 : x5 = Bit(a, 32)
    BY <1>1
<1>x6. PICK x6 \in 0..1 : x6 = Bit(a, 64)
    BY <1>1
<1>x7. PICK x7 \in 0..1 : x7 = Bit(a, 128)
    BY <1>1
<1>e. X = 1 * x0 + 2 * x1 + 4 * x2 + 8 * x3 + 16 * x4 + 32 * x5 + 64 * x6 + 128 * x7
    BY <1>2, <1>x0, <1>x1, <1>x2, <1>x3, <1>x4, <1>x5, <1>x6, <1>x7
<1>f. /\ (X \div 1) % 2 = x0 /\ (X \div 2) % 2 = x1
      /\ (X \div 4) % 2 = x2 /\ (X \div 8) % 2 = x3
      /\ (X \div 16) % 2 = x4 /\ (X \div 32) % 2 = x5
      /\ (X \div 64) % 2 = x6 /\ (X \div 128) % 2 = x7
    BY <1>e, BitsOfSum
<1>5. /\ (X \div 1) % 2 = Bit(a, 1) /\ (X \div 2) % 2 = Bit(a, 2)
      /\ (X \div 4) % 2 = Bit(a, 4) /\ (X \div 8) % 2 = Bit(a, 8)
      /\ (X \div 16) % 2 = Bit(a, 16) /\ (X \div 32) % 2 = Bit(a, 32)
      /\ (X \div 64) % 2 = Bit(a, 64) /\ (X \div 128) % 2 = Bit(a, 128)
    BY <1>f, <1>x0, <1>x1, <1>x2, <1>x3, <1>x4, <1>x5, <1>x6, <1>x7
<1>6. ASSUME NEW p \in Nat, NEW q \in Nat, NEW r \in Nat, p % 2 = (q + r) % 2
      PROVE  (p + r) % 2 = q % 2
    BY <1>6
<1>7. ASSUME NEW k \in {1, 2, 4, 8, 16, 32, 64, 128}, (X \div k) % 2 = Bit(a, k)
      PROVE  Bit(X, k) = (a \div k) % 2
    <2>1. (X \div k) \in Nat /\ (a \div k) \in Nat /\ (b \div k) \in Nat
        BY <1>4 DEF Byte
    <2> QED
        BY <1>6, <1>7, <2>1 DEF Bit
<1>8. /\ Bit(X, 1) = (a \div 1) % 2 /\ Bit(X, 2) = (a \div 2) % 2
      /\ Bit(X, 4) = (a \div 4) % 2 /\ Bit(X, 8) = (a \div 8) % 2
      /\ Bit(X, 16) = (a \div 16) % 2 /\ Bit(X, 32) = (a \div 32) % 2
      /\ Bit(X, 64) = (a \div 64) % 2 /\ Bit(X, 128) = (a \div 128) % 2
    BY <1>5, <1>7
<1>9. Xor(X, b) = a
    BY <1>3, <1>8, SumOfBits
<1> QED
    BY <1>9 DEF X

\* The payload as RFC 6455 (section 5.3) masks it.
Masked(payload, mask) ==
    [i \in 1..Len(payload) |-> Xor(payload[i], mask[1 + ((i - 1) % 4)])]

\* Whatever its length, and so whichever of its loops takes a byte, Cipher
\* gives back the payload that the peer has masked (cipher.go).
THEOREM UnmaskRestores ==
    ASSUME NEW payload \in Seq(Byte), NEW mask \in Seq(Byte), Len(mask) = 4
    PROVE  Unmask(Masked(payload, mask), mask) = payload
<1> DEFINE n == Len(payload)
           m == Masked(payload, mask)
<1>1. n \in Nat /\ payload \in [1..n -> Byte] /\ \A j \in 1..4 : mask[j] \in Byte
    <2>1. n \in Nat /\ payload \in [1..n -> Byte]
        OBVIOUS
    <2>2. \A j \in 1..4 : mask[j] \in Byte
        BY ElementOfSeq
    <2> QED
        BY <2>1, <2>2
<1>2. m = [i \in 1..n |-> Xor(payload[i], mask[1 + ((i - 1) % 4)])]
    BY DEF Masked
<1>3. ASSUME NEW i \in 1..n PROVE 1 + ((i - 1) % 4) \in 1..4
    BY <1>1
<1>4. m \in Seq(Byte) /\ Len(m) = n
    <2>1. m \in [1..n -> Byte]
        BY <1>1, <1>2, <1>3, XorByte
    <2> QED
        BY <1>1, <2>1
<1>5. ASSUME NEW i \in 1..n
      PROVE  Xor(m[i], mask[1 + KeyIndex(n, 0, i - 1)]) = payload[i]
    <2>1. KeyIndex(n, 0, i - 1) = (i - 1) % 4
        <3>1. n \in Nat /\ 0 \in Nat /\ i - 1 \in 0..(n - 1) /\ 0 + (i - 1) = i - 1
            BY <1>1
        <3> QED
            BY <3>1, CipherExact DEF KeyIsPositionModulo4
    <2>2. PICK j \in 1..4 : j = 1 + ((i - 1) % 4)
        BY <1>3
    <2>3. m[i] = Xor(payload[i], mask[j]) /\ payload[i] \in Byte /\ mask[j] \in Byte
        BY <1>1, <1>2, <2>2
    <2> QED
        BY <2>1, <2>2, <2>3, XorTwice
<1>6. Unmask(m, mask) = [i \in 1..n |-> Xor(m[i], mask[1 + KeyIndex(n, 0, i - 1)])]
    BY <1>4 DEF Unmask
<1> HIDE DEF m
<1>7. Unmask(m, mask) = [i \in 1..n |-> payload[i]]
    BY <1>5, <1>6
<1>8. payload = [i \in 1..n |-> payload[i]]
    BY <1>1
<1> QED
    BY <1>7, <1>8 DEF m

(***************************************************************************)
(* Induction over the natural numbers, from the library's theorem that a   *)
(* set of them has a least element                                         *)
(***************************************************************************)
Less == {ss \in Nat \X Nat : ss[1] < ss[2]}

LEMMA LeastOf ==
    ASSUME NEW T, T \subseteq Nat, T # {}
    PROVE  \E x \in T : \A y \in T : ~(y < x)
<1>1. IsWellFoundedOn({ss \in Nat \X Nat : ss[1] < ss[2]}, Nat)
    BY NatLessThanWellFounded DEF OpToRel
<1>2. IsWellFoundedOn(Less, Nat)
    BY <1>1 DEF Less
<1>3. PICK x \in T : \A y \in T : ~(<<y, x>> \in Less)
    BY <1>2, WFMin
<1>4. \A u, v \in Nat : u < v => <<u, v>> \in Less
    BY DEF Less
<1> QED
    BY <1>3, <1>4

LEMMA SetInduction ==
    ASSUME NEW T, T \subseteq Nat, 0 \in T, \A n \in T : n + 1 \in T
    PROVE  \A n \in Nat : n \in T
<1> SUFFICES ASSUME Nat \ T # {} PROVE FALSE
    OBVIOUS
<1>1. PICK x \in Nat \ T : \A y \in Nat \ T : ~(y < x)
    BY LeastOf
<1>2. x # 0 /\ x - 1 \in Nat /\ x - 1 < x /\ (x - 1) + 1 = x
    BY <1>1
<1>3. x - 1 \in T
    BY <1>1, <1>2
<1> QED
    BY <1>1, <1>2, <1>3

(***************************************************************************)
(* The automaton for UTF-8                                                 *)
(***************************************************************************)
States == {0, 12, 24, 36, 48, 60, 72, 84, 96}

\* Which state a byte leads to.
LEMMA DecodeTable ==
    ASSUME NEW s \in States, NEW b \in Byte, NEW d, d = Decode(s, b)
    PROVE  /\ d \in States
           /\ d = 0  <=> (s = 0 /\ b < 128) \/ (s = 24 /\ b \in 128..191)
           /\ d = 24 <=> \/ s = 0 /\ b \in 194..223
                         \/ s = 36 /\ b \in 128..191
                         \/ s = 48 /\ b \in 160..191
                         \/ s = 60 /\ b \in 128..159
           /\ d = 36 <=> \/ s = 0 /\ b \in 225..239 /\ b # 237
                         \/ s = 72 /\ b \in 144..191
                         \/ s = 84 /\ b \in 128..191
                         \/ s = 96 /\ b \in 128..143
           /\ d = 48 <=> s = 0 /\ b = 224
           /\ d = 60 <=> s = 0 /\ b = 237
           /\ d = 72 <=> s = 0 /\ b = 240
           /\ d = 84 <=> s = 0 /\ b \in 241..243
           /\ d = 96 <=> s = 0 /\ b = 244
<1>1. PICK t \in 0..11 :
          /\ t = ByteClass(b)
          /\ t = 0 <=> b < 128
          /\ t = 1 <=> b \in 128..143
          /\ t = 9 <=> b \in 144..159
          /\ t = 7 <=> b \in 160..191
          /\ t = 2 <=> b \in 194..223
          /\ t = 10 <=> b = 224
          /\ t = 3 <=> b \in 225..239 /\ b # 237
          /\ t = 4 <=> b = 237
          /\ t = 11 <=> b = 240
          /\ t = 6 <=> b \in 241..243
          /\ t = 5 <=> b = 244
    BY DEF ByteClass, Byte
<1>3. /\ b \in 128..191 <=> t \in {1, 7, 9}
      /\ b \in 128..159 <=> t \in {1, 9}
      /\ b \in 144..191 <=> t \in {7, 9}
    BY <1>1 DEF Byte
<1>4. d = Utf8Table(s, t)
    BY <1>1 DEF Decode
<1>5. /\ d \in States
      /\ d = 0  <=> (s = 0 /\ t = 0) \/ (s = 24 /\ t \in {1, 7, 9})
      /\ d = 24 <=> (s = 0 /\ t = 2) \/ (s = 36 /\ t \in {1, 7, 9}) \/ (s = 48 /\ t = 7) \/ (s = 60 /\ t \in {1, 9})
      /\ d = 36 <=> (s = 0 /\ t = 3) \/ (s = 72 /\ t \in {7, 9}) \/ (s = 84 /\ t \in {1, 7, 9}) \/ (s = 96 /\ t = 1)
      /\ d = 48 <=> s = 0 /\ t = 10
      /\ d = 60 <=> s = 0 /\ t = 4
      /\ d = 72 <=> s = 0 /\ t = 11
      /\ d = 84 <=> s = 0 /\ t = 6
      /\ d = 96 <=> s = 0 /\ t = 5
    <2>1. /\ <<s, t>> \in {<<0, 0>>, <<24, 1>>, <<24, 7>>, <<24, 9>>}
                 <=> (s = 0 /\ t = 0) \/ (s = 24 /\ t \in {1, 7, 9})
          /\ <<s, t>> \in {<<0, 2>>, <<36, 1>>, <<36, 7>>, <<36, 9>>, <<48, 7>>, <<60, 1>>, <<60, 9>>}
                 <=> (s = 0 /\ t = 2) \/ (s = 36 /\ t \in {1, 7, 9}) \/ (s = 48 /\ t = 7) \/ (s = 60 /\ t \in {1, 9})
          /\ <<s, t>> \in {<<0, 3>>, <<72, 7>>, <<72, 9>>, <<84, 1>>, <<84, 7>>, <<84, 9>>, <<96, 1>>}
                 <=> (s = 0 /\ t = 3) \/ (s = 72 /\ t \in {7, 9}) \/ (s = 84 /\ t \in {1, 7, 9}) \/ (s = 96 /\ t = 1)
          /\ <<s, t>> = <<0, 10>> <=> s = 0 /\ t = 10
          /\ <<s, t>> = <<0, 4>> <=> s = 0 /\ t = 4
          /\ <<s, t>> = <<0, 11>> <=> s = 0 /\ t = 11
          /\ <<s, t>> = <<0, 6>> <=> s = 0 /\ t = 6
          /\ <<s, t>> = <<0, 5>> <=> s = 0 /\ t = 5
        OBVIOUS
    <2> QED
        BY <1>4, <2>1 DEF Utf8Table, Utf8Accept, Utf8Reject, States
<1> QED
    BY <1>1, <1>3, <1>5

\* The states are what the definition says: the recursion ends.
StateAt(g, p, k) == IF k = 0 THEN Utf8Accept ELSE Decode(g[k - 1], p[k])

LEMMA StatesExist ==
    ASSUME NEW p, NEW n \in Nat
    PROVE  \E g : g = [k \in 0..n |-> StateAt(g, p, k)]
<1>1. PICK T : T = {m \in Nat : \E g : g = [k \in 0..m |-> StateAt(g, p, k)]}
    OBVIOUS
<1>2. 0 \in T
    <2>1. PICK g : g = [k \in 0..0 |-> Utf8Accept]
        OBVIOUS
    <2>2. \A k \in 0..0 : k = 0
        OBVIOUS
    <2>3. \A k \in 0..0 : StateAt(g, p, k) = Utf8Accept
        BY <2>2 DEF StateAt
    <2>4. g = [k \in 0..0 |-> StateAt(g, p, k)]
        BY <2>1, <2>3
    <2> QED
        BY <1>1, <2>4
<1>3. ASSUME NEW m \in T PROVE m + 1 \in T
    <2>1. m \in Nat /\ m + 1 \in Nat
        BY <1>1
    <2>2. PICK g : g = [k \in 0..m |-> StateAt(g, p, k)]
        BY <1>1
    <2>3. PICK h : h = [k \in 0..(m + 1) |-> IF k = m + 1 THEN StateAt(g, p, m + 1) ELSE g[k]]
        OBVIOUS
    <2>4. ASSUME NEW k \in 0..(m + 1) PROVE h[k] = StateAt(h, p, k)
        <3>1. k # 0 => k - 1 \in 0..(m + 1) /\ k - 1 # m + 1
            BY <2>1
        <3>2. k # 0 => h[k - 1] = g[k - 1]
            BY <2>3, <3>1
        <3>3. StateAt(h, p, k) = StateAt(g, p, k)
            BY <3>2 DEF StateAt
        <3>4. k # m + 1 => k \in 0..m
            BY <2>1
        <3>5. h[k] = IF k = m + 1 THEN StateAt(g, p, m + 1) ELSE g[k]
            BY <2>3
        <3>6. k # m + 1 => g[k] = StateAt(g, p, k)
            BY <2>2, <3>4
        <3> QED
            BY <3>3, <3>5, <3>6
    <2>5. h = [k \in 0..(m + 1) |-> h[k]]
        BY <2>3
    <2>6. h = [k \in 0..(m + 1) |-> StateAt(h, p, k)]
        BY <2>4, <2>5
    <2> QED
        BY <1>1, <2>1, <2>6
<1>4. T \subseteq Nat
    BY <1>1
<1>5. n \in T
    BY <1>2, <1>3, <1>4, SetInduction
<1> QED
    BY <1>1, <1>5

LEMMA StatesFollow ==
    ASSUME NEW p \in Seq(Byte), NEW st, st = Utf8States(p)
    PROVE  st = [k \in 0..Len(p) |-> StateAt(st, p, k)]
<1>1. Len(p) \in Nat
    BY LenProperties
<1>2. \E g : g = [k \in 0..Len(p) |-> StateAt(g, p, k)]
    BY <1>1, StatesExist
<1>3. st = CHOOSE g : g = [k \in 0..Len(p) |-> StateAt(g, p, k)]
    BY DEF Utf8States, StateAt
<1> QED
    BY <1>2, <1>3

\* The same for the reference.
WholeAt(g, p, k) ==
    k = 0 \/ \E n \in 1..4 : n <= k /\ Character(SubSeq(p, k - n + 1, k)) /\ g[k - n]

LEMMA WholeAtSame ==
    ASSUME NEW p, NEW k \in Nat, NEW g, NEW h, \A i \in 0..(k - 1) : h[i] = g[i]
    PROVE  WholeAt(h, p, k) = WholeAt(g, p, k)
<1>1. ASSUME NEW n \in 1..4, n <= k PROVE h[k - n] = g[k - n]
    <2>1. k - n \in 0..(k - 1)
        BY <1>1
    <2> QED
        BY <2>1
<1> QED
    BY <1>1, Zenon DEF WholeAt

LEMMA WholeExists ==
    ASSUME NEW p, NEW n \in Nat
    PROVE  \E g : g = [k \in 0..n |-> WholeAt(g, p, k)]
<1>1. PICK T : T = {m \in Nat : \E g : g = [k \in 0..m |-> WholeAt(g, p, k)]}
    OBVIOUS
<1>2. 0 \in T
    <2>1. PICK g : g = [k \in 0..0 |-> TRUE]
        OBVIOUS
    <2>2. \A k \in 0..0 : k = 0
        OBVIOUS
    <2>3. \A k \in 0..0 : WholeAt(g, p, k) = TRUE
        BY <2>2 DEF WholeAt
    <2>4. g = [k \in 0..0 |-> WholeAt(g, p, k)]
        BY <2>1, <2>3
    <2> QED
        BY <1>1, <2>4
<1>3. ASSUME NEW m \in T PROVE m + 1 \in T
    <2>1. m \in Nat /\ m + 1 \in Nat
        BY <1>1
    <2>2. PICK g : g = [k \in 0..m |-> WholeAt(g, p, k)]
        BY <1>1
    <2>3. PICK h : h = [k \in 0..(m + 1) |-> IF k = m + 1 THEN WholeAt(g, p, m + 1) ELSE g[k]]
        OBVIOUS
    <2>4. ASSUME NEW k \in 0..(m + 1) PROVE h[k] = WholeAt(h, p, k)
        <3>1. ASSUME NEW i \in 0..(k - 1) PROVE h[i] = g[i]
            <4>1. i \in 0..(m + 1) /\ i # m + 1
                BY <2>1
            <4> QED
                BY <2>3, <4>1
        <3>2. k \in Nat
            OBVIOUS
        <3>3. WholeAt(h, p, k) = WholeAt(g, p, k)
            BY <3>1, <3>2, WholeAtSame
        <3>4. k # m + 1 => k \in 0..m
            BY <2>1
        <3>5. h[k] = IF k = m + 1 THEN WholeAt(g, p, m + 1) ELSE g[k]
            BY <2>3
        <3>6. k # m + 1 => g[k] = WholeAt(g, p, k)
            BY <2>2, <3>4
        <3> QED
            BY <3>3, <3>5, <3>6
    <2>5. h = [k \in 0..(m + 1) |-> h[k]]
        BY <2>3
    <2>6. h = [k \in 0..(m + 1) |-> WholeAt(h, p, k)]
        BY <2>4, <2>5
    <2> QED
        BY <1>1, <2>1, <2>6
<1>4. T \subseteq Nat
    BY <1>1
<1>5. n \in T
    BY <1>2, <1>3, <1>4, SetInduction
<1> QED
    BY <1>1, <1>5

LEMMA WholeFollows ==
    ASSUME NEW p \in Seq(Byte), NEW w, w = WholeUpTo(p)
    PROVE  w = [k \in 0..Len(p) |-> WholeAt(w, p, k)]
<1>1. Len(p) \in Nat
    BY LenProperties
<1>2. \E g : g = [k \in 0..Len(p) |-> WholeAt(g, p, k)]
    BY <1>1, WholeExists
<1>3. w = CHOOSE g : g = [k \in 0..Len(p) |-> WholeAt(g, p, k)]
    BY DEF WholeUpTo, WholeAt
<1> QED
    BY <1>2, <1>3

\* The first two bytes of a character of three bytes, and of one of four.
Begin3(a, b) == a \in 224..239 /\ b \in 128..191 /\ (a = 224 => b >= 160) /\ (a = 237 => b < 160)
Begin4(a, b) == a \in 240..244 /\ b \in 128..191 /\ (a = 240 => b >= 144) /\ (a = 244 => b < 144)

LEMMA CharacterBytes ==
    ASSUME NEW c \in Seq(Byte)
    PROVE  /\ Len(c) = 1 => (Character(c) <=> c[1] < 128)
           /\ Len(c) = 2 => (Character(c) <=> c[1] \in 194..223 /\ c[2] \in 128..191)
<1>1. CASE Len(c) = 1
    BY <1>1 DEF Character
<1>2. CASE Len(c) = 2
    <2>1. \A i \in 2..2 : i = 2
        OBVIOUS
    <2>2. (\A i \in 2..Len(c) : c[i] \in 128..191) <=> c[2] \in 128..191
        BY <1>2, <2>1
    <2> QED
        BY <1>2, <2>2 DEF Character
<1> QED
    BY <1>1, <1>2

LEMMA CharacterBytes3 ==
    ASSUME NEW c \in Seq(Byte), Len(c) = 3
    PROVE  Character(c) <=> Begin3(c[1], c[2]) /\ c[3] \in 128..191
<1>1. \A i \in 2..3 : i = 2 \/ i = 3
    OBVIOUS
<1>2. (\A i \in 2..Len(c) : c[i] \in 128..191) <=> c[2] \in 128..191 /\ c[3] \in 128..191
    BY <1>1
<1> QED
    BY <1>2 DEF Character, Begin3

LEMMA CharacterBytes4 ==
    ASSUME NEW c \in Seq(Byte), Len(c) = 4
    PROVE  Character(c) <=> Begin4(c[1], c[2]) /\ c[3] \in 128..191 /\ c[4] \in 128..191
<1>1. \A i \in 2..4 : i = 2 \/ i = 3 \/ i = 4
    OBVIOUS
<1>2. (\A i \in 2..Len(c) : c[i] \in 128..191)
          <=> c[2] \in 128..191 /\ c[3] \in 128..191 /\ c[4] \in 128..191
    BY <1>1
<1> QED
    BY <1>2 DEF Character, Begin4

\* The last n bytes of a prefix.
LEMMA LastBytes ==
    ASSUME NEW p \in Seq(Byte), NEW j \in 1..Len(p), NEW n \in 1..4, n <= j,
           NEW c, c = SubSeq(p, j - n + 1, j)
    PROVE  c \in Seq(Byte) /\ Len(c) = n /\ \A i \in 1..n : c[i] = p[(j - n) + i]
<1>1. Len(p) \in Nat
    BY LenProperties
<1>2. PICK lo \in Int : lo = j - n + 1 /\ 1 <= lo /\ lo <= j
    OBVIOUS
<1>3. \A i \in lo..j : p[i] \in Byte
    <2>1. \A i \in lo..j : i \in 1..Len(p)
        BY <1>1, <1>2
    <2> QED
        BY <2>1, ElementOfSeq
<1>4. /\ SubSeq(p, lo, j) \in Seq(Byte)
      /\ Len(SubSeq(p, lo, j)) = IF lo <= j THEN j - lo + 1 ELSE 0
      /\ \A i \in 1..(j - lo + 1) : SubSeq(p, lo, j)[i] = p[lo + i - 1]
    BY <1>3, SubSeqProperties
<1>5. j - lo + 1 = n /\ \A i \in 1..n : lo + i - 1 = (j - n) + i
    BY <1>2
<1> QED
    BY <1>2, <1>4, <1>5

\* Where characters end, as a set: at byte j if the last one to four bytes are a
\* character and one ends before them.
EndsAt(G, p, j) ==
    \/ j - 1 \in G /\ p[j] < 128
    \/ j - 2 \in G /\ p[j - 1] \in 194..223 /\ p[j] \in 128..191
    \/ j - 3 \in G /\ Begin3(p[j - 2], p[j - 1]) /\ p[j] \in 128..191
    \/ j - 4 \in G /\ Begin4(p[j - 3], p[j - 2]) /\ p[j - 1] \in 128..191 /\ p[j] \in 128..191

LEMMA WholeEnds ==
    ASSUME NEW p \in Seq(Byte), NEW w, w = WholeUpTo(p), NEW G, G = {k \in 0..Len(p) : w[k]}
    PROVE  /\ G \subseteq 0..Len(p) /\ 0 \in G
           /\ \A k \in 0..Len(p) : w[k] <=> k \in G
           /\ \A j \in 1..Len(p) : j \in G <=> EndsAt(G, p, j)
<1>1. Len(p) \in Nat
    BY LenProperties
<1>2. \A k \in 0..Len(p) : w[k] = WholeAt(w, p, k)
    BY WholeFollows
<1>3. \A k \in 0..Len(p) : w[k] <=> k \in G
    OBVIOUS
<1>4. 0 \in 0..Len(p) /\ WholeAt(w, p, 0)
    BY <1>1 DEF WholeAt
<1>5. ASSUME NEW j \in 1..Len(p)
      PROVE  j \in G <=> EndsAt(G, p, j)
    <2>1. j \in 0..Len(p) /\ j # 0
        BY <1>1
    <2>2. \A n \in 1..4 : n <= j <=> j - n \in 0..Len(p)
        BY <1>1
    <2>3. j \in G <=> \E n \in 1..4 : n <= j /\ Character(SubSeq(p, j - n + 1, j)) /\ w[j - n]
        BY <1>2, <1>3, <2>1 DEF WholeAt
    <2>4. j \in G <=> \E n \in 1..4 : j - n \in G /\ Character(SubSeq(p, j - n + 1, j))
        <3>1. ASSUME NEW n \in 1..4 PROVE (n <= j /\ w[j - n]) <=> j - n \in G
            BY <1>3, <2>2
        <3> QED
            BY <2>3, <3>1
    <2>5. \A n \in 1..4 : n = 1 \/ n = 2 \/ n = 3 \/ n = 4
        OBVIOUS
    <2>6. j \in G <=> \/ j - 1 \in G /\ Character(SubSeq(p, j - 1 + 1, j))
                      \/ j - 2 \in G /\ Character(SubSeq(p, j - 2 + 1, j))
                      \/ j - 3 \in G /\ Character(SubSeq(p, j - 3 + 1, j))
                      \/ j - 4 \in G /\ Character(SubSeq(p, j - 4 + 1, j))
        <3>1. 1 \in 1..4 /\ 2 \in 1..4 /\ 3 \in 1..4 /\ 4 \in 1..4
            OBVIOUS
        <3> QED
            BY <2>4, <2>5, <3>1
    <2>7. j - 1 \in G => (Character(SubSeq(p, j - 1 + 1, j)) <=> p[j] < 128)
        <3> SUFFICES ASSUME j - 1 \in G PROVE Character(SubSeq(p, j - 1 + 1, j)) <=> p[j] < 128
            OBVIOUS
        <3>1. PICK c : c = SubSeq(p, j - 1 + 1, j)
            OBVIOUS
        <3>2. c \in Seq(Byte) /\ Len(c) = 1 /\ \A i \in 1..1 : c[i] = p[(j - 1) + i]
            BY <2>2, <3>1, LastBytes
        <3>3. 1 \in 1..1 /\ (j - 1) + 1 = j
            OBVIOUS
        <3>4. c[1] = p[j]
            BY <3>2, <3>3
        <3>5. Character(c) <=> c[1] < 128
            BY <3>2, CharacterBytes
        <3> QED
            BY <3>1, <3>4, <3>5
    <2>8. j - 2 \in G => (Character(SubSeq(p, j - 2 + 1, j))
                             <=> p[j - 1] \in 194..223 /\ p[j] \in 128..191)
        <3> SUFFICES ASSUME j - 2 \in G
                     PROVE  Character(SubSeq(p, j - 2 + 1, j)) <=> p[j - 1] \in 194..223 /\ p[j] \in 128..191
            OBVIOUS
        <3>1. PICK c : c = SubSeq(p, j - 2 + 1, j)
            OBVIOUS
        <3>2. c \in Seq(Byte) /\ Len(c) = 2 /\ \A i \in 1..2 : c[i] = p[(j - 2) + i]
            BY <2>2, <3>1, LastBytes
        <3>3. 1 \in 1..2 /\ 2 \in 1..2 /\ (j - 2) + 1 = j - 1 /\ (j - 2) + 2 = j
            OBVIOUS
        <3>4. c[1] = p[j - 1] /\ c[2] = p[j]
            BY <3>2, <3>3
        <3>5. Character(c) <=> c[1] \in 194..223 /\ c[2] \in 128..191
            BY <3>2, CharacterBytes
        <3> QED
            BY <3>1, <3>4, <3>5
    <2>9. j - 3 \in G => (Character(SubSeq(p, j - 3 + 1, j))
                             <=> Begin3(p[j - 2], p[j - 1]) /\ p[j] \in 128..191)
        <3> SUFFICES ASSUME j - 3 \in G
                     PROVE  Character(SubSeq(p, j - 3 + 1, j)) <=> Begin3(p[j - 2], p[j - 1]) /\ p[j] \in 128..191
            OBVIOUS
        <3>1. PICK c : c = SubSeq(p, j - 3 + 1, j)
            OBVIOUS
        <3>2. c \in Seq(Byte) /\ Len(c) = 3 /\ \A i \in 1..3 : c[i] = p[(j - 3) + i]
            BY <2>2, <3>1, LastBytes
        <3>3. /\ 1 \in 1..3 /\ 2 \in 1..3 /\ 3 \in 1..3
              /\ (j - 3) + 1 = j - 2 /\ (j - 3) + 2 = j - 1 /\ (j - 3) + 3 = j
            OBVIOUS
        <3>4. c[1] = p[j - 2] /\ c[2] = p[j - 1] /\ c[3] = p[j]
            BY <3>2, <3>3
        <3>5. Character(c) <=> Begin3(c[1], c[2]) /\ c[3] \in 128..191
            BY <3>2, CharacterBytes3
        <3> QED
            BY <3>1, <3>4, <3>5
    <2>10. j - 4 \in G => (Character(SubSeq(p, j - 4 + 1, j))
                             <=> Begin4(p[j - 3], p[j - 2]) /\ p[j - 1] \in 128..191 /\ p[j] \in 128..191)
        <3> SUFFICES ASSUME j - 4 \in G
                     PROVE  Character(SubSeq(p, j - 4 + 1, j))
                                <=> Begin4(p[j - 3], p[j - 2]) /\ p[j - 1] \in 128..191 /\ p[j] \in 128..191
            OBVIOUS
        <3>1. PICK c : c = SubSeq(p, j - 4 + 1, j)
            OBVIOUS
        <3>2. c \in Seq(Byte) /\ Len(c) = 4 /\ \A i \in 1..4 : c[i] = p[(j - 4) + i]
            BY <2>2, <3>1, LastBytes
        <3>3. /\ 1 \in 1..4 /\ 2 \in 1..4 /\ 3 \in 1..4 /\ 4 \in 1..4
              /\ (j - 4) + 1 = j - 3 /\ (j - 4) + 2 = j - 2 /\ (j - 4) + 3 = j - 1 /\ (j - 4) + 4 = j
            OBVIOUS
        <3>4. c[1] = p[j - 3] /\ c[2] = p[j - 2] /\ c[3] = p[j - 1] /\ c[4] = p[j]
            BY <3>2, <3>3
        <3>5. Character(c) <=> Begin4(c[1], c[2]) /\ c[3] \in 128..191 /\ c[4] \in 128..191
            BY <3>2, CharacterBytes4
        <3> QED
            BY <3>1, <3>4, <3>5
    <2> QED
        BY <2>6, <2>7, <2>8, <2>9, <2>10 DEF EndsAt
<1> QED
    BY <1>1, <1>2, <1>3, <1>4, <1>5

\* What the state after byte k says of the bytes up to there: x0 to x3 are k and
\* the three places before it, b0 to b2 the last three bytes.
Fits(s, G, x0, x1, x2, x3, b0, b1, b2) ==
    /\ s \in States
    /\ s = 0  <=> x0 \in G
    /\ s = 24 <=> \/ x1 \in G /\ b0 \in 194..223
                  \/ x2 \in G /\ Begin3(b1, b0)
                  \/ x3 \in G /\ Begin4(b2, b1) /\ b0 \in 128..191
    /\ s = 36 <=> \/ x1 \in G /\ b0 \in 225..239 /\ b0 # 237
                  \/ x2 \in G /\ Begin4(b1, b0)
    /\ s = 48 <=> x1 \in G /\ b0 = 224
    /\ s = 60 <=> x1 \in G /\ b0 = 237
    /\ s = 72 <=> x1 \in G /\ b0 = 240
    /\ s = 84 <=> x1 \in G /\ b0 \in 241..243
    /\ s = 96 <=> x1 \in G /\ b0 = 244

LEMMA FitsStep ==
    ASSUME NEW s, NEW G, NEW x, NEW x0, NEW x1, NEW x2, NEW x3,
           NEW b \in Byte, NEW b0, NEW b1, NEW b2, Fits(s, G, x0, x1, x2, x3, b0, b1, b2),
           NEW d, d = Decode(s, b),
           x \in G <=> \/ x0 \in G /\ b < 128
                       \/ x1 \in G /\ b0 \in 194..223 /\ b \in 128..191
                       \/ x2 \in G /\ Begin3(b1, b0) /\ b \in 128..191
                       \/ x3 \in G /\ Begin4(b2, b1) /\ b0 \in 128..191 /\ b \in 128..191
    PROVE  Fits(d, G, x, x0, x1, x2, b, b0, b1)
<1>1. /\ s \in States
      /\ s = 0  <=> x0 \in G
      /\ s = 24 <=> \/ x1 \in G /\ b0 \in 194..223
                    \/ x2 \in G /\ Begin3(b1, b0)
                    \/ x3 \in G /\ Begin4(b2, b1) /\ b0 \in 128..191
      /\ s = 36 <=> \/ x1 \in G /\ b0 \in 225..239 /\ b0 # 237
                    \/ x2 \in G /\ Begin4(b1, b0)
      /\ s = 48 <=> x1 \in G /\ b0 = 224
      /\ s = 60 <=> x1 \in G /\ b0 = 237
      /\ s = 72 <=> x1 \in G /\ b0 = 240
      /\ s = 84 <=> x1 \in G /\ b0 \in 241..243
      /\ s = 96 <=> x1 \in G /\ b0 = 244
    BY DEF Fits
<1>2. d = 0 <=> x \in G
    BY <1>1, DecodeTable
<1>3. d = 24 <=> \/ x0 \in G /\ b \in 194..223
                 \/ x1 \in G /\ Begin3(b0, b)
                 \/ x2 \in G /\ Begin4(b1, b0) /\ b \in 128..191
    <2>1. Begin3(b0, b) <=> \/ b0 \in 225..239 /\ b0 # 237 /\ b \in 128..191
                            \/ b0 = 224 /\ b \in 160..191
                            \/ b0 = 237 /\ b \in 128..159
        BY DEF Begin3, Byte
    <2> QED
        BY <1>1, <2>1, DecodeTable
<1>4. d = 36 <=> \/ x0 \in G /\ b \in 225..239 /\ b # 237
                 \/ x1 \in G /\ Begin4(b0, b)
    <2>1. Begin4(b0, b) <=> \/ b0 = 240 /\ b \in 144..191
                            \/ b0 \in 241..243 /\ b \in 128..191
                            \/ b0 = 244 /\ b \in 128..143
        BY DEF Begin4, Byte
    <2> QED
        BY <1>1, <2>1, DecodeTable
<1>5. /\ d \in States
      /\ d = 48 <=> x0 \in G /\ b = 224
      /\ d = 60 <=> x0 \in G /\ b = 237
      /\ d = 72 <=> x0 \in G /\ b = 240
      /\ d = 84 <=> x0 \in G /\ b \in 241..243
      /\ d = 96 <=> x0 \in G /\ b = 244
    BY <1>1, DecodeTable
<1> QED
    BY <1>2, <1>3, <1>4, <1>5 DEF Fits

\* The automaton accepts exactly the well-formed sequences.
THEOREM Utf8Exact ==
    ASSUME NEW p \in Seq(Byte)
    PROVE  ValidUTF8(p) <=> WellFormed(p)
<1>1. PICK L \in Nat : L = Len(p)
    BY LenProperties
<1>2. PICK st : st = Utf8States(p) /\ \A k \in 0..L : st[k] = StateAt(st, p, k)
    BY <1>1, StatesFollow
<1>3. PICK w : w = WholeUpTo(p)
    OBVIOUS
<1>4. PICK G : G = {k \in 0..Len(p) : w[k]}
    OBVIOUS
<1>5. /\ G \subseteq 0..L /\ 0 \in G
      /\ \A k \in 0..L : w[k] <=> k \in G
      /\ \A j \in 1..L : j \in G <=> EndsAt(G, p, j)
    <2>1. /\ G \subseteq 0..Len(p) /\ 0 \in G
          /\ \A k \in 0..Len(p) : w[k] <=> k \in G
          /\ \A j \in 1..Len(p) : j \in G <=> EndsAt(G, p, j)
        BY <1>3, <1>4, WholeEnds
    <2> QED
        BY <1>1, <2>1
<1> DEFINE Good(k) == Fits(st[k], G, k, k - 1, k - 2, k - 3, p[k], p[k - 1], p[k - 2])
<1>6. PICK T : T = {k \in Nat : k <= L => Good(k)}
    OBVIOUS
<1>7. 0 \in T
    <2>1. 0 \in 0..L /\ 0 - 1 \notin G /\ 0 - 2 \notin G /\ 0 - 3 \notin G
        BY <1>5
    <2>2. st[0] = 0
        BY <1>2, <2>1 DEF StateAt, Utf8Accept
    <2>3. Good(0)
        BY <1>5, <2>1, <2>2 DEF Fits, States
    <2> QED
        BY <1>6, <2>3
<1>8. ASSUME NEW k \in T PROVE k + 1 \in T
    <2>1. k \in Nat /\ k + 1 \in Nat
        BY <1>6
    <2>2. ASSUME k + 1 <= L PROVE Good(k + 1)
        <3>1. PICK j \in 1..L : /\ j = k + 1 /\ j # 0 /\ j \in 0..L
                                /\ j - 1 = k /\ j - 2 = k - 1 /\ j - 3 = k - 2 /\ j - 4 = k - 3
            BY <2>1, <2>2
        <3>2. Fits(st[k], G, k, k - 1, k - 2, k - 3, p[k], p[k - 1], p[k - 2])
            BY <1>6, <2>1, <2>2
        <3>3. p[j] \in Byte
            BY <1>1, ElementOfSeq
        <3>4. st[j] = Decode(st[k], p[j])
            BY <1>2, <3>1 DEF StateAt
        <3>5. j \in G <=>
                  \/ k \in G /\ p[j] < 128
                  \/ k - 1 \in G /\ p[k] \in 194..223 /\ p[j] \in 128..191
                  \/ k - 2 \in G /\ Begin3(p[k - 1], p[k]) /\ p[j] \in 128..191
                  \/ k - 3 \in G /\ Begin4(p[k - 2], p[k - 1]) /\ p[k] \in 128..191 /\ p[j] \in 128..191
            <4>1. j \in G <=> EndsAt(G, p, j)
                BY <1>5
            <4>2. j - 1 = k /\ j - 2 = k - 1 /\ j - 3 = k - 2 /\ j - 4 = k - 3
                BY <3>1
            <4> QED
                BY ONLY <4>1, <4>2, Zenon DEF EndsAt
        <3>6. Fits(st[j], G, j, k, k - 1, k - 2, p[j], p[k], p[k - 1])
            BY <3>2, <3>3, <3>4, <3>5, FitsStep
        <3> QED
            BY <3>1, <3>6
    <2> QED
        BY <1>6, <2>1, <2>2
<1>9. L \in T
    <2>1. T \subseteq Nat
        BY <1>6
    <2> QED
        BY <1>7, <1>8, <2>1, SetInduction
<1>10. st[L] = 0 <=> L \in G
    <2>1. Good(L)
        BY <1>6, <1>9
    <2> QED
        BY <2>1 DEF Fits
<1>11. w[L] <=> L \in G
    BY <1>5
<1> QED
    BY <1>1, <1>2, <1>3, <1>10, <1>11 DEF ValidUTF8, WellFormed, Utf8Accept

(***************************************************************************)
(* The inductive invariant of the socket                                   *)
(***************************************************************************)
\* While the lines of the request are read, seen is what the lines so far
\* have of the five headers, and all of them were right.
LinesFit ==
    /\ phase \in {"http", "line"} => lines = {} /\ seen = {}
    /\ phase = "headers" =>
         /\ \A l \in lines : l.good
         /\ seen = {l.key : l \in lines} \cap Required

\* Frames are handled only once the socket is open: a socket that is closed in
\* the handshake, in the middle of a read, has handled none.
HandledAfterUpgrade ==
    phase \in {"http", "line", "headers", "reply"} => handled = <<>>

IInv == TypeOK /\ LinesFit /\ HandledAfterUpgrade /\ HandshakeExact

(***************************************************************************)
(* Bytes                                                                   *)
(***************************************************************************)
LEMMA PutBytes ==
    ASSUME NEW v \in Nat, NEW width \in {0, 2, 8}
    PROVE  PutBigEndian(v, width) \in Seq(Byte)
<1>1. \A k \in 1..4 : PlaceValue[k] \in Nat \ {0}
    BY DEF PlaceValue
<1>2. ASSUME NEW i \in 1..width, ~(width - i > 3)
      PROVE  (v \div PlaceValue[width - i + 1]) % 256 \in Byte
    <2>1. PICK w \in Nat \ {0} : w = PlaceValue[width - i + 1]
        BY <1>1, <1>2
    <2>2. (v \div w) \in Nat
        OBVIOUS
    <2>3. (v \div w) % 256 \in Byte
        BY <2>2 DEF Byte
    <2> QED
        BY <2>1, <2>3
<1>3. PutBigEndian(v, width) \in [1..width -> Byte]
    BY <1>2 DEF PutBigEndian, Byte
<1> QED
    BY <1>3

LEMMA MaskTyped ==
    Mask \in Seq(Byte) /\ Len(Mask) = 4 /\ \A j \in 1..4 : Mask[j] \in Byte
<1>1. 1 \in Byte /\ 2 \in Byte /\ 3 \in Byte /\ 4 \in Byte
    BY DEF Byte
<1>2. Mask \in Seq(Byte) /\ Len(Mask) = 4
    BY <1>1 DEF Mask
<1> QED
    BY <1>2, ElementOfSeq

\* The bytes of a header before the mask and with it.
HeaderLen(f) == 2 + f.ext + (IF f.masked THEN 4 ELSE 0)
FirstByte(f) == (IF f.fin THEN 128 ELSE 0) + 16 * f.rsv + f.op
SecondByte(f) ==
    (IF f.masked THEN 128 ELSE 0)
    + (IF f.ext = 0 THEN Len(f.payload) ELSE IF f.ext = 2 THEN 126 ELSE 127)

LEMMA FieldsTyped ==
    ASSUME NEW f \in PeerFrames
    PROVE  /\ f.op \in 0..15 /\ f.rsv \in 0..7 /\ f.payload \in Seq(Byte) /\ Len(f.payload) \in Nat
           /\ f.fin \in BOOLEAN /\ f.masked \in BOOLEAN /\ f.bad \in BOOLEAN
           /\ f.ext \in {0, 2, 8} /\ Len(f.payload) < Huge
           /\ f.ext = 0 => Len(f.payload) <= 125
           /\ f.ext = 2 => Len(f.payload) <= 65535
           /\ f.bad => f.ext = 8
<1>1. f.payload \in Seq(Byte) /\ Len(f.payload) \in Nat
    BY FramesAssumption, LenProperties DEF Byte
<1> QED
    BY <1>1, FramesAssumption DEF Len7, Len16

LEMMA Decoded ==
    ASSUME NEW u \in {0, 128}, NEW v \in 0..7, NEW w \in 0..15
    PROVE  /\ u + 16 * v + w \in Byte /\ ((u + 16 * v + w) \div 16) % 8 = v
           /\ (u + 16 * v + w) % 16 = w /\ (u + 16 * v + w >= 128 <=> u = 128)
<1>1. (16 * v + w) \div 16 = v /\ (128 + 16 * v + w) \div 16 = 8 + v
    OBVIOUS
<1>2. (16 * v + w) % 16 = w /\ (128 + 16 * v + w) % 16 = w
    OBVIOUS
<1>3. v % 8 = v /\ (8 + v) % 8 = v
    OBVIOUS
<1>4. CASE u = 0
    BY <1>1, <1>2, <1>3, <1>4 DEF Byte
<1>5. CASE u = 128
    BY <1>1, <1>2, <1>3, <1>5 DEF Byte
<1> QED
    BY <1>4, <1>5

\* The two bytes that every header begins with.
LEMMA FirstBytes ==
    ASSUME NEW f \in PeerFrames
    PROVE  /\ FirstByte(f) \in Byte
           /\ (FirstByte(f) >= 128) = f.fin
           /\ (FirstByte(f) \div 16) % 8 = f.rsv
           /\ FirstByte(f) % 16 = f.op
           /\ SecondByte(f) \in Byte
           /\ (SecondByte(f) >= 128) = f.masked
           /\ LengthBytes(SecondByte(f)) = f.ext
           /\ ExtraBytes(SecondByte(f)) = HeaderLen(f) - 2
           /\ f.ext = 0 => SecondByte(f) % 128 = Len(f.payload)
<1> USE FieldsTyped
<1>1. PICK u \in {0, 128}, v \in 0..7, w \in 0..15 :
          u = (IF f.fin THEN 128 ELSE 0) /\ v = f.rsv /\ w = f.op
    <2>1. (IF f.fin THEN 128 ELSE 0) \in {0, 128}
        OBVIOUS
    <2> QED
        BY <2>1
<1>2. FirstByte(f) = u + 16 * v + w
    BY <1>1 DEF FirstByte
<1>3. /\ u + 16 * v + w \in Byte /\ ((u + 16 * v + w) \div 16) % 8 = v
      /\ (u + 16 * v + w) % 16 = w /\ (u + 16 * v + w >= 128 <=> u = 128)
    BY ONLY Decoded
<1>4. u = 128 <=> f.fin
    BY <1>1
<1>5. (FirstByte(f) >= 128) = f.fin
    <2>1. (FirstByte(f) >= 128) <=> f.fin
        BY <1>2, <1>3, <1>4
    <2> QED
        BY <2>1
<1>6. PICK p \in {0, 128} : p = (IF f.masked THEN 128 ELSE 0)
    <2>1. (IF f.masked THEN 128 ELSE 0) \in {0, 128}
        OBVIOUS
    <2> QED
        BY <2>1
<1>7. PICK x \in {0, 2, 8}, l \in Nat : x = f.ext /\ l = Len(f.payload) /\ (x = 0 => l <= 125)
    OBVIOUS
<1>8. PICK q \in 0..127 : q = (IF x = 0 THEN l ELSE IF x = 2 THEN 126 ELSE 127)
    <2>1. 126 \in 0..127 /\ 127 \in 0..127 /\ (l <= 125 => l \in 0..127)
        OBVIOUS
    <2> QED
        BY <1>7, <2>1
<1>9. SecondByte(f) = p + q
    BY <1>6, <1>7, <1>8 DEF SecondByte
<1>10. /\ p + q \in Byte /\ (p + q) % 128 = q /\ (p + q >= 128 <=> p = 128)
    BY DEF Byte
<1>11. p = 128 <=> f.masked
    BY <1>6
<1>12. (SecondByte(f) >= 128) <=> f.masked
    BY <1>9, <1>10, <1>11
<1>13. (SecondByte(f) >= 128) = f.masked
    BY <1>12
<1>14. LengthBytes(SecondByte(f)) = x
    <2>1. (x = 0 => q < 126) /\ (x = 2 => q = 126) /\ (x = 8 => q = 127)
        BY <1>7, <1>8
    <2> QED
        BY <1>9, <1>10, <2>1 DEF LengthBytes
<1>15. ExtraBytes(SecondByte(f)) = HeaderLen(f) - 2
    <2>1. ExtraBytes(SecondByte(f)) = x + (IF f.masked THEN 4 ELSE 0)
        BY <1>12, <1>14 DEF ExtraBytes
    <2>2. PICK y \in {0, 4} : y = (IF f.masked THEN 4 ELSE 0)
        <3>1. (IF f.masked THEN 4 ELSE 0) \in {0, 4}
            OBVIOUS
        <3> QED
            BY <3>1
    <2>3. HeaderLen(f) = 2 + x + y
        BY <1>7, <2>2 DEF HeaderLen
    <2>4. (2 + x + y) - 2 = x + y
        OBVIOUS
    <2> QED
        BY <2>1, <2>2, <2>3, <2>4
<1>16. x = 0 => SecondByte(f) % 128 = l
    BY <1>8, <1>9, <1>10
<1> QED
    BY <1>1, <1>2, <1>3, <1>5, <1>7, <1>9, <1>10, <1>13, <1>14, <1>15, <1>16

\* Where the bytes of a frame stand.
LEMMA HeaderLayout ==
    ASSUME NEW f \in PeerFrames, NEW h,
           h = [fin |-> f.fin, rsv |-> f.rsv, op |-> f.op, masked |-> f.masked, length |-> Len(f.payload)],
           NEW head, head = HeaderBytes(h, f.ext, Mask)
    PROVE  /\ head \in Seq(Byte) /\ Len(head) = HeaderLen(f)
           /\ head[1] = FirstByte(f) /\ head[2] = SecondByte(f)
           /\ \A j \in 1..f.ext : head[2 + j] = PutBigEndian(Len(f.payload), f.ext)[j]
           /\ f.masked => \A j \in 1..4 : head[2 + f.ext + j] = Mask[j]
<1>1. PICK b1 \in Byte, b2 \in Byte : b1 = FirstByte(f) /\ b2 = SecondByte(f)
    BY FirstBytes
<1>2. PICK x \in {0, 2, 8}, n \in Nat : x = f.ext /\ n = Len(f.payload)
    BY FieldsTyped
<1>3. PICK e \in Seq(Byte) : e = PutBigEndian(n, x) /\ Len(e) = x
    <2>1. PutBigEndian(n, x) \in Seq(Byte)
        BY PutBytes
    <2>2. Len(PutBigEndian(n, x)) = x
        BY DEF PutBigEndian
    <2> QED
        BY <2>1, <2>2
<1>4. PICK m \in Seq(Byte) : /\ m = (IF f.masked THEN Mask ELSE <<>>)
                             /\ Len(m) = (IF f.masked THEN 4 ELSE 0)
    <2>1. CASE f.masked
        BY <2>1, MaskTyped
    <2>2. CASE ~f.masked
        BY <2>2, EmptySeq
    <2> QED
        BY <2>1, <2>2
<1>5. PICK y \in {0, 4} : y = Len(m) /\ (f.masked => y = 4) /\ HeaderLen(f) = 2 + x + y
    <2>1. CASE f.masked
        BY <1>2, <1>4, <2>1 DEF HeaderLen
    <2>2. CASE ~f.masked
        BY <1>2, <1>4, <2>2 DEF HeaderLen
    <2> QED
        BY <2>1, <2>2
<1>6. head = (<<b1, b2>> \o e) \o m
    <2>1. h.fin = f.fin /\ h.rsv = f.rsv /\ h.op = f.op /\ h.masked = f.masked /\ h.length = n
        BY <1>2
    <2>2. /\ b1 = (IF h.fin THEN 128 ELSE 0) + 16 * h.rsv + h.op
          /\ b2 = (IF h.masked THEN 128 ELSE 0)
                  + (IF f.ext = 0 THEN h.length ELSE IF f.ext = 2 THEN 126 ELSE 127)
        BY <1>1, <1>2, <2>1 DEF FirstByte, SecondByte
    <2>3. head = <<b1, b2>> \o PutBigEndian(h.length, f.ext) \o (IF h.masked THEN Mask ELSE <<>>)
        BY <2>2 DEF HeaderBytes
    <2> QED
        BY <1>2, <1>3, <1>4, <2>1, <2>3
<1>7. PICK s \in Seq(Byte) : /\ s = <<b1, b2>> \o e /\ Len(s) = 2 + x
                             /\ s[1] = b1 /\ s[2] = b2
                             /\ \A j \in 1..x : s[2 + j] = e[j]
    <2>1. PICK t \in Seq(Byte) : t = <<b1, b2>> /\ Len(t) = 2 /\ t[1] = b1 /\ t[2] = b2
        <3>1. <<b1, b2>> \in Seq(Byte) /\ Len(<<b1, b2>>) = 2
            OBVIOUS
        <3>2. <<b1, b2>>[1] = b1 /\ <<b1, b2>>[2] = b2
            OBVIOUS
        <3> QED
            BY <3>1, <3>2
    <2>2. /\ t \o e \in Seq(Byte) /\ Len(t \o e) = 2 + x
          /\ \A i \in 1..(2 + x) : (t \o e)[i] = IF i <= 2 THEN t[i] ELSE e[i - 2]
        BY <1>3, <2>1, ConcatProperties
    <2>3. (t \o e)[1] = t[1] /\ (t \o e)[2] = t[2]
        BY <2>2
    <2>4. ASSUME NEW j \in 1..x PROVE (t \o e)[2 + j] = e[j]
        <3>1. 2 + j \in 1..(2 + x) /\ ~(2 + j <= 2) /\ (2 + j) - 2 = j
            OBVIOUS
        <3> QED
            BY <2>2, <3>1
    <2> QED
        BY <2>1, <2>2, <2>3, <2>4
<1>8. /\ s \o m \in Seq(Byte) /\ Len(s \o m) = 2 + x + y
      /\ \A i \in 1..(2 + x + y) : (s \o m)[i] = IF i <= 2 + x THEN s[i] ELSE m[i - (2 + x)]
    BY <1>5, <1>7, ConcatProperties
<1>9. head = s \o m
    BY <1>6, <1>7
<1>10. head[1] = b1 /\ head[2] = b2
    <2>1. 1 \in 1..(2 + x + y) /\ 2 \in 1..(2 + x + y) /\ 1 <= 2 + x /\ 2 <= 2 + x
        OBVIOUS
    <2> QED
        BY <1>7, <1>8, <1>9, <2>1
<1>11. ASSUME NEW j \in 1..x PROVE head[2 + j] = e[j]
    <2>1. 2 + j \in 1..(2 + x + y) /\ 2 + j <= 2 + x
        OBVIOUS
    <2> QED
        BY <1>7, <1>8, <1>9, <2>1
<1>12. ASSUME f.masked, NEW j \in 1..4 PROVE head[2 + x + j] = Mask[j]
    <2>1. m = Mask /\ y = 4
        BY <1>4, <1>5, <1>12
    <2>2. 2 + x + j \in 1..(2 + x + y) /\ ~(2 + x + j <= 2 + x) /\ (2 + x + j) - (2 + x) = j
        BY <2>1
    <2>3. (s \o m)[2 + x + j] = m[j]
        BY <1>8, <2>2
    <2> QED
        BY <1>9, <2>1, <2>3
<1>13. head \in Seq(Byte) /\ Len(head) = HeaderLen(f)
    BY <1>5, <1>8, <1>9
<1> QED
    BY <1>1, <1>2, <1>3, <1>10, <1>11, <1>12, <1>13

\* The payload as the peer puts it on the wire.
Wire(f) ==
    [i \in 1..Len(f.payload) |->
        IF f.masked THEN Xor(f.payload[i], Mask[1 + ((i - 1) % 4)]) ELSE f.payload[i]]

LEMMA WireTyped ==
    ASSUME NEW f \in PeerFrames
    PROVE  /\ Wire(f) \in Seq(Byte) /\ Len(Wire(f)) = Len(f.payload)
           /\ f.masked => Wire(f) = Masked(f.payload, Mask)
<1>1. PICK p \in Seq(Byte) : p = f.payload
    BY FieldsTyped
<1>2. Len(p) \in Nat /\ \A i \in 1..Len(p) : p[i] \in Byte
    BY LenProperties, ElementOfSeq
<1>3. \A j \in 1..4 : Mask[j] \in Byte
    BY MaskTyped
<1>4. ASSUME NEW i \in 1..Len(p) PROVE 1 + ((i - 1) % 4) \in 1..4
    BY <1>2
<1>5. ASSUME NEW i \in 1..Len(p) PROVE Xor(p[i], Mask[1 + ((i - 1) % 4)]) \in Byte
    BY <1>2, <1>3, <1>4, XorByte
<1>6. Wire(f) \in [1..Len(p) -> Byte]
    BY <1>1, <1>2, <1>5 DEF Wire
<1>7. Wire(f) \in Seq(Byte) /\ Len(Wire(f)) = Len(p)
    BY <1>2, <1>6
<1>8. f.masked => Wire(f) = Masked(f.payload, Mask)
    BY DEF Wire, Masked
<1> QED
    BY <1>1, <1>7, <1>8

LEMMA PeerLayout ==
    ASSUME NEW f \in PeerFrames, NEW P, P = PeerBytes(f)
    PROVE  /\ P \in Seq(Byte) /\ HeaderLen(f) \in Nat /\ Len(P) = HeaderLen(f) + Len(f.payload)
           /\ P[1] = FirstByte(f) /\ P[2] = SecondByte(f)
           /\ ~f.bad => \A j \in 1..f.ext : P[2 + j] = PutBigEndian(Len(f.payload), f.ext)[j]
           /\ f.bad => P[3] = 128
           /\ f.masked => \A j \in 1..4 : P[2 + f.ext + j] = Mask[j]
           /\ \A j \in 1..Len(f.payload) : P[HeaderLen(f) + j] = Wire(f)[j]
<1>1. PICK x \in {0, 2, 8}, n \in Nat : x = f.ext /\ n = Len(f.payload) /\ (f.bad => x = 8)
    BY FieldsTyped
<1>2. PICK k \in Nat : k = HeaderLen(f) /\ k >= 2 + x /\ (f.masked => k = 2 + x + 4)
    <2>1. CASE f.masked
        BY <1>1, <2>1 DEF HeaderLen
    <2>2. CASE ~f.masked
        BY <1>1, <2>2 DEF HeaderLen
    <2> QED
        BY <2>1, <2>2
<1>3. PICK h : h = [fin |-> f.fin, rsv |-> f.rsv, op |-> f.op, masked |-> f.masked,
                    length |-> Len(f.payload)]
    OBVIOUS
<1>4. PICK head : head = HeaderBytes(h, f.ext, Mask)
    OBVIOUS
<1>5. /\ head \in Seq(Byte) /\ Len(head) = k
      /\ head[1] = FirstByte(f) /\ head[2] = SecondByte(f)
      /\ \A j \in 1..x : head[2 + j] = PutBigEndian(n, x)[j]
      /\ f.masked => \A j \in 1..4 : head[2 + x + j] = Mask[j]
    <2>1. /\ head \in Seq(Byte) /\ Len(head) = HeaderLen(f)
          /\ head[1] = FirstByte(f) /\ head[2] = SecondByte(f)
          /\ \A j \in 1..f.ext : head[2 + j] = PutBigEndian(Len(f.payload), f.ext)[j]
          /\ f.masked => \A j \in 1..4 : head[2 + f.ext + j] = Mask[j]
        BY <1>3, <1>4, HeaderLayout
    <2> QED
        BY <1>1, <1>2, <2>1
<1>6. PICK t \in Seq(Byte) :
          /\ t = (IF f.bad THEN [head EXCEPT ![3] = 128] ELSE head) /\ Len(t) = k
          /\ \A i \in 1..k : t[i] = IF f.bad /\ i = 3 THEN 128 ELSE head[i]
    <2>1. CASE ~f.bad
        BY <1>5, <2>1
    <2>2. CASE f.bad
        <3>1. 128 \in Byte /\ 3 \in 1..Len(head)
            BY <1>1, <1>2, <1>5, <2>2 DEF Byte
        <3>2. /\ [head EXCEPT ![3] = 128] \in Seq(Byte) /\ Len([head EXCEPT ![3] = 128]) = Len(head)
              /\ \A j \in 1..Len(head) : [head EXCEPT ![3] = 128][j] = IF j = 3 THEN 128 ELSE head[j]
            BY <1>5, <3>1, ExceptSeq
        <3>3. PICK u : u = [head EXCEPT ![3] = 128]
            OBVIOUS
        <3>4. u \in Seq(Byte) /\ Len(u) = k /\ \A j \in 1..k : u[j] = IF j = 3 THEN 128 ELSE head[j]
            BY <1>5, <3>2, <3>3
        <3>5. u = (IF f.bad THEN [head EXCEPT ![3] = 128] ELSE head)
            BY <2>2, <3>3
        <3>6. \A j \in 1..k : u[j] = IF f.bad /\ j = 3 THEN 128 ELSE head[j]
            BY <2>2, <3>4
        <3> QED
            BY <3>4, <3>5, <3>6
    <2> QED
        BY <2>1, <2>2
<1>7. PICK w \in Seq(Byte) : w = Wire(f) /\ Len(w) = n
    BY <1>1, WireTyped
<1>8. P = t \o w
    BY <1>3, <1>4, <1>6, <1>7 DEF PeerBytes, Wire
<1>9. /\ P \in Seq(Byte) /\ Len(P) = k + n
      /\ \A i \in 1..(k + n) : P[i] = IF i <= k THEN t[i] ELSE w[i - k]
    <2>1. /\ t \o w \in Seq(Byte) /\ Len(t \o w) = Len(t) + Len(w)
          /\ \A i \in 1..(Len(t) + Len(w)) : (t \o w)[i] = IF i <= Len(t) THEN t[i] ELSE w[i - Len(t)]
        BY ConcatProperties
    <2>2. Len(t) = k /\ Len(w) = n
        BY <1>6, <1>7
    <2>3. /\ t \o w \in Seq(Byte) /\ Len(t \o w) = k + n
          /\ \A i \in 1..(k + n) : (t \o w)[i] = IF i <= k THEN t[i] ELSE w[i - k]
        BY ONLY <2>1, <2>2
    <2> QED
        BY ONLY <1>8, <2>3
<1>10. ASSUME NEW i \in 1..k PROVE P[i] = IF f.bad /\ i = 3 THEN 128 ELSE head[i]
    <2>1. i \in 1..(k + n) /\ i <= k
        OBVIOUS
    <2> QED
        BY <1>6, <1>9, <2>1
<1>11. P[1] = FirstByte(f) /\ P[2] = SecondByte(f)
    <2>1. 1 \in 1..k /\ 2 \in 1..k
        BY <1>2
    <2> QED
        BY <1>5, <1>10, <2>1
<1>12. ASSUME ~f.bad, NEW j \in 1..x PROVE P[2 + j] = PutBigEndian(n, x)[j]
    <2>1. 2 + j \in 1..k
        BY <1>2
    <2> QED
        BY <1>5, <1>10, <1>12, <2>1
<1>13. f.bad => P[3] = 128
    <2>1. f.bad => 3 \in 1..k
        BY <1>1, <1>2
    <2> QED
        BY <1>10, <2>1
<1>14. ASSUME f.masked, NEW j \in 1..4 PROVE P[2 + x + j] = Mask[j]
    <2>1. 2 + x + j \in 1..k
        BY <1>2, <1>14
    <2>2. f.bad => 2 + x + j # 3
        BY <1>1
    <2>3. P[2 + x + j] = head[2 + x + j]
        BY <1>10, <2>1, <2>2
    <2> QED
        BY <1>5, <1>14, <2>3
<1>15. ASSUME NEW j \in 1..n PROVE P[k + j] = w[j]
    <2>1. k + j \in 1..(k + n) /\ ~(k + j <= k) /\ (k + j) - k = j
        OBVIOUS
    <2> QED
        BY <1>9, <2>1
<1> QED
    BY <1>1, <1>2, <1>7, <1>9, <1>11, <1>12, <1>13, <1>14, <1>15

LEMMA Divided ==
    ASSUME NEW v \in Nat
    PROVE  \E a \in Nat, b \in 0..255 : v = 256 * a + b /\ a = v \div 256
<1>1. v \div 256 \in Nat /\ v % 256 \in 0..255 /\ v = 256 * (v \div 256) + (v % 256)
    OBVIOUS
<1> QED
    BY <1>1

\* The bytes of v in a given width, and v fits.
Spells(s, v, width) ==
    /\ Len(s) = width /\ v < Huge /\ (width = 2 => v <= 65535)
    /\ \A j \in 1..width : s[j] = PutBigEndian(v, width)[j]

LEMMA RoundTrip ==
    ASSUME NEW v \in Nat, NEW width \in {2, 8}, NEW s \in Seq(Byte), Spells(s, v, width)
    PROVE  BigEndian(s) = v /\ (width = 8 => s[1] = 0)
<1> USE DEF Spells
<1>1. PlaceValue[1] = 1 /\ PlaceValue[2] = 256 /\ PlaceValue[3] = 65536 /\ PlaceValue[4] = 16777216
    BY DEF PlaceValue
<1>2. CASE width = 2
    <2>1. s[1] = (v \div 256) % 256 /\ s[2] = (v \div 1) % 256
        BY <1>1, <1>2 DEF PutBigEndian
    <2>2. BigEndian(s) = 0 + 256 * s[1] + s[2]
        BY <1>2 DEF BigEndian
    <2>3. v = 0 + 256 * ((v \div 256) % 256) + ((v \div 1) % 256)
        BY <1>2
    <2> QED
        BY <1>2, <2>1, <2>2, <2>3
<1>3. CASE width = 8
    <2>1. s[1] = 0 /\ s[2] = 0 /\ s[3] = 0 /\ s[4] = 0
        BY <1>3 DEF PutBigEndian
    <2>2. s[5] = (v \div 16777216) % 256 /\ s[6] = (v \div 65536) % 256
        <3>1. s[5] = (v \div PlaceValue[4]) % 256
            BY <1>3 DEF PutBigEndian
        <3>2. s[6] = (v \div PlaceValue[3]) % 256
            BY <1>3 DEF PutBigEndian
        <3> QED
            BY <1>1, <3>1, <3>2
    <2>3. s[7] = (v \div 256) % 256 /\ s[8] = (v \div 1) % 256
        <3>1. s[7] = (v \div PlaceValue[2]) % 256
            BY <1>3 DEF PutBigEndian
        <3>2. s[8] = (v \div PlaceValue[1]) % 256
            BY <1>3 DEF PutBigEndian
        <3> QED
            BY <1>1, <3>1, <3>2
    <2>4. s[5] = 0
        BY <2>2 DEF Huge
    <2>5. \A i \in 1..5 : s[i] = 0
        <3>1. \A i \in 1..5 : i \in {1, 2, 3, 4, 5}
            OBVIOUS
        <3> QED
            BY <2>1, <2>4, <3>1
    <2>6. BigEndian(s) = 65536 * s[6] + 256 * s[7] + s[8]
        BY <1>3, <2>5 DEF BigEndian
    <2>7. v = 65536 * ((v \div 65536) % 256) + 256 * ((v \div 256) % 256) + ((v \div 1) % 256)
        <3>1. PICK a \in Nat, b \in 0..255 : v = 256 * a + b /\ a = v \div 256
            BY Divided
        <3>2. PICK c \in Nat, d \in 0..255 : a = 256 * c + d /\ c = a \div 256
            BY Divided
        <3>3. v \div 65536 = c
            BY <3>1, <3>2
        <3>4. c < 256
            BY <3>1, <3>2 DEF Huge
        <3>5. c % 256 = c /\ a % 256 = d /\ (v \div 1) % 256 = b
            BY <3>1, <3>2, <3>4
        <3> QED
            BY <3>1, <3>2, <3>3, <3>5
    <2> QED
        BY <2>1, <2>2, <2>3, <2>6, <2>7
<1> QED
    BY <1>2, <1>3

\* What has arrived of the frame and what follows it.
Agrees(in, P) == \A i \in 1..Len(in) : i <= Len(P) => in[i] = P[i]

\* A header is read as it was written, once all of it has arrived.
LEMMA HeaderRead ==
    ASSUME NEW f \in PeerFrames, NEW in \in Seq(Byte), Agrees(in, PeerBytes(f)),
           NEW r, r = ReadHeaderFromBytes(in)
    PROVE  /\ Len(in) < HeaderLen(f) => r = Failed(NeedMoreData)
           /\ ~(Len(in) < HeaderLen(f)) /\ f.bad => r = Failed(HeaderLengthMSB)
           /\ ~(Len(in) < HeaderLen(f)) /\ ~f.bad =>
                r = [err    |-> NoError,
                     offset |-> IF HeaderLen(f) = 2 THEN 0 ELSE HeaderLen(f),
                     length |-> Len(f.payload),
                     mask   |-> IF f.masked THEN Mask ELSE <<>>,
                     h      |-> [fin |-> f.fin, rsv |-> f.rsv, op |-> f.op, masked |-> f.masked]]
<1>1. PICK P : P = PeerBytes(f)
    OBVIOUS
<1>2. PICK x \in {0, 2, 8}, n \in Nat :
          /\ x = f.ext /\ n = Len(f.payload) /\ (f.bad => x = 8)
          /\ n < Huge /\ (x = 2 => n <= 65535)
    BY FieldsTyped
<1>3. PICK k \in Nat : k = HeaderLen(f) /\ k >= 2 + x /\ (f.masked => k = 2 + x + 4) /\ (~f.masked => k = 2 + x)
    <2>1. CASE f.masked
        BY <1>2, <2>1 DEF HeaderLen
    <2>2. CASE ~f.masked
        BY <1>2, <2>2 DEF HeaderLen
    <2> QED
        BY <2>1, <2>2
<1>4. /\ Len(P) = k + n /\ P[1] = FirstByte(f) /\ P[2] = SecondByte(f)
      /\ ~f.bad => \A j \in 1..x : P[2 + j] = PutBigEndian(n, x)[j]
      /\ f.bad => P[3] = 128
      /\ f.masked => \A j \in 1..4 : P[2 + x + j] = Mask[j]
    <2>1. /\ Len(P) = HeaderLen(f) + Len(f.payload)
          /\ P[1] = FirstByte(f) /\ P[2] = SecondByte(f)
          /\ ~f.bad => \A j \in 1..f.ext : P[2 + j] = PutBigEndian(Len(f.payload), f.ext)[j]
          /\ f.bad => P[3] = 128
          /\ f.masked => \A j \in 1..4 : P[2 + f.ext + j] = Mask[j]
        BY <1>1, PeerLayout
    <2>2. Len(P) = k + n
        BY <1>2, <1>3, <2>1
    <2>5. x = f.ext /\ n = Len(f.payload)
        BY <1>2
    <2>3. ~f.bad => \A j \in 1..x : P[2 + j] = PutBigEndian(n, x)[j]
        <3>1. ~f.bad => \A j \in 1..f.ext : P[2 + j] = PutBigEndian(Len(f.payload), f.ext)[j]
            BY <2>1
        <3> QED
            BY ONLY <2>5, <3>1, Zenon
    <2>4. f.masked => \A j \in 1..4 : P[2 + x + j] = Mask[j]
        <3>1. f.masked => \A j \in 1..4 : P[2 + f.ext + j] = Mask[j]
            BY <2>1
        <3> QED
            BY ONLY <2>5, <3>1, Zenon
    <2> QED
        BY <2>1, <2>2, <2>3, <2>4
<1>5. Len(in) \in Nat /\ \A i \in 1..Len(in) : i <= k => in[i] = P[i]
    BY <1>1, <1>4, LenProperties DEF Agrees
<1>6. CASE Len(in) < 2
    <2>1. r = Failed(NeedMoreData)
        BY <1>6, SMT DEF ReadHeaderFromBytes
    <2> QED
        BY <1>3, <1>5, <1>6, <2>1
<1>7. CASE ~(Len(in) < 2)
    <2>1. in[1] = FirstByte(f) /\ in[2] = SecondByte(f)
        <3>1. 1 \in 1..Len(in) /\ 2 \in 1..Len(in) /\ 1 <= k /\ 2 <= k
            BY <1>3, <1>5, <1>7
        <3> QED
            BY <1>4, <1>5, <3>1
    <2>2. /\ LengthBytes(in[2]) = x /\ ExtraBytes(in[2]) = k - 2 /\ (in[2] >= 128) = f.masked
          /\ (in[1] >= 128) = f.fin /\ (in[1] \div 16) % 8 = f.rsv /\ in[1] % 16 = f.op
          /\ x = 0 => in[2] % 128 = n
        BY <1>2, <1>3, <2>1, FirstBytes
    <2>3. PICK g : g = [fin |-> f.fin, rsv |-> f.rsv, op |-> f.op, masked |-> f.masked]
        OBVIOUS
    <2>4. PICK d \in Nat : d = k - 2 /\ d + 2 = k
        BY <1>3
    <2>5. PICK b \in Byte : b = in[2]
        BY <1>7, ElementOfSeq, <1>5
    <2>10. [fin |-> in[1] >= 128, rsv |-> (in[1] \div 16) % 8, op |-> in[1] % 16,
            masked |-> b >= 128] = g
        BY <2>2, <2>3, <2>5
    <2>11. LengthBytes(b) = x /\ ExtraBytes(b) = d
        BY <2>2, <2>4, <2>5
    <2>6. CASE d = 0
        <3>1. k = 2 /\ x = 0
            <4>1. k = 2
                BY <2>4, <2>6
            <4> QED
                BY <1>3, <4>1
        <3>4. ~f.masked /\ ~f.bad
            BY <1>2, <1>3, <3>1
        <3>5. r = [err |-> NoError, offset |-> 0, length |-> b % 128, mask |-> <<>>,
                   h |-> [fin |-> in[1] >= 128, rsv |-> (in[1] \div 16) % 8, op |-> in[1] % 16,
                          masked |-> b >= 128]]
            BY <1>7, <2>5, <2>6, <2>11, SMT DEF ReadHeaderFromBytes
        <3>2. r = [err |-> NoError, offset |-> 0, length |-> n, mask |-> <<>>, h |-> g]
            BY <2>2, <2>5, <2>10, <3>1, <3>5
        <3> QED
            BY <1>2, <1>3, <1>7, <2>3, <3>1, <3>2, <3>4
    <2>7. CASE d # 0 /\ Len(in) < k
        <3>1. r = Failed(NeedMoreData)
            BY <1>7, <2>4, <2>5, <2>7, <2>11, SMT DEF ReadHeaderFromBytes
        <3> QED
            BY <1>3, <2>7, <3>1
    <2>8. CASE d # 0 /\ ~(Len(in) < k) /\ f.bad
        <3>1. x = 8 /\ in[3] = 128
            <4>1. 3 \in 1..Len(in) /\ 3 <= k
                BY <1>2, <1>3, <1>5, <2>8
            <4> QED
                BY <1>2, <1>4, <1>5, <2>8, <4>1
        <3>2. in[3] >= 128
            BY <3>1
        <3>3. r = Failed(HeaderLengthMSB)
            BY <1>7, <2>4, <2>5, <2>8, <2>11, <3>1, <3>2, SMT DEF ReadHeaderFromBytes
        <3> QED
            BY <1>3, <2>8, <3>3
    <2>9. CASE d # 0 /\ ~(Len(in) < k) /\ ~f.bad
        <3>1. \A i \in 1..k : in[i] = P[i] /\ in[i] \in Byte
            BY <1>5, <2>9, ElementOfSeq
        <3>2. x # 0 => BigEndian(SubSeq(in, 3, 2 + x)) = n /\ (x = 8 => ~(in[3] >= 128))
            <4> SUFFICES ASSUME x # 0
                         PROVE  BigEndian(SubSeq(in, 3, 2 + x)) = n /\ (x = 8 => ~(in[3] >= 128))
                OBVIOUS
            <4>1. PICK y \in Int : y = 2 + x /\ 3 <= y /\ y - 3 + 1 = x /\ y <= k
                BY <1>3
            <4>2. \A i \in 3..y : in[i] \in Byte
                BY <3>1, <4>1
            <4>3. PICK s \in Seq(Byte) : /\ s = SubSeq(in, 3, y) /\ Len(s) = x
                                         /\ \A j \in 1..x : s[j] = in[3 + j - 1]
                <5>1. /\ SubSeq(in, 3, y) \in Seq(Byte)
                      /\ Len(SubSeq(in, 3, y)) = IF 3 <= y THEN y - 3 + 1 ELSE 0
                      /\ \A j \in 1..(y - 3 + 1) : SubSeq(in, 3, y)[j] = in[3 + j - 1]
                    BY <4>2, SubSeqProperties
                <5> QED
                    BY <4>1, <5>1
            <4>4. ASSUME NEW j \in 1..x PROVE s[j] = PutBigEndian(n, x)[j]
                <5>1. 3 + j - 1 = 2 + j /\ 2 + j \in 1..k
                    BY <4>1
                <5> QED
                    BY <1>4, <2>9, <3>1, <4>3, <5>1
            <4>5. BigEndian(s) = n /\ (x = 8 => s[1] = 0)
                <5>1. x \in {2, 8}
                    OBVIOUS
                <5>2. \A j \in 1..x : s[j] = PutBigEndian(n, x)[j]
                    BY <4>4
                <5>3. Spells(s, n, x)
                    BY <1>2, <4>3, <5>2 DEF Spells
                <5> QED
                    BY <5>1, <5>3, RoundTrip
            <4>6. s[1] = in[3]
                <5>1. 1 \in 1..x /\ 3 + 1 - 1 = 3
                    OBVIOUS
                <5> QED
                    BY <4>3, <5>1
            <4> QED
                BY <4>1, <4>3, <4>5, <4>6
        <3>3. f.masked => SubSeq(in, 3 + x, 6 + x) = Mask
            <4> SUFFICES ASSUME f.masked PROVE SubSeq(in, 3 + x, 6 + x) = Mask
                OBVIOUS
            <4>1. PICK lo \in Int, hi \in Int : lo = 3 + x /\ hi = 6 + x /\ lo <= hi /\ hi - lo + 1 = 4 /\ hi <= k /\ 1 <= lo
                BY <1>3
            <4>2. \A i \in lo..hi : in[i] \in Byte
                BY <3>1, <4>1
            <4>3. PICK s \in Seq(Byte) : /\ s = SubSeq(in, lo, hi) /\ Len(s) = 4
                                         /\ \A j \in 1..4 : s[j] = in[lo + j - 1]
                <5>1. /\ SubSeq(in, lo, hi) \in Seq(Byte)
                      /\ Len(SubSeq(in, lo, hi)) = IF lo <= hi THEN hi - lo + 1 ELSE 0
                      /\ \A j \in 1..(hi - lo + 1) : SubSeq(in, lo, hi)[j] = in[lo + j - 1]
                    BY <4>2, SubSeqProperties
                <5> QED
                    BY <4>1, <5>1
            <4>4. ASSUME NEW j \in 1..4 PROVE s[j] = Mask[j]
                <5>1. lo + j - 1 = 2 + x + j /\ 2 + x + j \in 1..k
                    BY <4>1
                <5> QED
                    BY <1>4, <3>1, <4>3, <5>1
            <4>5. s = Mask
                <5>1. PICK t \in Seq(Byte) : t = Mask /\ Len(t) = 4
                    BY MaskTyped
                <5>2. \A j \in 1..4 : s[j] = t[j]
                    BY <4>4, <5>1
                <5>3. Len(s) = 4
                    BY <4>3
                <5>4. s = t
                    BY <5>1, <5>2, <5>3, SeqEqual
                <5> QED
                    BY <5>1, <5>4
            <4> QED
                BY <4>1, <4>3, <4>5
        <3>4. r = [err |-> NoError, offset |-> k, length |-> n,
                   mask |-> IF f.masked THEN Mask ELSE <<>>, h |-> g]
            <4>1. ~(Len(in) < d + 2) /\ ~(x = 8 /\ in[3] >= 128)
                BY <2>4, <2>9, <3>2
            <4>2. (IF x = 0 THEN in[2] % 128 ELSE BigEndian(SubSeq(in, 3, 2 + x))) = n
                BY <2>2, <3>2
            <4>3. (IF f.masked THEN SubSeq(in, 3 + x, 6 + x) ELSE <<>>) = (IF f.masked THEN Mask ELSE <<>>)
                BY <3>3
            <4>4. r = [err |-> NoError, offset |-> d + 2,
                       length |-> IF x = 0 THEN b % 128 ELSE BigEndian(SubSeq(in, 3, 2 + x)),
                       mask |-> IF b >= 128 THEN SubSeq(in, 3 + x, 6 + x) ELSE <<>>,
                       h |-> [fin |-> in[1] >= 128, rsv |-> (in[1] \div 16) % 8, op |-> in[1] % 16,
                              masked |-> b >= 128]]
                BY <1>7, <2>5, <2>9, <2>11, <4>1, SMT DEF ReadHeaderFromBytes
            <4>5. (IF b >= 128 THEN SubSeq(in, 3 + x, 6 + x) ELSE <<>>)
                  = (IF f.masked THEN Mask ELSE <<>>)
                BY <2>2, <2>5, <4>3
            <4> QED
                BY <2>4, <2>5, <2>10, <4>2, <4>4, <4>5
        <3>5. k # 2
            BY <2>4, <2>9
        <3> QED
            BY <1>2, <1>3, <2>3, <2>9, <3>4, <3>5
    <2> QED
        BY <2>6, <2>7, <2>8, <2>9
<1> QED
    BY <1>6, <1>7

(***************************************************************************)
(* What a frame becomes                                                    *)
(***************************************************************************)
LEMMA ErrorsDiffer ==
    ASSUME NEW e \in {NeedMoreData, HeaderLengthMSB}
    PROVE  Failed(e).err # NoError
BY DEF Failed, NeedMoreData, HeaderLengthMSB, NoError

\* The header that Reader.NextFrame has of a frame whose bytes begin here.
LEMMA NextFrameRead ==
    ASSUME NEW f \in PeerFrames, ~f.bad, NEW in \in Seq(Byte), Agrees(in, PeerBytes(f)),
           ~(Len(in) < HeaderLen(f)), NEW h,
           h = [fin |-> f.fin, rsv |-> f.rsv, op |-> f.op, masked |-> f.masked, length |-> Len(f.payload)]
    PROVE  NextFrame(in) =
             IF CheckHeader(h)
             THEN [err |-> NoError, mask |-> IF f.masked THEN Mask ELSE <<>>, from |-> HeaderLen(f), h |-> h]
             ELSE Failed("protocol error")
<1>1. PICK g : g = [fin |-> f.fin, rsv |-> f.rsv, op |-> f.op, masked |-> f.masked]
    OBVIOUS
<1>2. PICK m : m = (IF f.masked THEN Mask ELSE <<>>)
    OBVIOUS
<1>3. PICK k \in Nat : k = HeaderLen(f) /\ k # 0
    BY FieldsTyped DEF HeaderLen
<1>4. ReadHeaderFromBytes(in) = [err |-> NoError, offset |-> IF k = 2 THEN 0 ELSE k,
                                 length |-> Len(f.payload), mask |-> m, h |-> g]
    BY <1>1, <1>2, <1>3, HeaderRead
<1>5. (IF (IF k = 2 THEN 0 ELSE k) = 0 THEN 2 ELSE (IF k = 2 THEN 0 ELSE k)) = k
    BY <1>3
<1>6. ReadHeader(in) = [err |-> NoError, mask |-> m, from |-> k, h |-> h]
    BY <1>1, <1>4, <1>5 DEF ReadHeader
<1>7. ReadHeader(in).err = NoError /\ ReadHeader(in).h = h
    BY <1>6
<1>8. NextFrame(in) = IF CheckHeader(h) THEN ReadHeader(in) ELSE Failed("protocol error")
    BY <1>7 DEF NextFrame
<1> QED
    BY <1>2, <1>3, <1>6, <1>8

LEMMA UnmaskedRefused ==
    ASSUME NEW f \in PeerFrames, ~f.masked, NEW in \in Seq(Byte), Agrees(in, PeerBytes(f))
    PROVE  ReadClientMessage(in) = ReadError
<1>1. CASE Len(in) < HeaderLen(f) \/ f.bad
    <2>1. PICK e \in {NeedMoreData, HeaderLengthMSB} : ReadHeaderFromBytes(in) = Failed(e)
        BY <1>1, HeaderRead
    <2>2. NextFrame(in) = Failed(e)
        BY <2>1, ErrorsDiffer DEF NextFrame, ReadHeader
    <2> QED
        BY <2>2, ErrorsDiffer DEF ReadClientMessage
<1>2. CASE ~(Len(in) < HeaderLen(f)) /\ ~f.bad
    <2>1. PICK h : h = [fin |-> f.fin, rsv |-> f.rsv, op |-> f.op, masked |-> f.masked,
                        length |-> Len(f.payload)]
        OBVIOUS
    <2>2. ~CheckHeader(h)
        BY <2>1 DEF CheckHeader
    <2>3. NextFrame(in) = Failed("protocol error")
        BY <1>2, <2>1, <2>2, NextFrameRead
    <2>4. Failed("protocol error").err # NoError
        BY DEF Failed, NoError
    <2> QED
        BY <2>3, <2>4 DEF ReadClientMessage
<1> QED
    BY <1>1, <1>2

\* The codec hands on the bytes of a masked frame, all of them and no more, and
\* not before they are there. An unmasked one it may cut, but Reader refuses it.
LEMMA FrameRead ==
    ASSUME NEW f \in PeerFrames, f.payload # <<>>,
           NEW in \in Seq(Byte), Agrees(in, PeerBytes(f)), NEW r, r = ReadFrameFromBytes(in)
    PROVE  /\ ~(Len(in) < Len(PeerBytes(f))) => r.err # NeedMoreData
           /\ r.err = NoError =>
                /\ ~f.bad /\ r.frame # <<>>
                /\ f.masked => /\ ~(Len(in) < Len(PeerBytes(f)))
                               /\ r.readoffset = Len(PeerBytes(f)) /\ r.frame = PeerBytes(f)
                /\ ~f.masked => ReadClientMessage(r.frame) = ReadError
<1>1. PICK P \in Seq(Byte) : P = PeerBytes(f)
    BY PeerLayout
<1>2. PICK n \in Nat : n = Len(f.payload) /\ n # 0
    BY FieldsTyped, EmptySeq
<1>3. PICK k \in Nat : k = HeaderLen(f) /\ Len(P) = k + n /\ (f.masked => k # 2)
    <2>1. HeaderLen(f) \in Nat /\ Len(P) = HeaderLen(f) + n
        BY <1>1, <1>2, PeerLayout
    <2>2. f.masked => HeaderLen(f) # 2
        BY FieldsTyped DEF HeaderLen
    <2> QED
        BY <2>1, <2>2
<1>4. Len(in) \in Nat
    BY LenProperties
<1>5. PICK q : q = ReadHeaderFromBytes(in)
    OBVIOUS
<1>6. CASE Len(in) < k \/ f.bad
    <2>1. PICK e \in {NeedMoreData, HeaderLengthMSB} :
              q = Failed(e) /\ (~(Len(in) < k) => e = HeaderLengthMSB)
        BY <1>3, <1>5, <1>6, HeaderRead
    <2>2. r = q
        BY <1>5, <2>1, ErrorsDiffer DEF ReadFrameFromBytes
    <2>3. r.err = e /\ r.err # NoError
        BY <2>1, <2>2, ErrorsDiffer DEF Failed
    <2>4. ~(Len(in) < Len(P)) => ~(Len(in) < k)
        BY <1>3, <1>4
    <2>5. HeaderLengthMSB # NeedMoreData
        BY DEF HeaderLengthMSB, NeedMoreData
    <2> QED
        BY <1>1, <2>1, <2>3, <2>4, <2>5
<1>7. CASE ~(Len(in) < k) /\ ~f.bad
    <2>1. PICK o \in Nat : o = IF k = 2 THEN 0 ELSE k
        BY <1>3
    <2>2. q.err = NoError /\ q.offset = o /\ q.length = n
        BY <1>2, <1>3, <1>5, <1>7, <2>1, HeaderRead
    <2>3. FrameIncomplete(q, in) <=> Len(in) - o < n
        BY <2>2 DEF FrameIncomplete
    <2>4. CASE Len(in) - o < n
        <3>1. r = Failed(NeedMoreData)
            BY <1>2, <1>5, <2>2, <2>3, <2>4, SMT DEF ReadFrameFromBytes
        <3>2. r.err # NoError
            BY <3>1, ErrorsDiffer
        <3>3. Len(in) < Len(P)
            BY <1>3, <1>4, <2>1, <2>4
        <3> QED
            BY <1>1, <3>2, <3>3
    <2>5. CASE ~(Len(in) - o < n)
        <3>1. PICK y \in Int : y = o + n /\ 1 <= y /\ y - 1 + 1 = y /\ y <= Len(in) /\ y <= Len(P)
            <4>1. PICK i \in Nat, l \in Nat : i = Len(in) /\ l = Len(P) /\ l = k + n
                BY <1>3, <1>4
            <4>2. o <= k /\ ~(i - o < n) /\ n # 0
                BY <1>2, <2>1, <2>5, <4>1
            <4>3. o + n \in Int /\ 1 <= o + n /\ (o + n) - 1 + 1 = o + n /\ o + n <= i /\ o + n <= l
                BY <4>1, <4>2
            <4> QED
                BY <4>1, <4>3
        <3>2. r = [err |-> NoError, readoffset |-> y, frame |-> SubSeq(in, 1, y)]
            BY <1>2, <1>5, <2>2, <2>3, <2>5, <3>1, SMT DEF ReadFrameFromBytes
        <3>3. \A i \in 1..y : in[i] \in Byte
            BY <1>4, <3>1, ElementOfSeq
        <3>4. PICK s \in Seq(Byte) : /\ s = SubSeq(in, 1, y) /\ Len(s) = y
                                     /\ \A i \in 1..y : s[i] = in[1 + i - 1]
            <4>1. /\ SubSeq(in, 1, y) \in Seq(Byte)
                  /\ Len(SubSeq(in, 1, y)) = IF 1 <= y THEN y - 1 + 1 ELSE 0
                  /\ \A i \in 1..(y - 1 + 1) : SubSeq(in, 1, y)[i] = in[1 + i - 1]
                BY <3>3, SubSeqProperties
            <4> QED
                BY <3>1, <4>1
        <3>5. ASSUME NEW i \in 1..y PROVE s[i] = P[i]
            <4>1. 1 + i - 1 = i /\ i \in 1..Len(in) /\ i <= Len(P)
                BY <1>1, <1>4, <3>1, LenProperties
            <4> QED
                BY <1>1, <3>4, <4>1 DEF Agrees
        <3>6. r.err = NoError /\ r.readoffset = y /\ r.frame = s
            BY <3>2, <3>4
        <3>7. s # <<>>
            BY <3>1, <3>4, EmptySeq
        <3>8. f.masked => ~(Len(in) < Len(P)) /\ y = Len(P) /\ s = P
            <4> SUFFICES ASSUME f.masked PROVE ~(Len(in) < Len(P)) /\ y = Len(P) /\ s = P
                OBVIOUS
            <4>1. y = Len(P)
                BY <1>3, <2>1, <3>1
            <4>2. s = P
                BY <3>4, <3>5, <4>1, SeqEqual
            <4>3. ~(Len(in) < Len(P))
                BY <1>4, <3>1, <4>1
            <4> QED
                BY <4>1, <4>2, <4>3
        <3>9. ~f.masked => ReadClientMessage(s) = ReadError
            <4>1. Agrees(s, P)
                BY <3>4, <3>5 DEF Agrees
            <4> QED
                BY <1>1, <4>1, UnmaskedRefused
        <3>10. r.err # NeedMoreData
            BY <3>6 DEF NoError, NeedMoreData
        <3> QED
            BY <1>1, <1>7, <3>6, <3>7, <3>8, <3>9, <3>10
    <2> QED
        BY <2>4, <2>5
<1> QED
    BY <1>6, <1>7

\* What CheckHeader and the end of Reader.Read let pass is what is lawful.
LEMMA LawfulPasses ==
    ASSUME NEW f \in PeerFrames, f.masked, ~f.bad, NEW h,
           h = [fin |-> f.fin, rsv |-> f.rsv, op |-> f.op, masked |-> f.masked, length |-> Len(f.payload)]
    PROVE  (CheckHeader(h) /\ f.fin /\ (f.op = OpText => ValidUTF8(f.payload))) <=> Lawful(f)
<1>1. PICK o \in 0..15, n \in Nat : o = f.op /\ n = Len(f.payload)
    BY FieldsTyped
<1>2. h.op = o /\ h.length = n /\ h.rsv = f.rsv /\ h.fin = f.fin /\ h.masked
    BY <1>1
<1>3. (~IsReserved(o) /\ o # OpContinuation) <=> o \in {OpText, OpBinary, OpClose, OpPing, OpPong}
    BY DEF IsReserved, OpContinuation, OpText, OpBinary, OpClose, OpPing, OpPong
<1>4. o \in {OpText, OpBinary, OpClose, OpPing, OpPong} => (IsControl(o) <=> o \in {OpClose, OpPing, OpPong})
    BY DEF IsControl, OpText, OpBinary, OpClose, OpPing, OpPong
<1>5. n <= MaxControlFramePayloadSize <=> n < 126
    BY DEF MaxControlFramePayloadSize
<1>6. CheckHeader(h) <=> /\ ~IsReserved(o) /\ o # OpContinuation /\ f.rsv = 0
                         /\ IsControl(o) => (n <= MaxControlFramePayloadSize /\ f.fin)
    BY ONLY <1>2 DEF CheckHeader
<1>7. Lawful(f) <=> /\ o \in {OpText, OpBinary, OpClose, OpPing, OpPong}
                    /\ f.fin /\ f.rsv = 0
                    /\ o \in {OpClose, OpPing, OpPong} => n < 126
                    /\ o = OpText => WellFormed(f.payload)
    BY <1>1 DEF Lawful
<1>8. o = OpText => (ValidUTF8(f.payload) <=> WellFormed(f.payload))
    <2>1. f.payload \in Seq(Byte)
        BY FieldsTyped
    <2> QED
        BY <2>1, Utf8Exact
<1> HIDE DEF IsReserved, IsControl
<1> QED
    BY <1>1, <1>3, <1>4, <1>5, <1>6, <1>7, <1>8

\* The payload that Reader.Read gives of the bytes of a masked frame.
LEMMA PayloadRead ==
    ASSUME NEW f \in PeerFrames, f.masked, NEW r, r.from = HeaderLen(f), r.mask = Mask,
           r.h.masked = TRUE, r.h.length = Len(f.payload)
    PROVE  Payload(r, PeerBytes(f)) = f.payload
<1>1. PICK P \in Seq(Byte) : P = PeerBytes(f)
    BY PeerLayout
<1>2. PICK k \in Nat, n \in Nat : k = HeaderLen(f) /\ n = Len(f.payload) /\ Len(P) = k + n
    BY <1>1, PeerLayout, FieldsTyped
<1>3. \A j \in 1..n : P[k + j] = Wire(f)[j]
    <2>1. \A j \in 1..Len(f.payload) : P[HeaderLen(f) + j] = Wire(f)[j]
        BY <1>1, PeerLayout
    <2> QED
        BY <1>2, <2>1
<1>4. PICK lo \in Int, hi \in Int : lo = k + 1 /\ hi = k + n
    OBVIOUS
<1>5. \A i \in lo..hi : P[i] \in Byte
    <2>1. \A i \in lo..hi : i \in 1..Len(P)
        BY <1>2, <1>4
    <2> QED
        BY <2>1, ElementOfSeq
<1>6. PICK s : s = SubSeq(P, lo, hi)
    OBVIOUS
<1>7. /\ s \in Seq(Byte) /\ Len(s) = IF lo <= hi THEN hi - lo + 1 ELSE 0
      /\ \A i \in 1..(hi - lo + 1) : s[i] = P[lo + i - 1]
    BY <1>5, <1>6, SubSeqProperties
<1>8. Len(s) = n /\ \A j \in 1..n : s[j] = P[k + j]
    <2>1. hi - lo + 1 = n /\ (lo <= hi <=> n >= 1)
        BY <1>4
    <2>2. Len(s) = n
        BY <1>7, <2>1
    <2>3. ASSUME NEW j \in 1..n PROVE s[j] = P[k + j]
        <3>1. lo + j - 1 = k + j /\ j \in 1..(hi - lo + 1)
            BY <1>4, <2>1
        <3> QED
            BY <1>7, <3>1
    <2> QED
        BY <2>2, <2>3
<1>9. s = Wire(f)
    <2>1. PICK w \in Seq(Byte) : w = Wire(f) /\ Len(w) = n
        BY <1>2, WireTyped
    <2>2. \A j \in 1..n : s[j] = w[j]
        BY <1>3, <1>8, <2>1
    <2>3. s = w
        BY <1>7, <1>8, <2>1, <2>2, SeqEqual
    <2> QED
        BY <2>1, <2>3
<1>10. s = Masked(f.payload, Mask)
    BY <1>9, WireTyped
<1>11. Unmask(s, Mask) = f.payload
    BY <1>10, UnmaskRestores, FieldsTyped, MaskTyped
<1>12. Payload(r, P) = Unmask(SubSeq(P, r.from + 1, r.from + r.h.length), r.mask)
    BY SMT DEF Payload
<1> QED
    BY <1>1, <1>2, <1>4, <1>6, <1>11, <1>12

\* A masked frame is handled as what it is, or refused.
LEMMA MaskedRead ==
    ASSUME NEW f \in PeerFrames, f.masked, ~f.bad
    PROVE  ReadClientMessage(PeerBytes(f)) = Expected(f)
<1>1. PICK P \in Seq(Byte) : P = PeerBytes(f)
    BY PeerLayout
<1>2. PICK k \in Nat, n \in Nat : k = HeaderLen(f) /\ n = Len(f.payload) /\ Len(P) = k + n
    BY <1>1, PeerLayout, FieldsTyped
<1>3. Agrees(P, PeerBytes(f)) /\ ~(Len(P) < HeaderLen(f))
    BY <1>1, <1>2 DEF Agrees
<1>4. PICK h : h = [fin |-> f.fin, rsv |-> f.rsv, op |-> f.op, masked |-> f.masked,
                    length |-> Len(f.payload)]
    OBVIOUS
<1>5. PICK r : r = [err |-> NoError, mask |-> Mask, from |-> k, h |-> h]
    OBVIOUS
<1>6. NextFrame(P) = IF CheckHeader(h) THEN r ELSE Failed("protocol error")
    <2>1. NextFrame(P) = IF CheckHeader(h)
                         THEN [err |-> NoError, mask |-> IF f.masked THEN Mask ELSE <<>>,
                               from |-> HeaderLen(f), h |-> h]
                         ELSE Failed("protocol error")
        BY <1>3, <1>4, NextFrameRead
    <2>2. (IF f.masked THEN Mask ELSE <<>>) = Mask
        OBVIOUS
    <2> QED
        BY <1>2, <1>5, <2>1, <2>2
<1>7. /\ r.err = NoError /\ r.from = k /\ r.mask = Mask /\ r.h.masked = TRUE
      /\ r.h.length = n /\ r.h.op = f.op /\ r.h.fin = f.fin
    <2>1. f.masked = TRUE
        BY FieldsTyped
    <2> QED
        BY <1>2, <1>4, <1>5, <2>1
<1>8. Payload(r, P) = f.payload
    BY <1>1, <1>2, <1>7, PayloadRead
<1>9. WholeMessage(r, P) <=> f.fin /\ (f.op = OpText => ValidUTF8(f.payload))
    <2>1. Len(P) >= r.from + r.h.length
        BY <1>2, <1>7
    <2> QED
        BY ONLY <1>7, <1>8, <2>1 DEF WholeMessage
<1>10. CASE CheckHeader(h)
    <2>1. NextFrame(P) = r
        BY <1>6, <1>10
    <2>2. WholeMessage(r, P) <=> Lawful(f)
        BY <1>4, <1>9, <1>10, LawfulPasses
    <2>3. ReadClientMessage(P) =
            IF WholeMessage(r, P) THEN [op |-> r.h.op, payload |-> Payload(r, P)] ELSE ReadError
        BY <1>7, <2>1, SMT DEF ReadClientMessage
    <2> QED
        BY <1>1, <1>7, <1>8, <2>2, <2>3 DEF Expected
<1>11. CASE ~CheckHeader(h)
    <2>1. NextFrame(P) = Failed("protocol error")
        BY <1>6, <1>11
    <2>2. Failed("protocol error").err # NoError
        BY DEF Failed, NoError
    <2>3. ReadClientMessage(P) = ReadError
        BY <2>1, <2>2 DEF ReadClientMessage
    <2>4. ~Lawful(f)
        BY <1>4, <1>11, LawfulPasses
    <2> QED
        BY <1>1, <2>3, <2>4 DEF Expected
<1> QED
    BY <1>10, <1>11

\* A header that is read gives where its payload begins and how long it is.
LEMMA HeaderReadTyped ==
    ASSUME NEW in \in Seq(Byte), NEW r, r = ReadHeaderFromBytes(in), r.err = NoError
    PROVE  r.offset \in Nat /\ r.length \in Nat
<1>1. ~(Len(in) < 2)
    <2>1. Len(in) < 2 => r = Failed(NeedMoreData)
        BY SMT DEF ReadHeaderFromBytes
    <2> QED
        BY <2>1, ErrorsDiffer
<1>2. PICK b \in Byte : b = in[2]
    BY <1>1
<1>3. PICK ext \in {0, 2, 8} : ext = LengthBytes(b)
    BY DEF LengthBytes
<1>4. PICK extra \in Nat : extra = ExtraBytes(b) /\ extra >= ext
    BY <1>3 DEF ExtraBytes
<1>5. b % 128 \in Nat
    BY DEF Byte
<1>6. CASE extra = 0
    <2>1. r.offset = 0 /\ r.length = b % 128
        BY <1>1, <1>2, <1>3, <1>4, <1>6, SMT DEF ReadHeaderFromBytes
    <2> QED
        BY <1>5, <2>1
<1>7. CASE extra # 0
    <2>1. ~(Len(in) < extra + 2) /\ ~(ext = 8 /\ in[3] >= 128)
        <3>1. (Len(in) < extra + 2) => r = Failed(NeedMoreData)
            BY <1>1, <1>2, <1>3, <1>4, <1>7, SMT DEF ReadHeaderFromBytes
        <3>2. (~(Len(in) < extra + 2) /\ ext = 8 /\ in[3] >= 128) => r = Failed(HeaderLengthMSB)
            BY <1>1, <1>2, <1>3, <1>4, <1>7, SMT DEF ReadHeaderFromBytes
        <3> QED
            BY <3>1, <3>2, ErrorsDiffer
    <2>2. /\ r.offset = extra + 2
          /\ r.length = IF ext = 0 THEN b % 128 ELSE BigEndian(SubSeq(in, 3, 2 + ext))
        BY <1>1, <1>2, <1>3, <1>4, <1>7, <2>1, SMT DEF ReadHeaderFromBytes
    <2>3. ext # 0 => BigEndian(SubSeq(in, 3, 2 + ext)) \in Nat
        <3> SUFFICES ASSUME ext # 0 PROVE BigEndian(SubSeq(in, 3, 2 + ext)) \in Nat
            OBVIOUS
        <3>1. ext + 2 <= Len(in)
            BY <1>4, <2>1
        <3>2. \A i \in 3..(2 + ext) : in[i] \in Byte
            BY <3>1, ElementOfSeq
        <3>3. PICK s \in Seq(Byte) : s = SubSeq(in, 3, 2 + ext) /\ Len(s) = ext
            <4>1. PICK k \in Int : k = 2 + ext /\ 3 <= k
                OBVIOUS
            <4>2. SubSeq(in, 3, k) \in Seq(Byte) /\ Len(SubSeq(in, 3, k)) = k - 3 + 1
                BY <3>2, <4>1, SubSeqProperties
            <4>3. k - 3 + 1 = ext
                BY <4>1
            <4> QED
                BY <4>1, <4>2, <4>3
        <3>6. \A i \in 1..ext : s[i] \in Nat
            <4>1. \A i \in 1..ext : s[i] \in Byte
                BY <3>3, ElementOfSeq
            <4>2. Byte \subseteq Nat
                BY DEF Byte
            <4> QED
                BY <4>1, <4>2
        <3>4. CASE ext = 2
            <4>1. s[1] \in Nat /\ s[2] \in Nat /\ Len(s) = 2
                BY <3>3, <3>4, <3>6
            <4>2. BigEndian(s) = 0 + 256 * s[1] + s[2]
                BY <4>1 DEF BigEndian
            <4> QED
                BY <3>3, <4>1, <4>2
        <3>5. CASE ext = 8
            <4>1. s[6] \in Nat /\ s[7] \in Nat /\ s[8] \in Nat /\ Len(s) = 8
                BY <3>3, <3>5, <3>6
            <4>3. Huge \in Nat
                BY DEF Huge
            <4>2. BigEndian(s) \in {Huge, 65536 * s[6] + 256 * s[7] + s[8]}
                BY <4>1 DEF BigEndian
            <4>4. 65536 * s[6] + 256 * s[7] + s[8] \in Nat
                <5>1. PICK x \in Nat, y \in Nat, z \in Nat : x = s[6] /\ y = s[7] /\ z = s[8]
                    BY <4>1
                <5>2. 65536 * x + 256 * y + z \in Nat
                    OBVIOUS
                <5> QED
                    BY <5>1, <5>2
            <4>5. BigEndian(s) \in Nat
                BY <4>2, <4>3, <4>4
            <4> QED
                BY <3>3, <4>5
        <3> QED
            BY <3>4, <3>5
    <2> QED
        BY <1>5, <2>2, <2>3
<1> QED
    BY <1>6, <1>7

\* The codec gives a number of bytes to shift.
LEMMA OffsetTyped ==
    ASSUME NEW in \in Seq(Byte), ReadFrameFromBytes(in).err = NoError
    PROVE  ReadFrameFromBytes(in).readoffset \in Nat
<1>1. PICK r : r = ReadHeaderFromBytes(in)
    OBVIOUS
<1>2. r.err = NoError
    BY <1>1, SMT DEF ReadFrameFromBytes
<1>3. r.offset \in Nat /\ r.length \in Nat
    BY <1>1, <1>2, HeaderReadTyped
<1>4. ReadFrameFromBytes(in).readoffset \in {0, r.offset + r.length}
    <2>1. FrameIncomplete(r, in) /\ r.length # 0 => ReadFrameFromBytes(in) = Failed(NeedMoreData)
        BY <1>1, <1>2, SMT DEF ReadFrameFromBytes
    <2>2. ~(FrameIncomplete(r, in) /\ r.length # 0)
        BY <2>1, ErrorsDiffer
    <2> QED
        BY <1>1, <1>2, <2>2, SMT DEF ReadFrameFromBytes
<1> QED
    BY <1>3, <1>4

(***************************************************************************)
(* The steps                                                               *)
(***************************************************************************)
\* What the buffer is after a shift.
LEMMA ShiftTyped ==
    ASSUME buf \in Seq(Byte), NEW n \in Nat, ShiftN(n)
    PROVE  buf' \in Seq(Byte)
<1>1. CASE n <= 0
    BY <1>1, EmptySeq DEF ShiftN
<1>2. CASE ~(n <= 0)
    <2>1. Len(buf) \in Nat /\ n + 1 \in Int /\ \A i \in (n + 1)..Len(buf) : buf[i] \in Byte
        BY ElementOfSeq, LenProperties
    <2>2. SubSeq(buf, n + 1, Len(buf)) \in Seq(Byte)
        BY <2>1, SubSeqProperties
    <2> QED
        BY <1>2, <2>2 DEF ShiftN
<1> QED
    BY <1>1, <1>2

LEMMA LineErrTyped ==
    ASSUME NEW l \in RequestLines
    PROVE  /\ LineErr(l) \in {0, 405, 505}
           /\ LineErr(l) # 0 => LineErr(l) \in {405, 505}
BY DEF LineErr, RequestLines

LEMMA Initially ==
    Init => IInv
<1> SUFFICES ASSUME Init PROVE IInv
    OBVIOUS
<1>1. todo \in Seq(0..255)
    <2>1. HeadLen \in Nat
        BY ConstantsAssumption
    <2>2. [i \in 1..HeadLen |-> 0] \in [1..HeadLen -> 0..255]
        OBVIOUS
    <2> QED
        BY <2>1, <2>2 DEF Init
<1>2. TypeOK
    <2>1. buf \in Seq(0..255) /\ sent \in Seq(PeerFrames)
        BY EmptySeq DEF Init
    <2> QED
        BY <1>1, <2>1 DEF Init, TypeOK
<1> QED
    BY <1>2 DEF Init, IInv, LinesFit, HandledAfterUpgrade, HandshakeExact

\* Nothing outside the handshake touches what it keeps.
LEMMA FramesKeepHandshake ==
    ASSUME LinesFit, HandledAfterUpgrade, HandshakeExact, UNCHANGED http,
           \/ phase' = phase /\ handled' = handled
           \/ phase = "open" /\ phase' \in {"open", "closed"}
    PROVE  LinesFit' /\ HandledAfterUpgrade' /\ HandshakeExact'
<1>1. seen' = seen /\ lines' = lines /\ err' = err
    BY DEF http
<1>2. CASE phase' = phase /\ handled' = handled
    BY <1>1, <1>2 DEF LinesFit, HandledAfterUpgrade, HandshakeExact
<1>3. CASE phase = "open" /\ phase' \in {"open", "closed"}
    BY <1>1, <1>3 DEF LinesFit, HandledAfterUpgrade, HandshakeExact
<1> QED
    BY <1>2, <1>3

LEMMA PeerSendsStep ==
    ASSUME IInv, NEW f \in PeerFrames, PeerSends(f)
    PROVE  IInv'
<1>1. todo' \in Seq(0..255)
    <2>1. todo \in Seq(Byte) /\ PeerBytes(f) \in Seq(Byte)
        BY PeerLayout DEF IInv, TypeOK, Byte
    <2> QED
        BY <2>1, ConcatProperties DEF PeerSends, Byte
<1>2. sent' \in Seq(PeerFrames)
    BY AppendProperties DEF PeerSends, IInv, TypeOK
<1>3. UNCHANGED <<phase, http, buf, reading, handled>>
    BY DEF PeerSends
<1>4. TypeOK'
    BY <1>1, <1>2, <1>3 DEF IInv, TypeOK, http
<1> QED
    BY <1>3, <1>4, FramesKeepHandshake DEF IInv

LEMMA ArriveStep ==
    ASSUME IInv, NEW n \in 1..Len(todo), Arrive(n)
    PROVE  IInv'
<1>1. todo \in Seq(Byte) /\ buf \in Seq(Byte) /\ Len(todo) \in Nat
    BY LenProperties DEF IInv, TypeOK, Byte
<1>2. \A i \in 1..Len(todo) : todo[i] \in Byte
    BY <1>1, ElementOfSeq
<1>3. SubSeq(todo, 1, n) \in Seq(Byte)
    <2>1. \A i \in 1..n : todo[i] \in Byte
        BY <1>1, <1>2
    <2> QED
        BY <2>1, SubSeqProperties
<1>4. SubSeq(todo, n + 1, Len(todo)) \in Seq(Byte)
    <2>1. n + 1 \in Int /\ Len(todo) \in Int /\ \A i \in (n + 1)..Len(todo) : todo[i] \in Byte
        BY <1>1, <1>2
    <2> QED
        BY <2>1, SubSeqProperties
<1>5. buf' \in Seq(0..255) /\ todo' \in Seq(0..255)
    BY <1>1, <1>3, <1>4, ConcatProperties DEF Arrive, Byte
<1>6. UNCHANGED <<phase, http, sent, handled>> /\ reading' = TRUE /\ phase # "closed"
    BY DEF Arrive
<1>7. TypeOK'
    BY <1>5, <1>6 DEF IInv, TypeOK, http
<1> QED
    BY <1>6, <1>7, FramesKeepHandshake DEF IInv

LEMMA DecodeRequestStep ==
    ASSUME IInv, DecodeRequest
    PROVE  IInv'
<1>1. buf' \in Seq(0..255)
    <2>1. CASE StopReading
        BY <2>1 DEF StopReading, IInv, TypeOK
    <2>2. CASE ShiftN(HeadLen)
        <3>1. HeadLen \in Nat /\ buf \in Seq(Byte)
            BY ConstantsAssumption DEF IInv, TypeOK, Byte
        <3> QED
            BY <2>2, <3>1, ShiftTyped DEF Byte
    <2> QED
        BY <2>1, <2>2 DEF DecodeRequest
<1>2. /\ UNCHANGED <<http, todo, sent, handled>>
      /\ phase = "http" /\ phase' \in {"http", "line"} /\ reading' \in BOOLEAN
    BY DEF DecodeRequest, StopReading, IInv, TypeOK
<1>3. TypeOK'
    BY <1>1, <1>2 DEF IInv, TypeOK, http
<1>4. LinesFit' /\ HandledAfterUpgrade' /\ HandshakeExact'
    BY <1>2 DEF IInv, LinesFit, HandledAfterUpgrade, HandshakeExact, http
<1> QED
    BY <1>3, <1>4 DEF IInv

LEMMA RequestLineStep ==
    ASSUME IInv, NEW l \in RequestLines, RequestLine(l)
    PROVE  IInv'
<1>1. /\ phase = "line" /\ phase' \in {"closed", "reply", "headers"}
      /\ UNCHANGED <<seen, lines, bytes, sent, handled>>
      /\ err' = LineErr(l) /\ (phase' = "reply" => LineErr(l) # 0)
    BY DEF RequestLine
<1>2. err' \in {0, 405, 505} /\ (phase' = "reply" => err' \in {405, 505})
    BY <1>1, LineErrTyped
<1>3. lines = {} /\ seen = {}
    BY <1>1 DEF IInv, LinesFit
<1>4. handled = <<>> /\ HandledAfterUpgrade'
    BY <1>1 DEF IInv, HandledAfterUpgrade
<1>5. TypeOK'
    BY <1>1, <1>2, <1>4 DEF IInv, TypeOK, bytes
<1>6. LinesFit'
    BY <1>1, <1>3 DEF LinesFit
<1>7. HandshakeExact'
    BY <1>2 DEF HandshakeExact
<1> QED
    BY <1>4, <1>5, <1>6, <1>7 DEF IInv

LEMMA HeaderLineStep ==
    ASSUME IInv, NEW l \in HeaderLines, HeaderLine(l)
    PROVE  IInv'
<1>1. /\ phase = "headers" /\ phase' \in {"headers", "reply"}
      /\ lines' = lines \cup {l} /\ seen' = seen \cup ({l.key} \cap Required)
      /\ UNCHANGED <<bytes, sent, handled>>
    BY DEF HeaderLine
<1>2. l.good => (phase' = "headers" /\ err' = 0)
    BY DEF HeaderLine
<1>3. ~l.good => (phase' = "reply" /\ err' \in {400, 426})
    BY DEF HeaderLine, BadLine
<1>4. TypeOK'
    BY <1>1, <1>2, <1>3 DEF IInv, TypeOK, bytes, HandledAfterUpgrade
<1>5. LinesFit'
    <2> SUFFICES ASSUME phase' = "headers"
                 PROVE  (\A k \in lines' : k.good) /\ seen' = {k.key : k \in lines'} \cap Required
        BY <1>1 DEF LinesFit
    <2>1. l.good /\ (\A k \in lines : k.good) /\ seen = {k.key : k \in lines} \cap Required
        BY <1>1, <1>3 DEF IInv, LinesFit
    <2> QED
        BY <1>1, <2>1
<1>6. HandshakeExact'
    <2> SUFFICES ASSUME phase' = "reply"
                 PROVE  err' # 0 /\ \E k \in lines' : ~k.good
        BY DEF HandshakeExact
    <2> QED
        BY <1>1, <1>2, <1>3
<1> QED
    BY <1>1, <1>4, <1>5, <1>6 DEF IInv, HandledAfterUpgrade

\* All lines are right, so each has one of the five keys or another one: none
\* of them is a line without a colon.
LEMMA HeadersEndStep ==
    ASSUME IInv, HeadersEnd
    PROVE  IInv'
<1>1. /\ phase = "headers" /\ phase' = "reply"
      /\ UNCHANGED <<seen, lines, bytes, sent, handled>>
      /\ err' = IF seen = Required THEN 0 ELSE 400
    BY DEF HeadersEnd
<1>2. (\A l \in lines : l.good) /\ seen = {l.key : l \in lines} \cap Required
    BY <1>1 DEF IInv, LinesFit
<1>3. \A l \in lines : l.key \in Required \cup {"other"}
    <2> SUFFICES ASSUME NEW l \in lines PROVE l.key \in Required \cup {"other"}
        OBVIOUS
    <2>1. l \in HeaderLines /\ l.good
        BY <1>2 DEF IInv, TypeOK
    <2>2. ~(l \in [key : {"no colon"}, good : {FALSE}])
        BY <2>1
    <2> QED
        BY <2>1, <2>2 DEF HeaderLines, Checked, Required
<1>4. "other" \notin Required
    BY DEF Required
<1>5. {l.key : l \in lines} \ {"other"} = {l.key : l \in lines} \cap Required
    BY <1>3, <1>4
<1>6. TypeOK'
    BY <1>1 DEF IInv, TypeOK, bytes
<1>7. (err' = 0) <=> (seen = Required)
    BY <1>1
<1>8. HandshakeExact'
    BY <1>1, <1>2, <1>5, <1>7 DEF HandshakeExact
<1>9. LinesFit' /\ HandledAfterUpgrade'
    BY <1>1 DEF IInv, LinesFit, HandledAfterUpgrade
<1> QED
    BY <1>6, <1>8, <1>9 DEF IInv

LEMMA UpgradeReplyStep ==
    ASSUME IInv, UpgradeReply
    PROVE  IInv'
<1>1. /\ phase = "reply" /\ phase' \in {"open", "closed"}
      /\ seen' = {} /\ lines' = {} /\ err' = 0
      /\ UNCHANGED <<bytes, sent, handled>>
    BY DEF UpgradeReply
<1>2. handled = <<>>
    BY <1>1 DEF IInv, HandledAfterUpgrade
<1>3. TypeOK'
    BY <1>1, <1>2 DEF IInv, TypeOK, bytes
<1> QED
    BY <1>1, <1>3 DEF IInv, LinesFit, HandledAfterUpgrade, HandshakeExact

LEMMA DecodeFrameStep ==
    ASSUME IInv, DecodeFrame
    PROVE  IInv'
<1>1. PICK r : r = ReadFrameFromBytes(buf)
    OBVIOUS
<1>2. phase = "open" /\ UNCHANGED <<http, todo, sent>> /\ buf \in Seq(Byte)
    BY DEF DecodeFrame, IInv, TypeOK, Byte
<1>3. /\ phase' \in {"open", "closed"} /\ reading' \in BOOLEAN
      /\ (phase' = "closed" => reading' = FALSE)
      /\ buf' = buf \/ (r.err = NoError /\ ShiftN(r.readoffset))
    BY <1>1, <1>2 DEF DecodeFrame, StopReading
<1>4. buf' \in Seq(0..255)
    <2>1. CASE buf' = buf
        BY <1>2, <2>1 DEF Byte
    <2>2. CASE r.err = NoError /\ ShiftN(r.readoffset)
        <3>1. r.readoffset \in Nat
            BY <1>1, <1>2, <2>2, OffsetTyped
        <3> QED
            BY <1>2, <2>2, <3>1, ShiftTyped DEF Byte
    <2> QED
        BY <1>3, <2>1, <2>2
<1>5. TypeOK'
    BY <1>2, <1>3, <1>4 DEF IInv, TypeOK, http
<1> QED
    BY <1>2, <1>3, <1>5, FramesKeepHandshake DEF IInv

LEMMA AsyncWriteStep ==
    ASSUME IInv, AsyncWrite
    PROVE  IInv'
<1>1. UNCHANGED <<phase, http, bytes, sent, handled>>
    BY DEF AsyncWrite
<1>2. TypeOK'
    BY <1>1 DEF IInv, TypeOK, http, bytes
<1> QED
    BY <1>1, <1>2, FramesKeepHandshake DEF IInv

LEMMA Step ==
    ASSUME IInv, [Next]_vars
    PROVE  IInv'
<1>1. CASE UNCHANGED vars
    <2>1. UNCHANGED <<phase, http, bytes, sent, handled>>
        BY <1>1 DEF vars
    <2>2. TypeOK'
        BY <2>1 DEF IInv, TypeOK, http, bytes
    <2> QED
        BY <2>1, <2>2, FramesKeepHandshake DEF IInv
<1>2. CASE Next
    BY <1>2, PeerSendsStep, ArriveStep, DecodeRequestStep, RequestLineStep, HeaderLineStep,
       HeadersEndStep, UpgradeReplyStep, DecodeFrameStep, AsyncWriteStep DEF Next, Handshake
<1> QED
    BY <1>1, <1>2

(***************************************************************************)
(* The theorems                                                            *)
(***************************************************************************)
\* The inductive invariant holds in every reachable state.
THEOREM Invariant == Spec => []IInv
<1>1. Init => IInv
    BY Initially
<1>2. IInv /\ [Next]_vars => IInv'
    BY Step
<1> QED
    BY <1>1, <1>2, PTL DEF Spec

\* The buffers hold bytes whatever the peer sends and however TCP cuts it, and
\* once a frame was handled a socket that is closed is not read on.
THEOREM TypeCorrect == Spec => []TypeOK
<1>1. IInv => TypeOK
    BY DEF IInv
<1> QED
    BY <1>1, Invariant, PTL

\* The upgrade is granted exactly to the requests with the five headers, each
\* right, in any order and number (server.go, the loop of Upgrade).
THEOREM HandshakeIsExact == Spec => []HandshakeExact
<1>1. IInv => HandshakeExact
    BY DEF IInv
<1> QED
    BY <1>1, Invariant, PTL

(***************************************************************************)
(* The stream of bytes: cut[i] is where frame i ends.                      *)
(***************************************************************************)
FrameStands(S, at, P) == \A j \in 1..Len(P) : S[at + j] = P[j]

\* From byte from + 1 on, S is the frames of fs after the first k, one behind
\* the other.
CutsFit(cut, S, from, k, fs) ==
    /\ cut \in [Nat -> Nat] /\ k \in Nat /\ k <= Len(fs)
    /\ cut[k] = from /\ cut[Len(fs)] = Len(S)
    /\ \A i, j \in k..Len(fs) : i <= j => cut[i] <= cut[j]
    /\ \A i \in k..(Len(fs) - 1) :
           /\ cut[i + 1] = cut[i] + Len(PeerBytes(fs[i + 1]))
           /\ FrameStands(S, cut[i], PeerBytes(fs[i + 1]))

LEMMA PeerBytesSeq ==
    ASSUME NEW f \in PeerFrames
    PROVE  /\ PeerBytes(f) \in Seq(Byte) /\ Len(PeerBytes(f)) \in Nat
           /\ 2 <= Len(PeerBytes(f))
<1>1. PICK P \in Seq(Byte) : P = PeerBytes(f)
    BY PeerLayout
<1>2. PICK k \in Nat, n \in Nat : k = HeaderLen(f) /\ n = Len(f.payload) /\ Len(P) = k + n
    BY <1>1, PeerLayout, FieldsTyped
<1>3. 2 <= k
    BY <1>2, FieldsTyped DEF HeaderLen
<1>4. Len(P) \in Nat /\ 2 <= Len(P)
    BY <1>2, <1>3
<1> QED
    BY <1>1, <1>4

\* A frame that is sent goes to the end.
LEMMA CutsAppend ==
    ASSUME NEW S \in Seq(Byte), NEW fs \in Seq(PeerFrames), NEW f \in PeerFrames,
           NEW from, NEW k, NEW cut, CutsFit(cut, S, from, k, fs)
    PROVE  \E c : CutsFit(c, S \o PeerBytes(f), from, k, Append(fs, f))
<1>1. PICK P \in Seq(Byte) : P = PeerBytes(f) /\ Len(P) \in Nat
    BY PeerBytesSeq
<1>2. PICK n \in Nat : n = Len(fs)
    BY LenProperties
<1>3. PICK L \in Nat : L = Len(S)
    BY LenProperties
<1>4. /\ cut \in [Nat -> Nat] /\ k \in Nat /\ k <= n /\ cut[k] = from /\ cut[n] = L
      /\ \A i, j \in k..n : i <= j => cut[i] <= cut[j]
      /\ \A i \in k..(n - 1) : /\ cut[i + 1] = cut[i] + Len(PeerBytes(fs[i + 1]))
                               /\ FrameStands(S, cut[i], PeerBytes(fs[i + 1]))
    BY <1>2, <1>3 DEF CutsFit
<1>6. PICK m \in Nat : m = L + Len(P)
    BY <1>1
<1>5. PICK c : c = [i \in Nat |-> IF i = n + 1 THEN m ELSE cut[i]]
    OBVIOUS
<1>7. /\ c \in [Nat -> Nat] /\ c[n + 1] = m
      /\ \A i \in Nat : i # n + 1 => c[i] = cut[i]
    <2>1. cut \in [Nat -> Nat]
        BY <1>4
    <2>2. \A i \in Nat : (IF i = n + 1 THEN m ELSE cut[i]) \in Nat
        BY ONLY <2>1, m \in Nat
    <2>3. c \in [Nat -> Nat]
        BY ONLY <1>5, <2>2
    <2>4. n + 1 \in Nat
        OBVIOUS
    <2>5. c[n + 1] = m
        BY ONLY <1>5, <2>4
    <2>6. \A i \in Nat : i # n + 1 => c[i] = cut[i]
        BY ONLY <1>5
    <2> QED
        BY <2>3, <2>5, <2>6
<1>8. PICK T \in Seq(Byte) : T = S \o P /\ Len(T) = m
    BY <1>1, <1>3, <1>6, ConcatProperties
<1>9. /\ \A i \in 1..L : T[i] = S[i]
      /\ \A j \in 1..Len(P) : T[L + j] = P[j]
    <2>1. \A i \in 1..(L + Len(P)) : T[i] = IF i <= L THEN S[i] ELSE P[i - L]
        BY <1>1, <1>3, <1>8, ConcatProperties
    <2>2. ASSUME NEW i \in 1..L PROVE T[i] = S[i]
        <3>1. i \in 1..(L + Len(P)) /\ i <= L
            BY <1>1
        <3> QED
            BY <2>1, <3>1
    <2>3. ASSUME NEW j \in 1..Len(P) PROVE T[L + j] = P[j]
        <3>1. L + j \in 1..(L + Len(P)) /\ ~(L + j <= L) /\ (L + j) - L = j
            BY <1>1
        <3> QED
            BY <2>1, <3>1
    <2> QED
        BY <2>2, <2>3
<1>10. PICK gs \in Seq(PeerFrames) :
           /\ gs = Append(fs, f) /\ Len(gs) = n + 1
           /\ \A i \in 1..n : gs[i] = fs[i]
           /\ gs[n + 1] = f
    BY <1>2, AppendProperties
<1>11. c[k] = from /\ c[n + 1] = Len(T) /\ k <= n + 1
    BY <1>4, <1>7, <1>8
<1>12. ASSUME NEW i \in k..(n + 1), NEW j \in k..(n + 1), i <= j PROVE c[i] <= c[j]
    <2>1. ASSUME NEW a \in k..n PROVE a \in Nat /\ c[a] = cut[a] /\ cut[a] \in Nat /\ cut[a] <= L
        <3>1. a \in Nat /\ a # n + 1 /\ n \in k..n /\ a <= n
            BY <1>4
        <3> QED
            BY <1>4, <1>7, <3>1
    <2>2. CASE j = n + 1 /\ i # n + 1
        <3>1. i \in k..n
            BY <2>2
        <3>2. PICK a \in Nat : a = c[i] /\ a <= L
            BY <2>1, <3>1
        <3>3. a <= m
            BY <1>1, <1>6, <3>2
        <3> QED
            BY <1>7, <2>2, <3>2, <3>3
    <2>3. CASE j # n + 1
        <3>1. i \in k..n /\ j \in k..n
            BY <1>12, <2>3
        <3> QED
            BY <1>4, <1>12, <2>1, <3>1
    <2>4. CASE i = n + 1
        <3>1. j = n + 1
            BY <1>12, <2>4
        <3> QED
            BY <1>7, <2>4, <3>1
    <2> QED
        BY <2>2, <2>3, <2>4
<1>13. ASSUME NEW i \in k..n
       PROVE  /\ c[i + 1] = c[i] + Len(PeerBytes(gs[i + 1]))
              /\ FrameStands(T, c[i], PeerBytes(gs[i + 1]))
    <2>1. CASE i = n
        <3>1. c[n] = L /\ gs[n + 1] = f
            BY <1>4, <1>7, <1>10
        <3>2. c[n + 1] = L + Len(P)
            BY <1>6, <1>7
        <3> QED
            BY <1>1, <1>9, <2>1, <3>1, <3>2 DEF FrameStands
    <2>2. CASE i # n
        <3>1. i \in k..(n - 1) /\ i + 1 \in 1..n /\ i \in Nat /\ i # n + 1 /\ i + 1 # n + 1 /\ i + 1 \in k..n
            BY <1>4, <2>2
        <3>2. gs[i + 1] = fs[i + 1] /\ c[i] = cut[i] /\ c[i + 1] = cut[i + 1]
            <4>1. PICK i1 \in Nat : i1 = i + 1 /\ i1 # n + 1 /\ i1 \in 1..n
                BY <3>1
            <4>2. gs[i1] = fs[i1]
                BY <1>10, <4>1
            <4>3. c[i1] = cut[i1] /\ c[i] = cut[i]
                BY <1>7, <3>1, <4>1
            <4> QED
                BY <4>1, <4>2, <4>3
        <3>3. fs[i + 1] \in PeerFrames
            BY <1>2, <3>1, ElementOfSeq
        <3>4. PICK Q \in Seq(Byte) : Q = PeerBytes(fs[i + 1]) /\ Len(Q) \in Nat
            BY <3>3, PeerBytesSeq
        <3>5. cut[i + 1] = cut[i] + Len(Q) /\ FrameStands(S, cut[i], Q) /\ cut[i] \in Nat
            BY <1>4, <3>1, <3>4
        <3>6. cut[i + 1] <= L
            <4>1. n \in k..n /\ i + 1 <= n
                BY <1>4, <3>1
            <4> QED
                BY <1>4, <3>1, <4>1
        <3>7. ASSUME NEW j \in 1..Len(Q) PROVE T[cut[i] + j] = Q[j]
            <4>1. cut[i] + j \in 1..L
                BY <3>4, <3>5, <3>6
            <4> QED
                BY <1>9, <3>5, <4>1 DEF FrameStands
        <3> QED
            BY <3>2, <3>4, <3>5, <3>7 DEF FrameStands
    <2> QED
        BY <2>1, <2>2
<1>14. CutsFit(c, T, from, k, gs)
    <2>1. (n + 1) - 1 = n
        OBVIOUS
    <2> QED
        BY <1>4, <1>7, <1>10, <1>11, <1>12, <1>13, <2>1 DEF CutsFit
<1> QED
    BY <1>1, <1>8, <1>10, <1>14

\* The bytes up to a border are taken away.
LEMMA CutsShift ==
    ASSUME NEW S \in Seq(Byte), NEW fs \in Seq(PeerFrames),
           NEW from, NEW k, NEW cut, CutsFit(cut, S, from, k, fs),
           NEW k2 \in k..Len(fs), NEW m, m = cut[k2]
    PROVE  \E c : CutsFit(c, SubSeq(S, m + 1, Len(S)), 0, k2, fs)
<1>1. PICK n \in Nat : n = Len(fs)
    BY LenProperties
<1>2. PICK L \in Nat : L = Len(S)
    BY LenProperties
<1>3. /\ cut \in [Nat -> Nat] /\ k \in Nat /\ k <= n /\ cut[k] = from /\ cut[n] = L
      /\ \A i, j \in k..n : i <= j => cut[i] <= cut[j]
      /\ \A i \in k..(n - 1) : /\ cut[i + 1] = cut[i] + Len(PeerBytes(fs[i + 1]))
                               /\ FrameStands(S, cut[i], PeerBytes(fs[i + 1]))
    BY <1>1, <1>2 DEF CutsFit
<1>4. k2 \in Nat /\ k2 <= n /\ k2 \in k..n /\ n \in k..n /\ (\A i \in k2..n : i \in k..n /\ i \in Nat)
    BY <1>1, <1>3
<1>5. m \in Nat /\ m <= L
    BY <1>3, <1>4
<1>6. PICK c : c = [i \in Nat |-> IF cut[i] >= m THEN cut[i] - m ELSE 0]
    OBVIOUS
<1>7. c \in [Nat -> Nat] /\ \A i \in k2..n : cut[i] \in Nat /\ m <= cut[i] /\ cut[i] <= L /\ c[i] = cut[i] - m
    <2>1. c \in [Nat -> Nat]
        <3>1. cut \in [Nat -> Nat]
            BY <1>3
        <3>2. ASSUME NEW i \in Nat PROVE (IF cut[i] >= m THEN cut[i] - m ELSE 0) \in Nat
            <4>1. PICK x \in Nat : x = cut[i]
                BY <3>1
            <4>2. x >= m => x - m \in Nat
                BY <1>5
            <4> QED
                BY <4>1, <4>2
        <3> QED
            BY ONLY <1>6, <3>2
    <2>2. ASSUME NEW i \in k2..n PROVE cut[i] \in Nat /\ m <= cut[i] /\ cut[i] <= L /\ c[i] = cut[i] - m
        <3>1. i \in k..n /\ i \in Nat /\ k2 <= i /\ i <= n
            BY <1>4
        <3>2. cut[i] \in Nat /\ m <= cut[i] /\ cut[i] <= L
            BY <1>3, <1>4, <3>1
        <3>3. c[i] = cut[i] - m
            BY <1>5, <1>6, <3>1, <3>2
        <3> QED
            BY <3>2, <3>3
    <2> QED
        BY <2>1, <2>2
<1>8. PICK T : T = SubSeq(S, m + 1, L)
    OBVIOUS
<1>9. Len(T) = L - m /\ \A i \in 1..(L - m) : T[i] = S[m + i]
    <2>1. PICK lo \in Int : lo = m + 1 /\ 1 <= lo
        BY <1>5
    <2>2. \A i \in lo..L : S[i] \in Byte
        <3>1. \A i \in lo..L : i \in 1..Len(S)
            BY <1>2, <2>1
        <3> QED
            BY <3>1, ElementOfSeq
    <2>3. /\ Len(SubSeq(S, lo, L)) = IF lo <= L THEN L - lo + 1 ELSE 0
          /\ \A i \in 1..(L - lo + 1) : SubSeq(S, lo, L)[i] = S[lo + i - 1]
        BY <2>2, SubSeqProperties
    <2>4. L - lo + 1 = L - m /\ (~(lo <= L) => L - m = 0)
        BY <1>5, <2>1
    <2>5. Len(T) = L - m
        BY <1>8, <2>1, <2>3, <2>4
    <2>6. ASSUME NEW i \in 1..(L - m) PROVE T[i] = S[m + i]
        <3>1. lo + i - 1 = m + i /\ i \in 1..(L - lo + 1)
            BY <1>5, <2>1, <2>4
        <3> QED
            BY <1>8, <2>1, <2>3, <3>1
    <2> QED
        BY <2>5, <2>6
<1>10. c[k2] = 0 /\ c[n] = Len(T)
    <2>1. k2 \in k2..n /\ n \in k2..n
        BY <1>4
    <2> QED
        BY <1>3, <1>5, <1>7, <1>9, <2>1
<1>11. ASSUME NEW i \in k2..n, NEW j \in k2..n, i <= j PROVE c[i] <= c[j]
    <2>1. cut[i] <= cut[j]
        BY <1>3, <1>4, <1>11
    <2>2. PICK a \in Nat, b \in Nat : a = cut[i] /\ b = cut[j] /\ c[i] = a - m /\ c[j] = b - m
        BY <1>7
    <2> QED
        BY <1>5, <2>1, <2>2
<1>12. ASSUME NEW i \in k2..(n - 1)
       PROVE  /\ c[i + 1] = c[i] + Len(PeerBytes(fs[i + 1]))
              /\ FrameStands(T, c[i], PeerBytes(fs[i + 1]))
    <2>1. i \in k2..n /\ i + 1 \in k2..n /\ i \in k..(n - 1) /\ i + 1 \in 1..n
        BY <1>3, <1>4
    <2>2. fs[i + 1] \in PeerFrames
        BY <1>1, <2>1, ElementOfSeq
    <2>3. PICK Q \in Seq(Byte) : Q = PeerBytes(fs[i + 1]) /\ Len(Q) \in Nat
        BY <2>2, PeerBytesSeq
    <2>4. cut[i + 1] = cut[i] + Len(Q) /\ FrameStands(S, cut[i], Q)
        BY <1>3, <2>1, <2>3
    <2>5. PICK a \in Nat, b \in Nat :
              /\ a = cut[i] /\ b = cut[i + 1] /\ c[i] = a - m /\ c[i + 1] = b - m
              /\ m <= a /\ b <= L /\ b = a + Len(Q)
        BY <1>7, <2>1, <2>4
    <2>8. PICK q \in Nat : q = Len(Q) /\ b = a + q
        BY <2>3, <2>5
    <2>10. PICK M \in Nat : M = m
        BY <1>5
    <2>11. M <= a /\ a + q <= L /\ c[i] = a - M /\ c[i + 1] = (a + q) - M
        BY <2>5, <2>8, <2>10
    <2>12. PICK x \in Nat : x = a - M
        BY <2>11
    <2>9. x = c[i] /\ x + q <= L - M /\ a = x + M
        BY <2>11, <2>12
    <2>13. x + q <= L - M /\ a = x + M
        BY <2>9
    <2>6. c[i + 1] = c[i] + Len(Q)
        <3>1. b - m = x + q
            <4>1. (a + q) - M = x + q
                BY ONLY <2>13, x \in Nat, q \in Nat, a \in Nat, M \in Nat
            <4> QED
                BY <2>8, <2>10, <4>1
        <3> QED
            BY <2>5, <2>8, <2>9, <3>1
    <2>7. ASSUME NEW j \in 1..Len(Q) PROVE T[c[i] + j] = Q[j]
        <3>0. j \in 1..q
            BY <2>8
        <3>3. x + j \in 1..(L - M) /\ M + (x + j) = a + j
            BY ONLY <2>13, <3>0, x \in Nat, q \in Nat, a \in Nat, M \in Nat, L \in Nat
        <3>1. c[i] + j \in 1..(L - m) /\ m + (c[i] + j) = a + j
            BY <2>9, <2>10, <3>3
        <3>2. T[c[i] + j] = S[a + j]
            BY <1>9, <3>1
        <3> QED
            BY <2>4, <2>5, <3>2 DEF FrameStands
    <2> QED
        BY <2>3, <2>6, <2>7 DEF FrameStands
<1>13. CutsFit(c, T, 0, k2, fs)
    BY <1>1, <1>4, <1>7, <1>10, <1>11, <1>12 DEF CutsFit
<1> QED
    BY <1>2, <1>8, <1>13

\* The next frame stands at the front.
LEMMA CutsFirst ==
    ASSUME NEW S \in Seq(Byte), NEW fs \in Seq(PeerFrames), NEW k, NEW cut,
           CutsFit(cut, S, 0, k, fs), k # Len(fs)
    PROVE  /\ k + 1 \in 1..Len(fs) /\ k + 1 \in k..Len(fs)
           /\ cut[k + 1] = Len(PeerBytes(fs[k + 1])) /\ cut[k + 1] <= Len(S)
           /\ FrameStands(S, 0, PeerBytes(fs[k + 1]))
<1>1. PICK n \in Nat : n = Len(fs)
    BY LenProperties
<1>2. /\ cut \in [Nat -> Nat] /\ k \in Nat /\ k <= n /\ cut[k] = 0 /\ cut[n] = Len(S)
      /\ \A i, j \in k..n : i <= j => cut[i] <= cut[j]
      /\ \A i \in k..(n - 1) : /\ cut[i + 1] = cut[i] + Len(PeerBytes(fs[i + 1]))
                               /\ FrameStands(S, cut[i], PeerBytes(fs[i + 1]))
    BY <1>1 DEF CutsFit
<1>3. k + 1 \in 1..n /\ k + 1 \in k..n /\ k \in k..(n - 1) /\ n \in k..n /\ k + 1 <= n
    BY <1>1, <1>2
<1>4. cut[k + 1] <= Len(S)
    BY <1>2, <1>3
<1>5. fs[k + 1] \in PeerFrames
    BY <1>1, <1>3, ElementOfSeq
<1>6. Len(PeerBytes(fs[k + 1])) \in Nat
    BY <1>5, PeerBytesSeq
<1>7. cut[k + 1] = 0 + Len(PeerBytes(fs[k + 1])) /\ FrameStands(S, 0, PeerBytes(fs[k + 1]))
    BY <1>2, <1>3
<1>8. cut[k + 1] = Len(PeerBytes(fs[k + 1]))
    BY <1>6, <1>7
<1> QED
    BY <1>1, <1>3, <1>4, <1>7, <1>8

(***************************************************************************)
(* The second invariant: the bytes on their way are the frames to come     *)
(***************************************************************************)
\* The bytes of the request that are not yet taken away.
Ahead == IF phase = "http" THEN HeadLen ELSE 0

\* In front of the loop are exactly the bytes of the frames not handled yet.
StreamFits ==
    (~AnyEmpty /\ phase # "closed") =>
        \E cut : CutsFit(cut, buf \o todo, Ahead, Len(handled), sent)

HandledIsSeq == \E M : handled \in Seq(M)

\* The loop does not stop within the handshake once the request is complete.
HandshakeReads == phase \in {"line", "headers", "reply"} => reading

\* It stops only where the codec asked for more bytes.
Idle == (phase = "open" /\ ~reading /\ ~AnyEmpty) => ReadFrameFromBytes(buf).err = NeedMoreData

SInv == IInv /\ StreamFits /\ HandledIsSeq /\ HandshakeReads /\ Idle

LEMMA StreamTyped ==
    ASSUME IInv
    PROVE  /\ buf \in Seq(Byte) /\ todo \in Seq(Byte) /\ buf \o todo \in Seq(Byte)
           /\ sent \in Seq(PeerFrames)
           /\ Len(buf) \in Nat /\ Len(todo) \in Nat /\ Len(sent) \in Nat
           /\ Len(buf \o todo) = Len(buf) + Len(todo)
<1>1. buf \in Seq(Byte) /\ todo \in Seq(Byte) /\ sent \in Seq(PeerFrames)
    BY DEF IInv, TypeOK, Byte
<1>2. buf \o todo \in Seq(Byte) /\ Len(buf \o todo) = Len(buf) + Len(todo)
    BY <1>1, ConcatProperties
<1> QED
    BY <1>1, <1>2, LenProperties

\* Taking bytes from the buffer is taking them from the stream.
LEMMA ShiftStream ==
    ASSUME NEW b \in Seq(Byte), NEW t \in Seq(Byte), NEW m \in Nat, m <= Len(b)
    PROVE  SubSeq(b \o t, m + 1, Len(b \o t)) = SubSeq(b, m + 1, Len(b)) \o t
<1>1. PICK x \in Nat, y \in Nat : x = Len(b) /\ y = Len(t) /\ m <= x
    BY LenProperties
<1>2. PICK S \in Seq(Byte) : /\ S = b \o t /\ Len(S) = x + y
                             /\ \A i \in 1..(x + y) : S[i] = IF i <= x THEN b[i] ELSE t[i - x]
    <2>1. /\ b \o t \in Seq(Byte) /\ Len(b \o t) = Len(b) + Len(t)
          /\ \A i \in 1..(Len(b) + Len(t)) : (b \o t)[i] = IF i <= Len(b) THEN b[i] ELSE t[i - Len(b)]
        BY ConcatProperties
    <2> QED
        BY <1>1, <2>1, Zenon
<1>3. PICK lo \in Int : lo = m + 1
    OBVIOUS
<1>4. PICK B \in Seq(Byte) : /\ B = SubSeq(b, lo, x) /\ Len(B) = x - m
                             /\ \A i \in 1..(x - m) : B[i] = b[m + i]
    <2>1. \A i \in lo..x : b[i] \in Byte
        <3>1. \A i \in lo..x : i \in 1..Len(b)
            BY <1>1, <1>3
        <3> QED
            BY <3>1, ElementOfSeq
    <2>2. /\ SubSeq(b, lo, x) \in Seq(Byte)
          /\ Len(SubSeq(b, lo, x)) = IF lo <= x THEN x - lo + 1 ELSE 0
          /\ \A i \in 1..(x - lo + 1) : SubSeq(b, lo, x)[i] = b[lo + i - 1]
        BY <2>1, SubSeqProperties
    <2>3. x - lo + 1 = x - m /\ (~(lo <= x) => x - m = 0)
        BY <1>1, <1>3
    <2>4. Len(SubSeq(b, lo, x)) = x - m
        BY <2>2, <2>3
    <2>5. ASSUME NEW i \in 1..(x - m) PROVE SubSeq(b, lo, x)[i] = b[m + i]
        <3>1. lo + i - 1 = m + i /\ i \in 1..(x - lo + 1)
            BY <1>3, <2>3
        <3> QED
            BY <2>2, <3>1
    <2> QED
        BY <2>2, <2>4, <2>5
<1>5. PICK T \in Seq(Byte) : /\ T = SubSeq(S, lo, x + y) /\ Len(T) = (x + y) - m
                             /\ \A i \in 1..((x + y) - m) : T[i] = S[m + i]
    <2>1. \A i \in lo..(x + y) : S[i] \in Byte
        <3>1. \A i \in lo..(x + y) : i \in 1..Len(S)
            BY <1>2, <1>3
        <3> QED
            BY <3>1, ElementOfSeq
    <2>0. PICK z \in Int : z = x + y /\ m <= z
        BY <1>1
    <2>2. /\ SubSeq(S, lo, z) \in Seq(Byte)
          /\ Len(SubSeq(S, lo, z)) = IF lo <= z THEN z - lo + 1 ELSE 0
          /\ \A i \in 1..(z - lo + 1) : SubSeq(S, lo, z)[i] = S[lo + i - 1]
        BY <2>0, <2>1, SubSeqProperties
    <2>3. z - lo + 1 = z - m /\ (~(lo <= z) => z - m = 0)
        BY <1>3, <2>0
    <2>4. Len(SubSeq(S, lo, z)) = z - m
        BY <2>2, <2>3
    <2>5. ASSUME NEW i \in 1..(z - m) PROVE SubSeq(S, lo, z)[i] = S[m + i]
        <3>1. lo + i - 1 = m + i /\ i \in 1..(z - lo + 1)
            BY <1>3, <2>3
        <3> QED
            BY <2>2, <3>1
    <2> QED
        BY <2>0, <2>2, <2>4, <2>5
<1>6. /\ B \o t \in Seq(Byte) /\ Len(B \o t) = (x - m) + y
      /\ \A i \in 1..((x - m) + y) : (B \o t)[i] = IF i <= x - m THEN B[i] ELSE t[i - (x - m)]
    <2>1. /\ B \o t \in Seq(Byte) /\ Len(B \o t) = Len(B) + Len(t)
          /\ \A i \in 1..(Len(B) + Len(t)) : (B \o t)[i] = IF i <= Len(B) THEN B[i] ELSE t[i - Len(B)]
        BY ConcatProperties
    <2>2. Len(B) = x - m /\ Len(t) = y
        BY <1>1, <1>4
    <2> QED
        BY <2>1, <2>2, Zenon
<1>7. (x - m) + y = (x + y) - m
    OBVIOUS
<1>8. ASSUME NEW i \in 1..((x + y) - m) PROVE T[i] = (B \o t)[i]
    <2>1. T[i] = S[m + i] /\ i \in 1..((x - m) + y) /\ m + i \in 1..(x + y)
        BY <1>5, <1>7
    <2>2. CASE i <= x - m
        <3>1. i \in 1..(x - m) /\ m + i <= x
            BY <2>2
        <3> QED
            BY <1>2, <1>4, <1>6, <2>1, <2>2, <3>1
    <2>3. CASE ~(i <= x - m)
        <3>1. ~(m + i <= x) /\ (m + i) - x = i - (x - m)
            BY <2>3
        <3> QED
            BY <1>2, <1>6, <2>1, <2>3, <3>1
    <2> QED
        BY <2>2, <2>3
<1>9. T = B \o t
    BY <1>5, <1>6, <1>7, <1>8, SeqEqual
<1> QED
    BY <1>1, <1>2, <1>3, <1>4, <1>5, <1>9

\* What the frame at the front is.
LEMMA FrontFrame ==
    ASSUME SInv, phase = "open", ~AnyEmpty
    PROVE  /\ Len(handled) = Len(sent) => buf = <<>>
           /\ Len(handled) # Len(sent) =>
                \E f \in PeerFrames :
                   /\ Len(handled) + 1 \in 1..Len(sent) /\ f = sent[Len(handled) + 1]
                   /\ f.payload # <<>> /\ Agrees(buf, PeerBytes(f))
                   /\ Len(PeerBytes(f)) <= Len(buf \o todo)
<1>1. PICK S \in Seq(Byte) : S = buf \o todo
    BY StreamTyped DEF SInv
<1>2. PICK cut : CutsFit(cut, S, 0, Len(handled), sent)
    BY <1>1 DEF SInv, StreamFits, Ahead
<1>3. /\ buf \in Seq(Byte) /\ todo \in Seq(Byte) /\ sent \in Seq(PeerFrames)
      /\ Len(buf) \in Nat /\ Len(todo) \in Nat /\ Len(S) = Len(buf) + Len(todo)
    BY <1>1, StreamTyped DEF SInv
<1>4. CASE Len(handled) = Len(sent)
    <2>1. Len(S) = 0
        BY <1>2, <1>4 DEF CutsFit
    <2>2. Len(buf) = 0
        <3>1. PICK x \in Nat, y \in Nat : x = Len(buf) /\ y = Len(todo) /\ 0 = x + y
            BY <1>3, <2>1
        <3> QED
            BY <3>1
    <2> QED
        BY <1>3, <1>4, <2>2, EmptySeq
<1>5. CASE Len(handled) # Len(sent)
    <2>1. /\ Len(handled) + 1 \in 1..Len(sent)
          /\ cut[Len(handled) + 1] = Len(PeerBytes(sent[Len(handled) + 1]))
          /\ cut[Len(handled) + 1] <= Len(S)
          /\ FrameStands(S, 0, PeerBytes(sent[Len(handled) + 1]))
        BY <1>2, <1>3, <1>5, CutsFirst
    <2>2. PICK f \in PeerFrames : f = sent[Len(handled) + 1]
        BY <1>3, <2>1, ElementOfSeq
    <2>3. f.payload # <<>>
        <3>1. DOMAIN sent = 1..Len(sent)
            BY <1>3, LenProperties
        <3> QED
            BY <2>1, <2>2, <3>1 DEF AnyEmpty
    <2>4. PICK P \in Seq(Byte) : P = PeerBytes(f) /\ Len(P) \in Nat
        BY PeerBytesSeq
    <2>5. ASSUME NEW i \in 1..Len(buf), i <= Len(P) PROVE buf[i] = P[i]
        <3>1. i \in 1..Len(P) /\ 0 + i = i /\ i \in 1..(Len(buf) + Len(todo)) /\ i <= Len(buf)
            BY <1>3, <2>4, <2>5
        <3>2. S[i] = P[i]
            BY <2>1, <2>2, <2>4, <3>1 DEF FrameStands
        <3>3. S[i] = buf[i]
            BY <1>1, <1>3, <3>1, ConcatProperties
        <3> QED
            BY <3>2, <3>3
    <2>6. Agrees(buf, PeerBytes(f))
        BY <2>4, <2>5 DEF Agrees
    <2> QED
        BY <1>1, <1>5, <2>1, <2>2, <2>3, <2>6
<1> QED
    BY <1>4, <1>5

(***************************************************************************)
(* The steps keep the second invariant                                     *)
(***************************************************************************)
\* Steps that neither handle nor send a frame nor take bytes away.
LEMMA StreamKept ==
    ASSUME StreamFits, HandledIsSeq, sent' = sent, handled' = handled,
           buf' \o todo' = buf \o todo,
           phase' = "closed" \/ (phase # "closed" /\ Ahead' = Ahead)
    PROVE  StreamFits' /\ HandledIsSeq'
<1>1. AnyEmpty' <=> AnyEmpty
    BY DEF AnyEmpty
<1>2. HandledIsSeq'
    BY DEF HandledIsSeq
<1>3. ASSUME ~AnyEmpty', phase' # "closed"
      PROVE  \E cut : CutsFit(cut, buf' \o todo', Ahead', Len(handled'), sent')
    <2>1. PICK cut : CutsFit(cut, buf \o todo, Ahead, Len(handled), sent)
        BY <1>1, <1>3 DEF StreamFits
    <2>2. CutsFit(cut, buf' \o todo', Ahead', Len(handled'), sent')
        BY <1>3, <2>1
    <2> QED
        BY <2>2
<1> QED
    BY <1>2, <1>3 DEF StreamFits

LEMMA ThreeParts ==
    ASSUME NEW a \in Seq(Byte), NEW b \in Seq(Byte), NEW c \in Seq(Byte)
    PROVE  (a \o b) \o c = a \o (b \o c)
BY ConcatAssociative

LEMMA PeerSendsStream ==
    ASSUME SInv, NEW f \in PeerFrames, PeerSends(f)
    PROVE  StreamFits' /\ HandledIsSeq' /\ HandshakeReads' /\ Idle'
<1>1. /\ UNCHANGED <<phase, buf, reading, handled>> /\ phase # "closed"
      /\ sent' = Append(sent, f) /\ todo' = todo \o PeerBytes(f)
    BY DEF PeerSends
<1>2. /\ buf \in Seq(Byte) /\ todo \in Seq(Byte) /\ sent \in Seq(PeerFrames)
      /\ buf \o todo \in Seq(Byte) /\ PeerBytes(f) \in Seq(Byte)
    BY StreamTyped, PeerBytesSeq DEF SInv
<1>3. AnyEmpty => AnyEmpty'
    <2>1. ASSUME NEW i \in DOMAIN sent PROVE i \in DOMAIN sent' /\ sent'[i] = sent[i]
        <3>1. Len(sent) \in Nat /\ i \in 1..Len(sent)
            BY <1>2, LenProperties
        <3>2. sent' \in Seq(PeerFrames) /\ Len(sent') = Len(sent) + 1 /\ sent'[i] = sent[i]
            BY <1>1, <1>2, <3>1, AppendProperties
        <3>3. i \in 1..Len(sent')
            BY <3>1, <3>2
        <3> QED
            BY <3>2, <3>3, LenProperties
    <2> QED
        BY <2>1 DEF AnyEmpty
<1>4. HandledIsSeq' /\ HandshakeReads' /\ Idle'
    BY <1>1, <1>3 DEF SInv, HandledIsSeq, HandshakeReads, Idle
<1>5. ASSUME ~AnyEmpty', phase' # "closed"
      PROVE  \E cut : CutsFit(cut, buf' \o todo', Ahead', Len(handled'), sent')
    <2>1. PICK cut : CutsFit(cut, buf \o todo, Ahead, Len(handled), sent)
        BY <1>1, <1>3, <1>5 DEF SInv, StreamFits
    <2>2. buf' \o todo' = (buf \o todo) \o PeerBytes(f)
        <3>1. (buf \o todo) \o PeerBytes(f) = buf \o (todo \o PeerBytes(f))
            BY <1>2, ThreeParts
        <3> QED
            BY <1>1, <3>1
    <2>3. Ahead' = Ahead
        BY <1>1 DEF Ahead
    <2>4. \E c : CutsFit(c, (buf \o todo) \o PeerBytes(f), Ahead, Len(handled), Append(sent, f))
        BY <1>2, <2>1, CutsAppend
    <2> QED
        BY <1>1, <2>2, <2>3, <2>4
<1> QED
    BY <1>4, <1>5 DEF StreamFits

LEMMA ArriveStream ==
    ASSUME SInv, NEW n \in 1..Len(todo), Arrive(n)
    PROVE  StreamFits' /\ HandledIsSeq' /\ HandshakeReads' /\ Idle'
<1>1. /\ UNCHANGED <<phase, sent, handled>> /\ phase # "closed" /\ reading' = TRUE
      /\ buf' = buf \o SubSeq(todo, 1, n) /\ todo' = SubSeq(todo, n + 1, Len(todo))
    BY DEF Arrive
<1>2. buf \in Seq(Byte) /\ todo \in Seq(Byte) /\ Len(todo) \in Nat
    BY StreamTyped DEF SInv
<1>3. SubSeq(todo, 1, n) \in Seq(Byte) /\ SubSeq(todo, n + 1, Len(todo)) \in Seq(Byte)
    <2>1. /\ \A i \in 1..n : todo[i] \in Byte
          /\ \A i \in (n + 1)..Len(todo) : todo[i] \in Byte
        BY <1>2, ElementOfSeq
    <2>2. n \in Int /\ n + 1 \in Int /\ Len(todo) \in Int /\ 1 \in Int
        BY <1>2
    <2> QED
        BY <2>1, <2>2, SubSeqProperties
<1>4. SubSeq(todo, 1, n) \o SubSeq(todo, n + 1, Len(todo)) = todo
    <2>1. 1 \in 1..(Len(todo) + 1) /\ n \in (1 - 1)..Len(todo) /\ Len(todo) \in n..Len(todo)
        BY <1>2
    <2>2. SubSeq(todo, 1, n) \o SubSeq(todo, n + 1, Len(todo)) = SubSeq(todo, 1, Len(todo))
        BY <1>2, <2>1, ConcatAdjacentSubSeq
    <2> QED
        BY <1>2, <2>2, SubSeqFull
<1>5. buf' \o todo' = buf \o todo
    <2>1. PICK x \in Seq(Byte), y \in Seq(Byte) :
              x = SubSeq(todo, 1, n) /\ y = SubSeq(todo, n + 1, Len(todo))
        BY <1>3
    <2>2. (buf \o x) \o y = buf \o (x \o y)
        BY <1>2, ThreeParts
    <2> QED
        BY <1>1, <1>4, <2>1, <2>2
<1>6. Ahead' = Ahead
    BY <1>1 DEF Ahead
<1>7. StreamFits' /\ HandledIsSeq'
    BY <1>1, <1>5, <1>6, StreamKept DEF SInv
<1> QED
    BY <1>1, <1>7 DEF HandshakeReads, Idle

LEMMA DecodeRequestStream ==
    ASSUME SInv, DecodeRequest
    PROVE  StreamFits' /\ HandledIsSeq' /\ HandshakeReads' /\ Idle'
<1>1. phase = "http" /\ reading /\ UNCHANGED <<todo, sent, handled>>
    BY DEF DecodeRequest
<1>2. CASE StopReading /\ UNCHANGED phase
    <2>1. buf' \o todo' = buf \o todo /\ Ahead' = Ahead
        BY <1>1, <1>2 DEF StopReading, Ahead
    <2>2. StreamFits' /\ HandledIsSeq'
        BY <1>1, <1>2, <2>1, StreamKept DEF SInv
    <2> QED
        BY <1>1, <1>2, <2>2 DEF HandshakeReads, Idle
<1>3. CASE HeadComplete /\ ShiftN(HeadLen) /\ phase' = "line" /\ UNCHANGED reading
    <2>1. buf \in Seq(Byte) /\ todo \in Seq(Byte) /\ buf \o todo \in Seq(Byte)
          /\ sent \in Seq(PeerFrames) /\ Len(buf) \in Nat /\ Len(sent) \in Nat
        BY StreamTyped DEF SInv
    <2>2. HeadLen \in Nat /\ ~(HeadLen <= 0) /\ HeadLen <= Len(buf)
        BY <1>3, <2>1, ConstantsAssumption DEF HeadComplete
    <2>3. buf' = SubSeq(buf, HeadLen + 1, Len(buf))
        BY <1>3, <2>2 DEF ShiftN
    <2>4. buf' \o todo' = SubSeq(buf \o todo, HeadLen + 1, Len(buf \o todo))
        BY <1>1, <2>1, <2>2, <2>3, ShiftStream
    <2>5. HandledIsSeq' /\ HandshakeReads' /\ Idle'
        BY <1>1, <1>3 DEF SInv, HandledIsSeq, HandshakeReads, Idle
    <2>6. ASSUME ~AnyEmpty'
          PROVE  \E cut : CutsFit(cut, buf' \o todo', Ahead', Len(handled'), sent')
        <3>1. ~AnyEmpty
            BY <1>1, <2>6 DEF AnyEmpty
        <3>2. PICK cut : CutsFit(cut, buf \o todo, HeadLen, Len(handled), sent)
            BY <1>1, <3>1 DEF SInv, StreamFits, Ahead
        <3>3. PICK k \in Nat : k = Len(handled) /\ k <= Len(sent) /\ cut[k] = HeadLen
            BY <3>2 DEF CutsFit
        <3>4. k \in k..Len(sent)
            BY <2>1, <3>3
        <3>5. \E c : CutsFit(c, SubSeq(buf \o todo, HeadLen + 1, Len(buf \o todo)), 0, k, sent)
            BY <2>1, <3>2, <3>3, <3>4, CutsShift
        <3>6. Ahead' = 0
            BY <1>3 DEF Ahead
        <3> QED
            BY <1>1, <2>4, <3>3, <3>5, <3>6
    <2> QED
        BY <2>5, <2>6 DEF StreamFits
<1> QED
    BY <1>2, <1>3 DEF DecodeRequest

\* From the first line of the request to the answer no byte is touched.
LEMMA LinesStream ==
    ASSUME SInv, phase \in {"line", "headers", "reply"},
           phase' \in {"headers", "reply", "open", "closed"},
           UNCHANGED <<bytes, sent, handled>>
    PROVE  StreamFits' /\ HandledIsSeq' /\ HandshakeReads' /\ Idle'
<1>1. reading' = reading /\ buf' = buf /\ todo' = todo /\ reading
    BY DEF bytes, SInv, HandshakeReads
<1>2. Ahead' = Ahead
    BY DEF Ahead
<1>3. StreamFits' /\ HandledIsSeq'
    BY <1>1, <1>2, StreamKept DEF SInv
<1> QED
    BY <1>1, <1>3 DEF HandshakeReads, Idle

LEMMA NothingStream ==
    ASSUME SInv, UNCHANGED <<phase, bytes, sent, handled>>
    PROVE  StreamFits' /\ HandledIsSeq' /\ HandshakeReads' /\ Idle'
<1>1. reading' = reading /\ buf' = buf /\ todo' = todo /\ (AnyEmpty' <=> AnyEmpty)
    BY DEF bytes, AnyEmpty
<1>2. Ahead' = Ahead
    BY DEF Ahead
<1>3. StreamFits' /\ HandledIsSeq'
    BY <1>1, <1>2, StreamKept DEF SInv
<1> QED
    BY <1>1, <1>3 DEF SInv, HandshakeReads, Idle

\* A read error and a close frame close the socket.
LEMMA CloseReacts ==
    ASSUME NEW m, m = ReadError \/ m.op = OpClose
    PROVE  OnReactAfterUpgrade(m).close = TRUE
<1>1. CASE m = ReadError
    BY <1>1 DEF OnReactAfterUpgrade
<1>2. CASE m # ReadError /\ m.op = OpClose
    <2>1. IsControl(m.op) /\ m.op # OpPing /\ m.op # OpPong
        BY <1>2 DEF IsControl, OpClose, OpPing, OpPong
    <2>2. PICK r : r = HandleClose(m.payload)
        OBVIOUS
    <2>3. r.err = TRUE
        BY <2>2, SMT DEF HandleClose
    <2>4. HandleControlMessage(m) = r
        BY <1>2, <2>1, <2>2 DEF HandleControlMessage
    <2> QED
        BY <1>2, <2>1, <2>3, <2>4, SMT DEF OnReactAfterUpgrade
<1> QED
    BY <1>1, <1>2

\* What DecodeFrame does, its data by name.
LEMMA DecodeFrameParts ==
    ASSUME DecodeFrame, NEW r, r = ReadFrameFromBytes(buf)
    PROVE  /\ phase = "open" /\ UNCHANGED <<todo, sent>>
           /\ \/ /\ r.err = NeedMoreData
                 /\ UNCHANGED <<buf, phase, handled>>
              \/ /\ phase' = "closed" /\ UNCHANGED <<buf, handled>>
              \/ r.err = NoError /\ r.frame = <<>> /\ UNCHANGED <<phase, handled>>
              \/ /\ r.err = NoError /\ r.frame # <<>>
                 /\ handled' = Append(handled, ReadClientMessage(r.frame))
                 /\ OnReactAfterUpgrade(ReadClientMessage(r.frame)).close => phase' = "closed"
                 /\ ~OnReactAfterUpgrade(ReadClientMessage(r.frame)).close => phase' = "open" /\ reading'
                 /\ ShiftN(r.readoffset)
BY DEF DecodeFrame, StopReading

\* When nothing is in the buffer the codec asks for more.
LEMMA NothingRead ==
    ReadFrameFromBytes(<<>>).err = NeedMoreData
<1>1. Len(<<>>) < 2
    BY EmptySeq
<1>2. ReadHeaderFromBytes(<<>>) = Failed(NeedMoreData)
    BY <1>1, SMT DEF ReadHeaderFromBytes
<1>3. Failed(NeedMoreData).err = NeedMoreData /\ NeedMoreData # NoError
    BY ErrorsDiffer DEF Failed
<1> QED
    BY <1>2, <1>3, SMT DEF ReadFrameFromBytes

\* A frame that the codec hands on is the next one of the peer.
LEMMA NextHandled ==
    ASSUME SInv, phase = "open", ~AnyEmpty, NEW r, r = ReadFrameFromBytes(buf), r.err = NoError
    PROVE  /\ r.frame # <<>>
           /\ \E f \in PeerFrames :
                /\ Len(handled) # Len(sent)
                /\ Len(handled) + 1 \in 1..Len(sent) /\ f = sent[Len(handled) + 1] /\ ~f.bad
                /\ f.masked => /\ ~(Len(buf) < Len(PeerBytes(f)))
                               /\ r.readoffset = Len(PeerBytes(f)) /\ r.frame = PeerBytes(f)
                /\ ~f.masked => ReadClientMessage(r.frame) = ReadError
<1>1. Len(handled) # Len(sent)
    <2>1. ASSUME Len(handled) = Len(sent) PROVE FALSE
        <3>1. buf = <<>>
            BY <2>1, FrontFrame
        <3>2. ReadFrameFromBytes(buf).err = NeedMoreData
            BY <3>1, NothingRead
        <3> QED
            BY <3>2 DEF NeedMoreData, NoError
    <2> QED
        BY <2>1
<1>2. PICK f \in PeerFrames :
          /\ Len(handled) + 1 \in 1..Len(sent) /\ f = sent[Len(handled) + 1]
          /\ f.payload # <<>> /\ Agrees(buf, PeerBytes(f))
    BY <1>1, FrontFrame
<1>3. buf \in Seq(Byte)
    BY StreamTyped DEF SInv
<1>4. /\ ~f.bad /\ r.frame # <<>>
      /\ f.masked => /\ ~(Len(buf) < Len(PeerBytes(f)))
                     /\ r.readoffset = Len(PeerBytes(f)) /\ r.frame = PeerBytes(f)
      /\ ~f.masked => ReadClientMessage(r.frame) = ReadError
    BY <1>2, <1>3, FrameRead
<1> QED
    BY <1>1, <1>2, <1>4

LEMMA DecodeFrameStream ==
    ASSUME SInv, DecodeFrame
    PROVE  StreamFits' /\ HandledIsSeq' /\ HandshakeReads' /\ Idle'
<1>1. PICK r : r = ReadFrameFromBytes(buf)
    OBVIOUS
<1>2. phase = "open" /\ UNCHANGED <<todo, sent>> /\ (AnyEmpty' <=> AnyEmpty)
    BY DecodeFrameParts DEF AnyEmpty
<1>3. CASE r.err = NeedMoreData /\ UNCHANGED <<buf, phase, handled>>
    <2>1. buf' \o todo' = buf \o todo /\ Ahead' = Ahead
        BY <1>2, <1>3 DEF Ahead
    <2>2. StreamFits' /\ HandledIsSeq'
        BY <1>2, <1>3, <2>1, StreamKept DEF SInv
    <2>3. ReadFrameFromBytes(buf').err = NeedMoreData
        BY <1>1, <1>3
    <2> QED
        BY <1>2, <1>3, <2>2, <2>3 DEF HandshakeReads, Idle
<1>4. CASE phase' = "closed" /\ UNCHANGED <<buf, handled>>
    <2>1. StreamFits' /\ HandledIsSeq'
        BY <1>2, <1>4, StreamKept DEF SInv
    <2> QED
        BY <1>4, <2>1 DEF HandshakeReads, Idle
<1>5. CASE r.err = NoError /\ r.frame = <<>> /\ UNCHANGED <<phase, handled>>
    <2>1. AnyEmpty
        BY <1>1, <1>2, <1>5, NextHandled
    <2>2. HandledIsSeq'
        BY <1>5 DEF SInv, HandledIsSeq
    <2> QED
        BY <1>2, <1>5, <2>1, <2>2 DEF StreamFits, HandshakeReads, Idle
<1>6. CASE /\ r.err = NoError /\ r.frame # <<>>
           /\ handled' = Append(handled, ReadClientMessage(r.frame))
           /\ OnReactAfterUpgrade(ReadClientMessage(r.frame)).close => phase' = "closed"
           /\ ~OnReactAfterUpgrade(ReadClientMessage(r.frame)).close => phase' = "open" /\ reading'
           /\ ShiftN(r.readoffset)
    <2>1. PICK m : m = ReadClientMessage(r.frame)
        OBVIOUS
    <2>2. HandledIsSeq' /\ Len(handled) \in Nat /\ Len(handled') = Len(handled) + 1
        <3>1. PICK M : handled \in Seq(M)
            BY DEF SInv, HandledIsSeq
        <3>2. handled \in Seq(M \cup {m})
            BY <3>1, SeqMonotonic
        <3>3. handled' \in Seq(M \cup {m}) /\ Len(handled') = Len(handled) + 1
            BY <1>6, <2>1, <3>2, AppendProperties
        <3> QED
            BY <3>1, <3>3, LenProperties DEF HandledIsSeq
    <2>3. HandshakeReads' /\ Idle'
        BY <1>6 DEF HandshakeReads, Idle
    <2>4. ASSUME ~AnyEmpty', phase' # "closed"
          PROVE  \E cut : CutsFit(cut, buf' \o todo', Ahead', Len(handled'), sent')
        <3>1. PICK f \in PeerFrames :
                  /\ Len(handled) # Len(sent)
                  /\ Len(handled) + 1 \in 1..Len(sent) /\ f = sent[Len(handled) + 1] /\ ~f.bad
                  /\ f.masked => /\ ~(Len(buf) < Len(PeerBytes(f)))
                                 /\ r.readoffset = Len(PeerBytes(f)) /\ r.frame = PeerBytes(f)
                  /\ ~f.masked => ReadClientMessage(r.frame) = ReadError
            BY <1>1, <1>2, <1>6, <2>4, NextHandled
        <3>2. f.masked
            <4>1. f.masked \in BOOLEAN
                BY FieldsTyped
            <4>2. ASSUME ~f.masked PROVE FALSE
                <5>1. m = ReadError
                    BY <2>1, <3>1, <4>2
                <5>2. OnReactAfterUpgrade(m).close = TRUE
                    BY <5>1, CloseReacts
                <5> QED
                    BY <1>6, <2>1, <2>4, <5>2
            <4> QED
                BY <4>1, <4>2
        <3>3. PICK q \in Nat : q = Len(PeerBytes(f)) /\ 2 <= q
            BY PeerBytesSeq
        <3>4. /\ buf \in Seq(Byte) /\ todo \in Seq(Byte) /\ buf \o todo \in Seq(Byte)
              /\ sent \in Seq(PeerFrames) /\ Len(buf) \in Nat
            BY StreamTyped DEF SInv
        <3>5. q <= Len(buf) /\ ~(q <= 0) /\ r.readoffset = q
            BY <3>1, <3>2, <3>3, <3>4
        <3>6. buf' = SubSeq(buf, q + 1, Len(buf))
            BY <1>6, <3>5 DEF ShiftN
        <3>7. buf' \o todo' = SubSeq(buf \o todo, q + 1, Len(buf \o todo))
            BY <1>2, <3>4, <3>5, <3>6, ShiftStream
        <3>8. PICK cut : CutsFit(cut, buf \o todo, 0, Len(handled), sent)
            BY <1>2, <2>4 DEF SInv, StreamFits, Ahead
        <3>9. /\ Len(handled) + 1 \in Len(handled)..Len(sent)
              /\ cut[Len(handled) + 1] = Len(PeerBytes(sent[Len(handled) + 1]))
            BY <3>1, <3>4, <3>8, CutsFirst
        <3>10. q = cut[Len(handled) + 1]
            BY <3>1, <3>3, <3>9
        <3>11. \E c : CutsFit(c, SubSeq(buf \o todo, q + 1, Len(buf \o todo)), 0, Len(handled) + 1, sent)
            BY <3>4, <3>8, <3>9, <3>10, CutsShift
        <3>12. Ahead' = 0
            BY <1>6 DEF Ahead
        <3> QED
            BY <1>2, <2>2, <3>7, <3>11, <3>12
    <2> QED
        BY <2>2, <2>3, <2>4 DEF StreamFits
<1> QED
    BY <1>1, <1>3, <1>4, <1>5, <1>6, DecodeFrameParts

LEMMA StreamStep ==
    ASSUME SInv, [Next]_vars
    PROVE  SInv'
<1>1. IInv'
    BY Step DEF SInv
<1>2. ASSUME \/ \E l \in RequestLines : RequestLine(l)
             \/ \E l \in HeaderLines : HeaderLine(l)
             \/ HeadersEnd \/ UpgradeReply
      PROVE  /\ phase \in {"line", "headers", "reply"}
             /\ phase' \in {"headers", "reply", "open", "closed"}
             /\ UNCHANGED <<bytes, sent, handled>>
    BY <1>2 DEF RequestLine, HeaderLine, HeadersEnd, UpgradeReply
<1>3. ASSUME UNCHANGED vars \/ AsyncWrite PROVE UNCHANGED <<phase, bytes, sent, handled>>
    BY <1>3 DEF vars, AsyncWrite
<1>4. StreamFits' /\ HandledIsSeq' /\ HandshakeReads' /\ Idle'
    BY <1>2, <1>3, PeerSendsStream, ArriveStream, DecodeRequestStream, LinesStream,
       DecodeFrameStream, NothingStream DEF Next, Handshake
<1> QED
    BY <1>1, <1>4 DEF SInv

LEMMA StreamInitially ==
    Init => SInv
<1> SUFFICES ASSUME Init PROVE SInv
    OBVIOUS
<1>1. IInv
    BY Initially
<1>2. HandledIsSeq /\ HandshakeReads /\ Idle
    BY EmptySeq DEF Init, HandledIsSeq, HandshakeReads, Idle
<1>3. StreamFits
    <2>1. PICK h \in Nat : h = HeadLen
        BY ConstantsAssumption
    <2>2. PICK S \in Seq(Byte) : S = buf \o todo
        BY <1>1, StreamTyped
    <2>3. Len(S) = h
        <3>1. todo \in Seq(Byte) /\ buf = <<>> /\ todo = [i \in 1..h |-> 0]
            BY <1>1, <2>1, StreamTyped DEF Init
        <3>2. S = todo
            BY <2>2, <3>1, ConcatEmptySeq
        <3>3. DOMAIN todo = 1..h
            BY <3>1
        <3> QED
            BY <3>1, <3>2, <3>3, LenProperties
    <2>4. Len(handled) = 0 /\ Len(sent) = 0 /\ Ahead = h
        BY <2>1, EmptySeq DEF Init, Ahead
    <2>5. PICK cut : cut = [i \in Nat |-> h]
        OBVIOUS
    <2>6. /\ cut \in [Nat -> Nat] /\ cut[0] = h
          /\ \A i, j \in 0..0 : i <= j => cut[i] <= cut[j]
          /\ 0..(0 - 1) = {}
        <3>1. cut \in [Nat -> Nat] /\ cut[0] = h
            BY ONLY <2>5, h \in Nat
        <3>2. \A i, j \in 0..0 : i <= j => cut[i] <= cut[j]
            <4>1. \A i \in 0..0 : i = 0
                OBVIOUS
            <4> QED
                BY <3>1, <4>1
        <3> QED
            BY <3>1, <3>2
    <2>7. CutsFit(cut, S, h, 0, sent)
        BY <2>3, <2>4, <2>6 DEF CutsFit
    <2> QED
        BY <2>2, <2>4, <2>7 DEF StreamFits
<1> QED
    BY <1>1, <1>2, <1>3 DEF SInv

\* What is in the buffer and on its way is at all times the frames that were
\* sent and not handled, and the loop rests only where the codec has asked for
\* more bytes.
THEOREM StreamInvariant == Spec => []SInv
<1>1. Init => SInv
    BY StreamInitially
<1>2. SInv /\ [Next]_vars => SInv'
    BY StreamStep
<1> QED
    BY <1>1, <1>2, PTL DEF Spec

\* However TCP cuts the bytes, when the loop rests and nothing is on its way
\* every frame has been handled (websocket.go, Decode), whatever the frames are.
THEOREM NothingLeftBehind == Spec => []NoFrameLeftBehind
<1>1. SInv => NoFrameLeftBehind
    <2> SUFFICES ASSUME SInv, phase = "open", ~reading, todo = <<>>, ~AnyEmpty,
                        Len(handled) # Len(sent)
                 PROVE  FALSE
        BY DEF NoFrameLeftBehind
    <2>1. PICK f \in PeerFrames :
              /\ f.payload # <<>> /\ Agrees(buf, PeerBytes(f))
              /\ Len(PeerBytes(f)) <= Len(buf \o todo)
        BY FrontFrame
    <2>2. buf \in Seq(Byte) /\ buf \o todo = buf
        BY StreamTyped, ConcatEmptySeq DEF SInv
    <2>3. Len(buf) \in Nat /\ Len(PeerBytes(f)) \in Nat
        BY <2>2, LenProperties, PeerBytesSeq
    <2>4. ~(Len(buf) < Len(PeerBytes(f)))
        BY <2>1, <2>2, <2>3
    <2>5. ReadFrameFromBytes(buf).err # NeedMoreData
        BY <2>1, <2>2, <2>4, FrameRead
    <2> QED
        BY <2>5 DEF SInv, Idle
<1> QED
    BY <1>1, StreamInvariant, PTL

(***************************************************************************)
(* The order and the content of what is handled                            *)
(***************************************************************************)
LEMMA OrderKept ==
    ASSUME FramesInOrder, UNCHANGED <<sent, handled>>,
           phase' = phase \/ phase' = "closed" \/ handled = <<>>
    PROVE  FramesInOrder'
<1>1. AnyEmpty' <=> AnyEmpty
    BY DEF AnyEmpty
<1>2. handled = <<>> => DOMAIN handled' = {}
    OBVIOUS
<1>3. \A i : Expected(sent'[i]) = Expected(sent[i])
    OBVIOUS
<1> QED
    BY <1>1, <1>2, <1>3 DEF FramesInOrder

LEMMA PeerSendsOrder ==
    ASSUME SInv, FramesInOrder, NEW f \in PeerFrames, PeerSends(f)
    PROVE  FramesInOrder'
<1>1. UNCHANGED <<phase, handled>> /\ sent' = Append(sent, f) /\ sent \in Seq(PeerFrames)
    BY StreamTyped DEF PeerSends, SInv
<1>2. PICK M : handled \in Seq(M)
    BY DEF SInv, HandledIsSeq
<1>3. PICK k \in Nat, n \in Nat : k = Len(handled) /\ n = Len(sent) /\ DOMAIN handled = 1..k /\ DOMAIN sent = 1..n
    BY <1>1, <1>2, LenProperties
<1>4. /\ sent' \in Seq(PeerFrames) /\ Len(sent') = n + 1
      /\ \A i \in 1..n : sent'[i] = sent[i]
    BY <1>1, <1>3, AppendProperties
<1>5. AnyEmpty => AnyEmpty'
    <2>1. DOMAIN sent' = 1..(n + 1)
        BY <1>4, LenProperties
    <2>2. ASSUME NEW i \in 1..n PROVE i \in 1..(n + 1)
        OBVIOUS
    <2> QED
        BY <1>3, <1>4, <2>1, <2>2 DEF AnyEmpty
<1>6. ASSUME ~AnyEmpty'
      PROVE  /\ Len(handled') <= Len(sent')
             /\ \A i \in DOMAIN handled' : handled'[i] = Expected(sent'[i])
    <2>1. k <= n /\ \A i \in 1..k : handled[i] = Expected(sent[i])
        BY <1>3, <1>5, <1>6 DEF FramesInOrder
    <2>2. k <= n + 1 /\ \A i \in 1..k : i \in 1..n
        BY <2>1
    <2>3. ASSUME NEW i \in 1..k PROVE handled[i] = Expected(sent'[i])
        BY <1>4, <2>1, <2>2
    <2> QED
        BY <1>1, <1>3, <1>4, <2>2, <2>3
<1>7. ASSUME ~AnyEmpty', NEW i \in DOMAIN handled', handled'[i] = ReadError \/ handled'[i].op = OpClose
      PROVE  i = Len(handled') /\ phase' = "closed"
    BY <1>1, <1>5, <1>7 DEF FramesInOrder
<1> QED
    BY <1>6, <1>7 DEF FramesInOrder

LEMMA DecodeFrameOrder ==
    ASSUME SInv, FramesInOrder, DecodeFrame
    PROVE  FramesInOrder'
<1>1. PICK r : r = ReadFrameFromBytes(buf)
    OBVIOUS
<1>2. phase = "open" /\ sent' = sent /\ (AnyEmpty' <=> AnyEmpty)
    BY DecodeFrameParts DEF AnyEmpty
<1>3. CASE handled' = handled /\ (phase' = phase \/ phase' = "closed")
    BY <1>2, <1>3, OrderKept
<1>4. CASE /\ r.err = NoError /\ r.frame # <<>>
           /\ handled' = Append(handled, ReadClientMessage(r.frame))
           /\ OnReactAfterUpgrade(ReadClientMessage(r.frame)).close => phase' = "closed"
    <2> SUFFICES ASSUME ~AnyEmpty
                 PROVE  /\ Len(handled') <= Len(sent)
                        /\ \A i \in DOMAIN handled' : handled'[i] = Expected(sent[i])
                        /\ \A i \in DOMAIN handled' :
                             (handled'[i] = ReadError \/ handled'[i].op = OpClose)
                                 => (i = Len(handled') /\ phase' = "closed")
        BY <1>2 DEF FramesInOrder
    <2>1. PICK m : m = ReadClientMessage(r.frame)
        OBVIOUS
    <2>2. PICK f \in PeerFrames :
              /\ Len(handled) # Len(sent)
              /\ Len(handled) + 1 \in 1..Len(sent) /\ f = sent[Len(handled) + 1] /\ ~f.bad
              /\ f.masked => r.frame = PeerBytes(f)
              /\ ~f.masked => ReadClientMessage(r.frame) = ReadError
        BY <1>1, <1>2, <1>4, NextHandled
    <2>3. m = Expected(f)
        <3>1. CASE f.masked
            BY <2>1, <2>2, <3>1, MaskedRead
        <3>2. CASE ~f.masked
            BY <2>1, <2>2, <3>2 DEF Expected, Lawful
        <3> QED
            BY <3>1, <3>2
    <2>10. PICK hs : hs = handled'
        OBVIOUS
    <2>4. PICK k \in Nat : /\ k = Len(handled) /\ Len(hs) = k + 1
                           /\ DOMAIN hs = 1..(k + 1) /\ DOMAIN handled = 1..k
                           /\ hs[k + 1] = m /\ \A i \in 1..k : hs[i] = handled[i]
        <3>1. PICK M : handled \in Seq(M)
            BY DEF SInv, HandledIsSeq
        <3>2. handled \in Seq(M \cup {m})
            BY <3>1, SeqMonotonic
        <3>3. /\ handled' \in Seq(M \cup {m}) /\ Len(handled') = Len(handled) + 1
              /\ handled'[Len(handled) + 1] = m
              /\ \A i \in 1..Len(handled) : handled'[i] = handled[i]
            BY <1>4, <2>1, <3>2, AppendProperties
        <3>4. PICK k \in Nat : k = Len(handled) /\ DOMAIN handled = 1..k
            BY <3>1, LenProperties
        <3>5. Len(handled') = k + 1 /\ DOMAIN handled' = 1..(k + 1)
            BY <3>3, <3>4, LenProperties
        <3> QED
            BY <2>10, <3>3, <3>4, <3>5
    <2>5. Len(sent) \in Nat /\ k + 1 <= Len(sent)
        BY <2>2, <2>4, StreamTyped DEF SInv
    <2>6. /\ \A i \in 1..k : handled[i] = Expected(sent[i])
          /\ \A i \in 1..k : ~(handled[i] = ReadError \/ handled[i].op = OpClose)
        BY <1>2, <2>4 DEF FramesInOrder
    <2>7. \A i \in 1..(k + 1) : i \in 1..k \/ i = k + 1
        OBVIOUS
    <2>8. ASSUME NEW i \in 1..(k + 1) PROVE hs[i] = Expected(sent[i])
        BY <2>2, <2>3, <2>4, <2>6, <2>7
    <2>9. ASSUME NEW i \in 1..(k + 1), hs[i] = ReadError \/ hs[i].op = OpClose
          PROVE  i = k + 1 /\ phase' = "closed"
        <3>1. i = k + 1
            BY <2>4, <2>6, <2>7, <2>9
        <3>2. OnReactAfterUpgrade(m).close = TRUE
            BY <2>4, <2>9, <3>1, CloseReacts
        <3> QED
            BY <1>4, <2>1, <3>1, <3>2
    <2> QED
        BY <2>4, <2>5, <2>8, <2>9, <2>10
<1> QED
    BY <1>1, <1>2, <1>3, <1>4, DecodeFrameParts

\* However TCP cuts the bytes, and also when frames come with the request, what
\* is handled is what was sent, frame by frame, and nothing is handled after a
\* forbidden frame, one whose text is not UTF-8 included, or a close frame.
THEOREM FramesKeepOrder == Spec => []FramesInOrder
<1>1. Init => FramesInOrder
    <2> SUFFICES ASSUME Init PROVE FramesInOrder
        OBVIOUS
    <2>1. handled = <<>> /\ sent = <<>> /\ Len(handled) = 0 /\ Len(sent) = 0 /\ DOMAIN handled = {}
        BY EmptySeq DEF Init
    <2> QED
        BY <2>1 DEF FramesInOrder
<1>2. SInv /\ FramesInOrder /\ [Next]_vars => FramesInOrder'
    <2> SUFFICES ASSUME SInv, FramesInOrder, [Next]_vars PROVE FramesInOrder'
        OBVIOUS
    <2>1. ASSUME \/ UNCHANGED vars \/ AsyncWrite \/ (\E n \in 1..Len(todo) : Arrive(n))
          PROVE  UNCHANGED <<phase, sent, handled>>
        BY <2>1 DEF vars, AsyncWrite, Arrive
    <2>2. ASSUME Handshake \/ \E l \in HeaderLines : HeaderLine(l)
          PROVE  UNCHANGED <<sent, handled>> /\ handled = <<>>
        <3>1. phase \in {"http", "line", "headers", "reply"} /\ UNCHANGED <<sent, handled>>
            BY <2>2 DEF Handshake, DecodeRequest, RequestLine, HeaderLine, HeadersEnd, UpgradeReply
        <3> QED
            BY <3>1 DEF SInv, IInv, HandledAfterUpgrade
    <2> QED
        BY <2>1, <2>2, OrderKept, PeerSendsOrder, DecodeFrameOrder DEF Next
<1> QED
    BY <1>1, <1>2, StreamInvariant, PTL DEF Spec

(***************************************************************************)
(* The answers: pings and pongs, counted                                   *)
(***************************************************************************)
\* What is written is a pong with the payload of the message.
Answers(o, m) ==
    AsRead(o[2]) = [op |-> OpPong, length |-> Len(m.payload), payload |-> m.payload]

\* The n-th of the places A of o answers the n-th of the places B of h.
Paired(A, B, o, h) ==
    /\ Cardinality(A) = Cardinality(B)
    /\ \A i \in A, j \in B :
           Cardinality(A \cap 1..i) = Cardinality(B \cap 1..j) => Answers(o[i], h[j])

\* One more place, behind the others: the counts up to the others stay.
CountsStay(A, A2, n) ==
    /\ Cardinality(A) \in Nat /\ Cardinality(A2) = Cardinality(A) + 1
    /\ A2 \cap 1..(n + 1) = A2
    /\ \A i \in A : /\ i # n + 1 /\ A2 \cap 1..i = A \cap 1..i
                    /\ Cardinality(A \cap 1..i) \in Nat
                    /\ Cardinality(A \cap 1..i) <= Cardinality(A)

LEMMA CountedLast ==
    ASSUME NEW n \in Nat, NEW A, A \subseteq 1..n, NEW A2, A2 = A \cup {n + 1}
    PROVE  CountsStay(A, A2, n)
<1>1. IsFiniteSet(A) /\ Cardinality(A) \in Nat
    <2>1. IsFiniteSet(1..n)
        BY FS_Interval
    <2>2. IsFiniteSet(A)
        BY <2>1, FS_Subset
    <2> QED
        BY <2>2, FS_CardinalityType
<1>2. n + 1 \notin A
    OBVIOUS
<1>3. Cardinality(A2) = Cardinality(A) + 1
    BY <1>1, <1>2, FS_AddElement
<1>4. A2 \cap 1..(n + 1) = A2
    <2>1. \A i \in 1..n : i \in 1..(n + 1)
        OBVIOUS
    <2>2. n + 1 \in 1..(n + 1)
        OBVIOUS
    <2> QED
        BY <2>1, <2>2, Zenon
<1>5. ASSUME NEW i \in A
      PROVE  /\ i # n + 1 /\ A2 \cap 1..i = A \cap 1..i
             /\ Cardinality(A \cap 1..i) \in Nat
             /\ Cardinality(A \cap 1..i) <= Cardinality(A)
    <2>1. i \in 1..n /\ n + 1 \notin 1..i
        OBVIOUS
    <2>2. A2 \cap 1..i = A \cap 1..i
        BY <2>1
    <2>3. IsFiniteSet(A \cap 1..i) /\ Cardinality(A \cap 1..i) <= Cardinality(A)
        BY <1>1, FS_Intersection
    <2> QED
        BY <1>2, <2>2, <2>3, FS_CardinalityType
<1> QED
    BY <1>1, <1>3, <1>4, <1>5 DEF CountsStay

\* s2 is s, which has n elements, and more; A2 is A and the place behind it.
Prolongs(s2, s, n) == \A i \in 1..n : s2[i] = s[i]
OneMore(A2, A, n) == A \subseteq 1..n /\ A2 = A \cup {n + 1}

\* A ping more and its pong more.
LEMMA PairedNext ==
    ASSUME NEW n \in Nat, NEW A, NEW A2, OneMore(A2, A, n),
           NEW m \in Nat, NEW B, NEW B2, OneMore(B2, B, m),
           NEW o, NEW h, Paired(A, B, o, h),
           NEW o2, Prolongs(o2, o, n), NEW h2, Prolongs(h2, h, m),
           Answers(o2[n + 1], h2[m + 1])
    PROVE  Paired(A2, B2, o2, h2)
<1> USE DEF OneMore, Prolongs
<1>1. /\ Cardinality(A) \in Nat /\ Cardinality(A2) = Cardinality(A) + 1
      /\ A2 \cap 1..(n + 1) = A2
      /\ \A i \in A : /\ i # n + 1 /\ A2 \cap 1..i = A \cap 1..i
                      /\ Cardinality(A \cap 1..i) \in Nat
                      /\ Cardinality(A \cap 1..i) <= Cardinality(A)
    <2>1. CountsStay(A, A2, n)
        BY CountedLast
    <2> QED
        BY <2>1, Zenon DEF CountsStay
<1>2. /\ Cardinality(B) \in Nat /\ Cardinality(B2) = Cardinality(B) + 1
      /\ B2 \cap 1..(m + 1) = B2
      /\ \A j \in B : /\ j # m + 1 /\ B2 \cap 1..j = B \cap 1..j
                      /\ Cardinality(B \cap 1..j) \in Nat
                      /\ Cardinality(B \cap 1..j) <= Cardinality(B)
    <2>1. CountsStay(B, B2, m)
        BY CountedLast
    <2> QED
        BY <2>1, Zenon DEF CountsStay
<1>3. PICK c \in Nat : c = Cardinality(A) /\ c = Cardinality(B)
    BY <1>1 DEF Paired
<1>4. Cardinality(A2) = Cardinality(B2)
    BY <1>1, <1>2, <1>3
<1>5. ASSUME NEW i \in A2, NEW j \in B2, Cardinality(A2 \cap 1..i) = Cardinality(B2 \cap 1..j)
      PROVE  Answers(o2[i], h2[j])
    <2>1. CASE i \in A /\ j \in B
        <3>1. Cardinality(A \cap 1..i) = Cardinality(B \cap 1..j)
            BY <1>1, <1>2, <1>5, <2>1
        <3>2. Answers(o[i], h[j])
            BY <2>1, <3>1 DEF Paired
        <3> QED
            BY <2>1, <3>2
    <2>2. CASE i \notin A /\ j \notin B
        BY <2>2
    <2>3. CASE i \in A /\ j \notin B
        <3>1. PICK x \in Nat : x = Cardinality(A \cap 1..i) /\ x <= c /\ A2 \cap 1..i = A \cap 1..i
            BY <1>1, <1>3, <2>3
        <3>2. j = m + 1
            BY <2>3
        <3>3. Cardinality(B2 \cap 1..j) = c + 1
            BY <1>2, <1>3, <3>2
        <3>4. x = c + 1
            BY ONLY <1>5, <3>1, <3>3, Zenon
        <3> QED
            BY <3>1, <3>4
    <2>4. CASE i \notin A /\ j \in B
        <3>1. PICK x \in Nat : x = Cardinality(B \cap 1..j) /\ x <= c /\ B2 \cap 1..j = B \cap 1..j
            BY <1>2, <1>3, <2>4
        <3>2. i = n + 1
            BY <2>4
        <3>3. Cardinality(A2 \cap 1..i) = c + 1
            BY <1>1, <1>3, <3>2
        <3>4. x = c + 1
            BY ONLY <1>5, <3>1, <3>3, Zenon
        <3> QED
            BY <3>1, <3>4
    <2> QED
        BY <2>1, <2>2, <2>3, <2>4
<1> QED
    BY <1>4, <1>5 DEF Paired

\* Nothing at these places changes.
LEMMA PairedKept ==
    ASSUME NEW A, NEW B, NEW o, NEW h, Paired(A, B, o, h), NEW o2, NEW h2,
           \A i \in A : o2[i] = o[i], \A j \in B : h2[j] = h[j]
    PROVE  Paired(A, B, o2, h2)
BY DEF Paired

LEMMA RepliesPaired ==
    RepliesReadable <=> (out # <<>> => out[1][1] = "status") /\ Paired(PongAt, PingAt, out, handled)
BY DEF RepliesReadable, Paired, Answers

(***************************************************************************)
(* What is read and what is written                                        *)
(***************************************************************************)
\* The peer reads back a frame whose payload goes with a header of two bytes.
LEMMA ReadBack ==
    ASSUME NEW S, NEW p \in Seq(S), Len(p) <= 125, NEW op \in 0..15,
           NEW w, w = Written(op, p)
    PROVE  /\ w[1] = "frame" /\ w[2][1] % 16 = op
           /\ AsRead(w[2]) = [op |-> op, length |-> Len(p), payload |-> p]
<1>1. PICK n \in Nat : n = Len(p) /\ n <= 125
    BY LenProperties
<1>2. PICK f : f = NewFrame(op, p)
    OBVIOUS
<1>3. f.fin = TRUE /\ f.rsv = 0 /\ f.op = op /\ f.masked = FALSE /\ f.length = n /\ f.payload = p
    BY <1>1, <1>2 DEF NewFrame
<1>4. PICK a \in Nat : a = 128 + 16 * 0 + op
    OBVIOUS
<1>5. PutBigEndian(n, 0) = <<>>
    <2>1. 1..0 = {}
        OBVIOUS
    <2>2. PutBigEndian(n, 0) \in Seq(Byte) /\ Len(PutBigEndian(n, 0)) = 0
        <3>1. PutBigEndian(n, 0) \in Seq(Byte)
            BY PutBytes
        <3>2. DOMAIN PutBigEndian(n, 0) = 1..0
            BY DEF PutBigEndian
        <3> QED
            BY <3>1, <3>2, LenProperties
    <2> QED
        BY <2>2, EmptySeq
<1>6. CompileFrame(f) = <<a, n>> \o p
    <2>1. WriteHeader(f, <<>>) = HeaderBytes(f, 0, <<>>)
        BY <1>1, <1>3 DEF WriteHeader, Len7
    <2>2. HeaderBytes(f, 0, <<>>) = <<a, 0 + n>> \o PutBigEndian(n, 0) \o <<>>
        BY <1>3, <1>4 DEF HeaderBytes
    <2>3. <<a, n>> \in Seq(Nat)
        OBVIOUS
    <2>4. <<a, n>> \o <<>> \o <<>> = <<a, n>>
        BY <2>3, ConcatEmptySeq
    <2> QED
        BY <1>3, <1>5, <2>1, <2>2, <2>4 DEF CompileFrame
<1>7. PICK b : b = <<a, n>> \o p
    OBVIOUS
<1>8. b \in Seq(S \cup Nat) /\ Len(b) = n + 2 /\ b[1] = a /\ b[2] = n /\ \A i \in 1..n : b[2 + i] = p[i]
    <2>1. <<a, n>> \in Seq(S \cup Nat) /\ Len(<<a, n>>) = 2
        OBVIOUS
    <2>2. p \in Seq(S \cup Nat)
        BY SeqMonotonic
    <2>3. /\ b \in Seq(S \cup Nat) /\ Len(b) = 2 + n
          /\ \A i \in 1..(2 + n) : b[i] = IF i <= 2 THEN <<a, n>>[i] ELSE p[i - 2]
        BY <1>1, <1>7, <2>1, <2>2, ConcatProperties
    <2>4. ASSUME NEW i \in 1..n PROVE b[2 + i] = p[i]
        <3>1. 2 + i \in 1..(2 + n) /\ ~(2 + i <= 2) /\ (2 + i) - 2 = i
            OBVIOUS
        <3> QED
            BY <2>3, <3>1
    <2>5. 1 \in 1..(2 + n) /\ 2 \in 1..(2 + n) /\ 1 <= 2 /\ 2 <= 2
        OBVIOUS
    <2> QED
        BY <2>3, <2>4, <2>5
<1>9. a % 16 = op /\ n % 128 = n /\ n < 126 /\ ~(n >= 128)
    BY <1>1, <1>4
<1>10. PICK r : r = ReadHeaderFromBytes(b)
    OBVIOUS
<1>11. r.offset = 0 /\ r.length = n /\ r.h.op = op
    <2>1. LengthBytes(n) = 0 /\ ExtraBytes(n) = 0
        BY <1>9 DEF LengthBytes, ExtraBytes
    <2>2. ~(Len(b) < 2)
        BY <1>8
    <2> QED
        BY <1>8, <1>9, <1>10, <2>1, <2>2, SMT DEF ReadHeaderFromBytes
<1>12. SubSeq(b, 3, n + 2) = p
    <2>1. PICK k \in Int : k = n + 2
        OBVIOUS
    <2>2. \A i \in 3..k : b[i] \in S \cup Nat
        BY <1>8, <2>1, ElementOfSeq
    <2>3. PICK q : /\ q = SubSeq(b, 3, k) /\ q \in Seq(S \cup Nat)
                   /\ Len(q) = (IF 3 <= k THEN k - 3 + 1 ELSE 0)
                   /\ \A i \in 1..(k - 3 + 1) : q[i] = b[3 + i - 1]
        <3>1. /\ SubSeq(b, 3, k) \in Seq(S \cup Nat)
              /\ Len(SubSeq(b, 3, k)) = IF 3 <= k THEN k - 3 + 1 ELSE 0
              /\ \A i \in 1..(k - 3 + 1) : SubSeq(b, 3, k)[i] = b[3 + i - 1]
            BY <2>1, <2>2, SubSeqProperties
        <3> QED
            BY ONLY <3>1, Zenon
    <2>4. Len(q) = n
        BY <2>1, <2>3
    <2>5. ASSUME NEW i \in 1..n PROVE q[i] = p[i]
        <3>1. 3 + i - 1 = 2 + i /\ i \in 1..(k - 3 + 1)
            BY <2>1
        <3> QED
            BY <1>8, <2>3, <3>1
    <2>6. p \in Seq(S \cup Nat)
        BY SeqMonotonic
    <2>7. q = p
        BY <1>1, <2>3, <2>4, <2>5, <2>6, SeqEqual
    <2> QED
        BY <2>1, <2>3, <2>7
<1>13. AsRead(b) = [op |-> op, length |-> n, payload |-> p]
    <2>1. SubSeq(b, 2 + 1, Len(b)) = p
        BY <1>8, <1>12
    <2>2. (IF r.offset = 0 THEN 2 ELSE r.offset) = 2
        BY <1>11
    <2> QED
        BY <1>10, <1>11, <2>1, <2>2, Zenon DEF AsRead
<1> QED
    BY <1>1, <1>2, <1>6, <1>7, <1>8, <1>9, <1>13 DEF Written

\* The operation code that a header gives.
LEMMA OpRead ==
    ASSUME NEW in \in Seq(Byte), NEW r, r = ReadHeaderFromBytes(in), r.err = NoError
    PROVE  r.h.op \in 0..15
<1>1. ~(Len(in) < 2)
    <2>1. Len(in) < 2 => r = Failed(NeedMoreData)
        BY SMT DEF ReadHeaderFromBytes
    <2> QED
        BY <2>1, ErrorsDiffer
<1>2. PICK a \in Byte : a = in[1]
    BY <1>1
<1>3. PICK b \in Byte : b = in[2]
    BY <1>1
<1>4. a % 16 \in 0..15
    BY DEF Byte
<1>5. PICK extra : extra = ExtraBytes(b)
    OBVIOUS
<1>6. CASE extra = 0
    <2>1. r.h.op = a % 16
        BY <1>1, <1>2, <1>3, <1>5, <1>6, SMT DEF ReadHeaderFromBytes
    <2> QED
        BY <1>4, <2>1
<1>7. CASE extra # 0
    <2>1. ~(Len(in) < extra + 2) /\ ~(LengthBytes(b) = 8 /\ in[3] >= 128)
        <3>1. (Len(in) < extra + 2) => r = Failed(NeedMoreData)
            BY <1>1, <1>3, <1>5, <1>7, SMT DEF ReadHeaderFromBytes
        <3>2. (~(Len(in) < extra + 2) /\ LengthBytes(b) = 8 /\ in[3] >= 128) => r = Failed(HeaderLengthMSB)
            BY <1>1, <1>3, <1>5, <1>7, SMT DEF ReadHeaderFromBytes
        <3> QED
            BY <3>1, <3>2, ErrorsDiffer
    <2>2. r.h.op = a % 16
        BY <1>1, <1>2, <1>3, <1>5, <1>7, <2>1, SMT DEF ReadHeaderFromBytes
    <2> QED
        BY <1>4, <2>2
<1> QED
    BY <1>6, <1>7

\* What the codec hands on is bytes.
LEMMA FrameTyped ==
    ASSUME NEW in \in Seq(Byte), NEW r, r = ReadFrameFromBytes(in), r.err = NoError
    PROVE  r.frame \in Seq(Byte)
<1>1. PICK s : s = ReadHeaderFromBytes(in)
    OBVIOUS
<1>2. s.err = NoError
    BY <1>1, SMT DEF ReadFrameFromBytes
<1>3. PICK o \in Nat, n \in Nat : o = s.offset /\ n = s.length
    BY <1>1, <1>2, HeaderReadTyped
<1>4. CASE n = 0
    <2>1. r.frame = <<>>
        BY <1>1, <1>2, <1>3, <1>4, SMT DEF ReadFrameFromBytes
    <2> QED
        BY <2>1, EmptySeq
<1>5. CASE n # 0
    <2>1. ~FrameIncomplete(s, in)
        <3>1. FrameIncomplete(s, in) => r = Failed(NeedMoreData)
            BY <1>1, <1>2, <1>3, <1>5, SMT DEF ReadFrameFromBytes
        <3> QED
            BY <3>1, ErrorsDiffer
    <2>2. PICK k \in Int : k = o + n /\ k <= Len(in)
        BY <1>3, <2>1, LenProperties DEF FrameIncomplete
    <2>3. r.frame = SubSeq(in, 1, k)
        BY <1>1, <1>2, <1>3, <1>5, <2>1, <2>2, SMT DEF ReadFrameFromBytes
    <2>4. \A i \in 1..k : in[i] \in Byte
        BY <2>2, ElementOfSeq
    <2>5. SubSeq(in, 1, k) \in Seq(Byte)
        BY <2>4, SubSeqProperties
    <2> QED
        BY <2>3, <2>5
<1> QED
    BY <1>4, <1>5

\* A payload in the clear is as long as it was masked.
LEMMA UnmaskLength ==
    ASSUME NEW q \in Seq(Byte), NEW mask
    PROVE  \E S : Unmask(q, mask) \in Seq(S) /\ Len(Unmask(q, mask)) = Len(q)
<1>1. PICK n \in Nat : n = Len(q)
    BY LenProperties
<1>2. PICK g : g = Unmask(q, mask)
    OBVIOUS
<1>3. DOMAIN g = 1..n /\ g \in [1..n -> {g[i] : i \in 1..n}]
    BY <1>1, <1>2 DEF Unmask
<1>4. PICK S : g \in [1..n -> S]
    BY <1>3
<1>5. g \in Seq(S)
    BY <1>4
<1>6. Len(g) = n
    BY <1>3, <1>5, LenProperties
<1> QED
    BY <1>1, <1>2, <1>5, <1>6

\* A message that is read has one of five operation codes, and the payload of a
\* ping fits a frame with a header of two bytes.
LEMMA MessageRead ==
    ASSUME NEW bts \in Seq(Byte), NEW m, m = ReadClientMessage(bts), m # ReadError
    PROVE  /\ m.op \in {OpText, OpBinary, OpClose, OpPing, OpPong}
           /\ m.op = OpPing => \E S : m.payload \in Seq(S) /\ Len(m.payload) <= 125
<1>1. PICK r : r = NextFrame(bts)
    OBVIOUS
<1>2. r.err = NoError /\ WholeMessage(r, bts)
    BY <1>1 DEF ReadClientMessage
<1>3. m = [op |-> r.h.op, payload |-> Payload(r, bts)]
    BY <1>1, <1>2 DEF ReadClientMessage
<1>4. PICK s : s = ReadHeaderFromBytes(bts)
    OBVIOUS
<1>5. r = ReadHeader(bts) /\ CheckHeader(r.h)
    <2>1. Failed("protocol error").err # NoError
        BY DEF Failed, NoError
    <2> QED
        BY <1>1, <1>2, <2>1 DEF NextFrame
<1>6. s.err = NoError
    BY <1>2, <1>4, <1>5, SMT DEF ReadHeader
<1>7. PICK o \in Nat, n \in Nat : o = s.offset /\ n = s.length
    BY <1>4, <1>6, HeaderReadTyped
<1>8. PICK op \in 0..15 : op = s.h.op
    BY <1>4, <1>6, OpRead
<1>9. r.h.op = op /\ r.h.length = n /\ r.from = IF o = 0 THEN 2 ELSE o
    BY <1>4, <1>5, <1>6, <1>7, <1>8, SMT DEF ReadHeader
<1>10. PICK k \in Nat : k = r.from
    BY <1>7, <1>9
<1>11. op \in {1, 2, 8, 9, 10} /\ (op = 9 => n <= 125)
    BY <1>5, <1>9 DEF CheckHeader, IsReserved, IsControl, OpContinuation, MaxControlFramePayloadSize
<1>12. m.op = op
    BY <1>3, <1>9
<1>13. \E S : m.payload \in Seq(S) /\ Len(m.payload) = n
    <2>1. k + n <= Len(bts)
        BY <1>2, <1>9, <1>10, LenProperties DEF WholeMessage
    <2>2. PICK lo \in Int, hi \in Int : lo = k + 1 /\ hi = k + n
        OBVIOUS
    <2>3. \A i \in lo..hi : bts[i] \in Byte
        BY <2>1, <2>2, ElementOfSeq
    <2>4. PICK q : q = SubSeq(bts, lo, hi)
        OBVIOUS
    <2>5. q \in Seq(Byte) /\ Len(q) = IF lo <= hi THEN hi - lo + 1 ELSE 0
        BY <2>3, <2>4, SubSeqProperties
    <2>6. Len(q) = n
        BY <2>2, <2>5
    <2>7. Payload(r, bts) = IF r.h.masked THEN Unmask(q, r.mask) ELSE q
        BY <1>9, <1>10, <2>2, <2>4 DEF Payload
    <2>8. m.payload = Payload(r, bts)
        BY <1>3
    <2>9. \E S : Unmask(q, r.mask) \in Seq(S) /\ Len(Unmask(q, r.mask)) = n
        BY <2>5, <2>6, UnmaskLength
    <2> QED
        BY <2>5, <2>6, <2>7, <2>8, <2>9
<1> QED
    BY <1>11, <1>12, <1>13 DEF OpText, OpBinary, OpClose, OpPing, OpPong

\* How the server reacts: a ping is answered with a pong at once, and a ping
\* frame is left for a later task; other messages are not answered.
LEMMA Reacts ==
    ASSUME NEW bts \in Seq(Byte), NEW m, m = ReadClientMessage(bts),
           NEW react, react = OnReactAfterUpgrade(m)
    PROVE  \/ m.op # OpPing /\ react.out = <<>> /\ react.async = <<>>
           \/ /\ m.op = OpPing
              /\ \E w, v : /\ react.out = <<w>> /\ react.async = <<v>>
                           /\ w[1] = "frame" /\ w[2][1] % 16 = OpPong /\ Answers(w, m)
                           /\ v[1] = "frame" /\ v[2][1] % 16 = OpPing
<1>1. CASE m = ReadError
    <2>1. m.op # OpPing
        BY <1>1 DEF ReadError, OpPing
    <2>2. react.out = <<>> /\ react.async = <<>>
        BY <1>1 DEF OnReactAfterUpgrade
    <2> QED
        BY <2>1, <2>2
<1>2. CASE m # ReadError
    <2>1. /\ m.op \in {1, 2, 8, 9, 10}
          /\ m.op = 9 => \E S : m.payload \in Seq(S) /\ Len(m.payload) <= 125
        BY <1>2, MessageRead DEF OpText, OpBinary, OpClose, OpPing, OpPong
    <2>2. CASE m.op \in {1, 2}
        <3>1. ~IsControl(m.op) /\ m.op # OpPing
            BY <2>2 DEF IsControl, OpPing
        <3> QED
            BY <1>2, <3>1 DEF OnReactAfterUpgrade, NothingToDo
    <2>3. CASE m.op = 8
        <3>1. IsControl(m.op) /\ m.op # OpPing /\ m.op # OpPong /\ m.op = OpClose
            BY <2>3 DEF IsControl, OpPing, OpPong, OpClose
        <3>2. HandleControlMessage(m).err
            BY <3>1 DEF HandleControlMessage, HandleClose
        <3> QED
            BY <1>2, <3>1, <3>2 DEF OnReactAfterUpgrade
    <2>4. CASE m.op = 10
        <3>1. IsControl(m.op) /\ m.op # OpPing /\ m.op = OpPong /\ m.op # OpClose
            BY <2>4 DEF IsControl, OpPing, OpPong, OpClose
        <3>2. HandleControlMessage(m) = NothingToDo
            BY <3>1 DEF HandleControlMessage, HandlePong
        <3> QED
            BY <1>2, <3>1, <3>2 DEF OnReactAfterUpgrade, NothingToDo
    <2>5. CASE m.op = 9
        <3>1. IsControl(m.op) /\ m.op = OpPing /\ m.op # OpPong /\ m.op # OpClose
            BY <2>5 DEF IsControl, OpPing, OpPong, OpClose
        <3>2. HandleControlMessage(m) = HandlePing(m.payload)
            BY <3>1 DEF HandleControlMessage
        <3>3. PICK p : p = m.payload
            OBVIOUS
        <3>4. PICK w, v : w = Written(OpPong, p) /\ v = Written(OpPing, p)
            OBVIOUS
        <3>5. react.out = <<w>> /\ react.async = <<v>>
            BY <1>2, <3>1, <3>2, <3>3, <3>4 DEF OnReactAfterUpgrade, HandlePing, OnPing
        <3>6. PICK S : p \in Seq(S) /\ Len(p) <= 125
            BY <2>1, <2>5, <3>3
        <3>7. OpPong \in 0..15 /\ OpPing \in 0..15
            BY DEF OpPong, OpPing
        <3>8. /\ w[1] = "frame" /\ w[2][1] % 16 = OpPong
              /\ AsRead(w[2]) = [op |-> OpPong, length |-> Len(p), payload |-> p]
            BY <3>4, <3>6, <3>7, ReadBack
        <3>9. v[1] = "frame" /\ v[2][1] % 16 = OpPing
            BY <3>4, <3>6, <3>7, ReadBack
        <3>10. Answers(w, m)
            BY <3>3, <3>8 DEF Answers
        <3> QED
            BY <3>1, <3>5, <3>8, <3>9, <3>10
    <2> QED
        BY <2>1, <2>2, <2>3, <2>4, <2>5
<1> QED
    BY <1>1, <1>2

(***************************************************************************)
(* The inductive invariant of the answers                                  *)
(***************************************************************************)
OutIsSeq == \E O : out \in Seq(O)

\* What waits for a later task is ping frames, never a pong.
AsyncIsPings ==
    \E Q : async \in Seq(Q) /\ \A x \in Q : x[1] = "frame" /\ x[2][1] % 16 = OpPing

\* Nothing is written before the answer to the request, which comes before the
\* first frame.
OutAfterUpgrade ==
    /\ phase \in {"http", "line", "headers", "reply"} => out = <<>> /\ async = <<>>
    /\ phase = "open" => out # <<>>

\* RepliesReadable is not inductive: that a pong comes from a ping only needs
\* that no pong waits in async, and that the status is first needs that out is
\* not empty when the first frame is handled.
RInv ==
    IInv /\ HandledIsSeq /\ OutIsSeq /\ AsyncIsPings /\ OutAfterUpgrade /\ RepliesReadable

\* Something that is not a pong is written behind the rest.
LEMMA NoPongWritten ==
    ASSUME RepliesReadable, OutIsSeq, out # <<>>, NEW x, out' = Append(out, x), handled' = handled,
           x[1] = "frame", x[2][1] % 16 = OpPing
    PROVE  RepliesReadable' /\ OutIsSeq' /\ out' # <<>>
<1>1. PICK O : out \in Seq(O)
    BY DEF OutIsSeq
<1>2. out \in Seq(O \cup {x})
    BY <1>1, SeqMonotonic
<1>3. PICK n \in Nat : n = Len(out) /\ DOMAIN out = 1..n
    BY <1>1, LenProperties
<1>4. /\ out' \in Seq(O \cup {x}) /\ out' # <<>> /\ Len(out') = n + 1
      /\ \A i \in 1..n : out'[i] = out[i]
      /\ out'[n + 1] = x
    BY <1>2, <1>3, AppendProperties
<1>5. DOMAIN out' = 1..(n + 1)
    BY <1>4, LenProperties
<1>6. PongAt' = PongAt
    <2>1. ~(x[2][1] % 16 = OpPong)
        BY DEF OpPing, OpPong
    <2>2. \A i \in 1..(n + 1) : i \in 1..n \/ i = n + 1
        OBVIOUS
    <2>3. \A i \in 1..n : i \in 1..(n + 1)
        OBVIOUS
    <2> QED
        BY <1>3, <1>4, <1>5, <2>1, <2>2, <2>3, Zenon DEF PongAt
<1>7. PingAt' = PingAt
    BY DEF PingAt
<1>8. Paired(PongAt, PingAt, out', handled')
    <2>1. Paired(PongAt, PingAt, out, handled)
        BY RepliesPaired
    <2>2. \A i \in PongAt : out'[i] = out[i]
        BY <1>3, <1>4 DEF PongAt
    <2> QED
        BY <2>1, <2>2, PairedKept
<1>9. out'[1][1] = "status"
    <2>1. 1 \in 1..n
        BY <1>1, <1>3, EmptySeq
    <2> QED
        BY <1>4, <2>1 DEF RepliesReadable
<1> QED
    BY <1>4, <1>6, <1>7, <1>8, <1>9 DEF RepliesReadable, OutIsSeq, Paired, Answers

\* A message is handled that is not a ping.
LEMMA NoPingHandled ==
    ASSUME RepliesReadable, HandledIsSeq, NEW m, handled' = Append(handled, m), out' = out,
           m.op # OpPing
    PROVE  RepliesReadable' /\ HandledIsSeq'
<1>1. PICK M : handled \in Seq(M)
    BY DEF HandledIsSeq
<1>2. handled \in Seq(M \cup {m})
    BY <1>1, SeqMonotonic
<1>3. PICK n \in Nat : n = Len(handled) /\ DOMAIN handled = 1..n
    BY <1>1, LenProperties
<1>4. /\ handled' \in Seq(M \cup {m}) /\ Len(handled') = n + 1
      /\ \A i \in 1..n : handled'[i] = handled[i]
      /\ handled'[n + 1] = m
    BY <1>2, <1>3, AppendProperties
<1>5. DOMAIN handled' = 1..(n + 1)
    BY <1>4, LenProperties
<1>6. PingAt' = PingAt
    <2>1. \A i \in 1..(n + 1) : i \in 1..n \/ i = n + 1
        OBVIOUS
    <2>2. \A i \in 1..n : i \in 1..(n + 1)
        OBVIOUS
    <2> QED
        BY <1>3, <1>4, <1>5, <2>1, <2>2, Zenon DEF PingAt
<1>7. PongAt' = PongAt
    BY DEF PongAt
<1>8. Paired(PongAt, PingAt, out', handled')
    <2>1. Paired(PongAt, PingAt, out, handled)
        BY RepliesPaired
    <2>2. \A i \in PingAt : handled'[i] = handled[i]
        BY <1>3, <1>4 DEF PingAt
    <2> QED
        BY <2>1, <2>2, PairedKept
<1> QED
    BY <1>4, <1>6, <1>7, <1>8 DEF RepliesReadable, HandledIsSeq, Paired, Answers

\* A ping is handled, and its pong written.
LEMMA PingAnswered ==
    ASSUME RepliesReadable, HandledIsSeq, OutIsSeq, out # <<>>,
           NEW m, handled' = Append(handled, m), m.op = OpPing,
           NEW w, out' = Append(out, w), w[1] = "frame", w[2][1] % 16 = OpPong, Answers(w, m)
    PROVE  RepliesReadable' /\ HandledIsSeq' /\ OutIsSeq' /\ out' # <<>>
<1>1. PICK M : handled \in Seq(M)
    BY DEF HandledIsSeq
<1>2. handled \in Seq(M \cup {m})
    BY <1>1, SeqMonotonic
<1>3. PICK k \in Nat : k = Len(handled) /\ DOMAIN handled = 1..k
    BY <1>1, LenProperties
<1>4. /\ handled' \in Seq(M \cup {m}) /\ Len(handled') = k + 1
      /\ \A i \in 1..k : handled'[i] = handled[i]
      /\ handled'[k + 1] = m
    BY <1>2, <1>3, AppendProperties
<1>5. DOMAIN handled' = 1..(k + 1)
    BY <1>4, LenProperties
<1>6. PICK O : out \in Seq(O)
    BY DEF OutIsSeq
<1>7. out \in Seq(O \cup {w})
    BY <1>6, SeqMonotonic
<1>8. PICK n \in Nat : n = Len(out) /\ DOMAIN out = 1..n
    BY <1>6, LenProperties
<1>9. /\ out' \in Seq(O \cup {w}) /\ out' # <<>> /\ Len(out') = n + 1
      /\ \A i \in 1..n : out'[i] = out[i]
      /\ out'[n + 1] = w
    BY <1>7, <1>8, AppendProperties
<1>10. DOMAIN out' = 1..(n + 1)
    BY <1>9, LenProperties
<1>11. ASSUME NEW q \in Nat
       PROVE  /\ \A i \in 1..(q + 1) : i \in 1..q \/ i = q + 1
              /\ \A i \in 1..q : i \in 1..(q + 1)
              /\ q + 1 \in 1..(q + 1)
    OBVIOUS
<1>12. PingAt \subseteq 1..k /\ PingAt' = PingAt \cup {k + 1}
    BY <1>3, <1>4, <1>5, <1>11, Zenon DEF PingAt
<1>13. PongAt \subseteq 1..n /\ PongAt' = PongAt \cup {n + 1}
    BY <1>8, <1>9, <1>10, <1>11, Zenon DEF PongAt
<1>14. Paired(PongAt', PingAt', out', handled')
    <2>1. Paired(PongAt, PingAt, out, handled)
        BY RepliesPaired
    <2>2. Answers(out'[n + 1], handled'[k + 1])
        BY <1>4, <1>9
    <2> QED
        <3>1. PICK A, B, o, h : A = PongAt /\ B = PingAt /\ o = out /\ h = handled
            OBVIOUS
        <3>2. PICK A2, B2, o2, h2 : A2 = PongAt' /\ B2 = PingAt' /\ o2 = out' /\ h2 = handled'
            OBVIOUS
        <3>3. /\ A \subseteq 1..n /\ A2 = A \cup {n + 1} /\ B \subseteq 1..k /\ B2 = B \cup {k + 1}
              /\ Paired(A, B, o, h) /\ Answers(o2[n + 1], h2[k + 1])
            BY <1>12, <1>13, <2>1, <2>2, <3>1, <3>2
        <3>4. Prolongs(o2, o, n) /\ Prolongs(h2, h, k)
            BY <1>4, <1>9, <3>1, <3>2 DEF Prolongs
        <3>5. OneMore(A2, A, n) /\ OneMore(B2, B, k)
            BY <3>3 DEF OneMore
        <3>6. Paired(A2, B2, o2, h2)
            BY ONLY <3>3, <3>4, <3>5, n \in Nat, k \in Nat, PairedNext
        <3> QED
            BY <3>2, <3>6
<1>15. out'[1][1] = "status"
    <2>1. 1 \in 1..n
        BY <1>6, <1>8, EmptySeq
    <2> QED
        BY <1>9, <2>1 DEF RepliesReadable
<1> QED
    BY <1>4, <1>9, <1>14, <1>15 DEF RepliesReadable, HandledIsSeq, OutIsSeq, Paired, Answers

\* What a frame that is handled changes here.
LEMMA FrameAnswered ==
    ASSUME RInv, phase = "open", NEW bts \in Seq(Byte), NEW m, m = ReadClientMessage(bts),
           NEW react, react = OnReactAfterUpgrade(m),
           handled' = Append(handled, m), out' = out \o react.out, async' = async \o react.async
    PROVE  RepliesReadable' /\ HandledIsSeq' /\ OutIsSeq' /\ AsyncIsPings' /\ out' # <<>>
<1>1. PICK Q : async \in Seq(Q) /\ \A x \in Q : x[1] = "frame" /\ x[2][1] % 16 = OpPing
    BY DEF RInv, AsyncIsPings
<1>2. PICK O : out \in Seq(O)
    BY DEF RInv, OutIsSeq
<1>3. RepliesReadable /\ HandledIsSeq /\ OutIsSeq /\ out # <<>>
    BY DEF RInv, OutAfterUpgrade
<1>4. CASE m.op # OpPing /\ react.out = <<>> /\ react.async = <<>>
    <2>1. out' = out /\ async' = async
        BY <1>1, <1>2, <1>4, ConcatEmptySeq
    <2>2. RepliesReadable' /\ HandledIsSeq'
        BY <1>3, <1>4, <2>1, NoPingHandled
    <2> QED
        BY <1>1, <1>3, <2>1, <2>2 DEF OutIsSeq, AsyncIsPings
<1>5. ASSUME m.op = OpPing, NEW w, NEW v, react.out = <<w>>, react.async = <<v>>,
             w[1] = "frame", w[2][1] % 16 = OpPong, Answers(w, m),
             v[1] = "frame", v[2][1] % 16 = OpPing
      PROVE  RepliesReadable' /\ HandledIsSeq' /\ OutIsSeq' /\ AsyncIsPings' /\ out' # <<>>
    <2>1. out' = Append(out, w)
        <3>1. out \in Seq(O \cup {w}) /\ w \in O \cup {w}
            BY <1>2, SeqMonotonic
        <3> QED
            BY <1>5, <3>1, AppendIsConcat
    <2>2. async' \in Seq(Q \cup {v})
        <3>1. async \in Seq(Q \cup {v}) /\ <<v>> \in Seq(Q \cup {v})
            BY <1>1, SeqMonotonic
        <3> QED
            BY <1>5, <3>1, ConcatProperties
    <2>3. AsyncIsPings'
        BY <1>1, <1>5, <2>2 DEF AsyncIsPings
    <2>4. RepliesReadable' /\ HandledIsSeq' /\ OutIsSeq' /\ out' # <<>>
        BY <1>3, <1>5, <2>1, PingAnswered
    <2> QED
        BY <2>3, <2>4
<1> QED
    BY <1>4, <1>5, Reacts

LEMMA DecodeFrameAnswers ==
    ASSUME RInv, DecodeFrame
    PROVE  HandledIsSeq' /\ OutIsSeq' /\ AsyncIsPings' /\ OutAfterUpgrade' /\ RepliesReadable'
<1>1. PICK r : r = ReadFrameFromBytes(buf)
    OBVIOUS
<1>2. PICK m : m = ReadClientMessage(r.frame)
    OBVIOUS
<1>3. PICK react : react = OnReactAfterUpgrade(m)
    OBVIOUS
<1>4. /\ phase = "open" /\ phase' \in {"open", "closed"}
      /\ \/ UNCHANGED <<handled, async, out>>
         \/ /\ r.err = NoError /\ handled' = Append(handled, m)
            /\ out' = out \o react.out /\ async' = async \o react.async
    BY <1>1, <1>2, <1>3 DEF DecodeFrame
<1>5. CASE UNCHANGED <<handled, async, out>>
    BY <1>4, <1>5 DEF RInv, HandledIsSeq, OutIsSeq, AsyncIsPings, OutAfterUpgrade, RepliesReadable,
                      PongAt, PingAt
<1>6. CASE /\ r.err = NoError /\ handled' = Append(handled, m)
           /\ out' = out \o react.out /\ async' = async \o react.async
    <2>1. buf \in Seq(Byte)
        BY DEF RInv, IInv, TypeOK, Byte
    <2>2. r.frame \in Seq(Byte)
        BY <1>1, <1>6, <2>1, FrameTyped
    <2>3. RepliesReadable' /\ HandledIsSeq' /\ OutIsSeq' /\ AsyncIsPings' /\ out' # <<>>
        BY <1>2, <1>3, <1>4, <1>6, <2>2, FrameAnswered
    <2> QED
        BY <1>4, <2>3 DEF OutAfterUpgrade
<1> QED
    BY <1>4, <1>5, <1>6

LEMMA AsyncWriteAnswers ==
    ASSUME RInv, AsyncWrite
    PROVE  HandledIsSeq' /\ OutIsSeq' /\ AsyncIsPings' /\ OutAfterUpgrade' /\ RepliesReadable'
<1>1. PICK Q : async \in Seq(Q) /\ \A x \in Q : x[1] = "frame" /\ x[2][1] % 16 = OpPing
    BY DEF RInv, AsyncIsPings
<1>2. PICK x : x = Head(async)
    OBVIOUS
<1>3. /\ async # <<>> /\ async' = Tail(async) /\ phase' = phase /\ handled' = handled
      /\ out' = IF phase = "closed" THEN out ELSE Append(out, x)
    BY <1>2 DEF AsyncWrite
<1>4. x[1] = "frame" /\ x[2][1] % 16 = OpPing
    BY <1>1, <1>2, <1>3, HeadTailProperties
<1>5. async' \in Seq(Q)
    BY <1>1, <1>3, HeadTailProperties
<1>6. AsyncIsPings' /\ HandledIsSeq'
    BY <1>1, <1>3, <1>5 DEF RInv, AsyncIsPings, HandledIsSeq
<1>7. phase \in {"open", "closed"}
    BY <1>3 DEF RInv, OutAfterUpgrade, IInv, TypeOK
<1>8. CASE phase = "closed"
    BY <1>3, <1>6, <1>8 DEF RInv, OutIsSeq, OutAfterUpgrade, RepliesReadable, PongAt, PingAt
<1>9. CASE phase = "open"
    <2>1. RepliesReadable /\ OutIsSeq /\ out # <<>>
        BY <1>9 DEF RInv, OutAfterUpgrade
    <2>2. RepliesReadable' /\ OutIsSeq' /\ out' # <<>>
        BY <1>3, <1>4, <1>9, <2>1, NoPongWritten
    <2> QED
        BY <1>3, <1>6, <1>9, <2>2 DEF OutAfterUpgrade
<1> QED
    BY <1>7, <1>8, <1>9

LEMMA UpgradeReplyAnswers ==
    ASSUME RInv, UpgradeReply
    PROVE  HandledIsSeq' /\ OutIsSeq' /\ AsyncIsPings' /\ OutAfterUpgrade' /\ RepliesReadable'
<1>1. /\ phase = "reply" /\ phase' \in {"open", "closed"} /\ handled' = handled /\ async' = async
      /\ out' = Append(out, Response)
    BY DEF UpgradeReply
<1>2. out = <<>> /\ handled = <<>>
    BY <1>1 DEF RInv, OutAfterUpgrade, IInv, HandledAfterUpgrade
<1>3. PICK x : x = Response /\ x[1] = "status"
    <2>1. PICK c : Response = <<"status", c>>
        BY DEF Response
    <2>2. <<"status", c>>[1] = "status"
        OBVIOUS
    <2> QED
        BY <2>1, <2>2
<1>4. /\ out' \in Seq({x}) /\ out' # <<>> /\ Len(out') = 1 /\ out'[1] = x
    <2>1. <<>> \in Seq({x}) /\ Len(<<>>) = 0
        BY EmptySeq
    <2> QED
        BY <1>1, <1>2, <1>3, <2>1, AppendProperties
<1>5. PongAt' = {}
    <2>1. DOMAIN out' = 1..1
        BY <1>4, LenProperties
    <2>2. \A i \in 1..1 : i = 1
        OBVIOUS
    <2>3. "status" # "frame"
        OBVIOUS
    <2> QED
        BY <1>3, <1>4, <2>1, <2>2, <2>3 DEF PongAt
<1>6. PingAt' = {}
    <2>1. DOMAIN handled' = {}
        BY <1>1, <1>2
    <2> QED
        BY <2>1 DEF PingAt
<1>7. RepliesReadable'
    BY <1>3, <1>4, <1>5, <1>6 DEF RepliesReadable
<1> QED
    BY <1>1, <1>4, <1>7 DEF RInv, HandledIsSeq, OutIsSeq, AsyncIsPings, OutAfterUpgrade

\* The other steps write nothing and handle nothing.
LEMMA OthersAnswer ==
    ASSUME RInv, UNCHANGED <<handled, async, out>>,
           \/ phase' = phase
           \/ phase' \in {"line", "headers", "reply"} /\ phase \in {"http", "line", "headers"}
           \/ phase' = "closed"
    PROVE  HandledIsSeq' /\ OutIsSeq' /\ AsyncIsPings' /\ OutAfterUpgrade' /\ RepliesReadable'
BY DEF RInv, HandledIsSeq, OutIsSeq, AsyncIsPings, OutAfterUpgrade, RepliesReadable, PongAt, PingAt

LEMMA AnswersStep ==
    ASSUME RInv, [Next]_vars
    PROVE  RInv'
<1>1. IInv'
    BY Step DEF RInv
<1>2. ASSUME \/ \E f \in PeerFrames : PeerSends(f)
             \/ \E n \in 1..Len(todo) : Arrive(n)
             \/ UNCHANGED vars
      PROVE  UNCHANGED <<handled, async, out>> /\ phase' = phase
    BY <1>2 DEF PeerSends, Arrive, vars
<1>3. ASSUME \/ DecodeRequest \/ HeadersEnd
             \/ \E l \in RequestLines : RequestLine(l)
             \/ \E l \in HeaderLines : HeaderLine(l)
      PROVE  /\ UNCHANGED <<handled, async, out>>
             /\ \/ phase' = phase
                \/ phase' \in {"line", "headers", "reply"} /\ phase \in {"http", "line", "headers"}
                \/ phase' = "closed"
    BY <1>3 DEF DecodeRequest, HeadersEnd, RequestLine, HeaderLine
<1>4. HandledIsSeq' /\ OutIsSeq' /\ AsyncIsPings' /\ OutAfterUpgrade' /\ RepliesReadable'
    BY <1>2, <1>3, OthersAnswer, UpgradeReplyAnswers, DecodeFrameAnswers, AsyncWriteAnswers
       DEF Next, Handshake
<1> QED
    BY <1>1, <1>4 DEF RInv

LEMMA AnswersInitially ==
    Init => RInv
<1> SUFFICES ASSUME Init PROVE RInv
    OBVIOUS
<1>1. IInv
    BY Initially
<1>2. phase = "http" /\ handled = <<>> /\ async = <<>> /\ out = <<>>
    BY DEF Init
<1>3. HandledIsSeq /\ OutIsSeq /\ AsyncIsPings /\ OutAfterUpgrade
    <2>1. <<>> \in Seq({})
        BY EmptySeq
    <2> QED
        BY <1>2, <2>1 DEF HandledIsSeq, OutIsSeq, AsyncIsPings, OutAfterUpgrade
<1>4. PongAt = {} /\ PingAt = {}
    BY <1>2 DEF PongAt, PingAt
<1>5. RepliesReadable
    BY <1>2, <1>4 DEF RepliesReadable
<1> QED
    BY <1>1, <1>3, <1>5 DEF RInv

\* The inductive invariant of the answers holds in every reachable state.
THEOREM AnswersInvariant == Spec => []RInv
<1>1. Init => RInv
    BY AnswersInitially
<1>2. RInv /\ [Next]_vars => RInv'
    BY AnswersStep
<1> QED
    BY <1>1, <1>2, PTL DEF Spec

\* Whatever the peer sends, the answer to its request is the first thing on the
\* socket, and the n-th pong is the answer to its n-th ping, with its payload,
\* laid out so that the peer reads it back (handler.go, HandlePing; write.go,
\* WriteHeader).
THEOREM RepliesAreReadable == Spec => []RepliesReadable
<1>1. RInv => RepliesReadable
    BY DEF RInv
<1> QED
    BY <1>1, AnswersInvariant, PTL
=============================================================================

---------------------------- MODULE CipherProofs ----------------------------
(* Cipher masks every byte once and as the mask prescribes. *)
EXTENDS Cipher, TLAPS

\* What RFC 6455 (section 5.3) asks: byte i of the payload gets byte i modulo
\* 4 of the mask, here for a chunk that starts at an offset of the payload.
KeyIsPositionModulo4 ==
    \A n, offset \in Nat : \A i \in 0..(n - 1) :
        KeyIndex(n, offset, i) = (offset + i) % 4

LEMMA LnFacts ==
    ASSUME NEW offset \in Nat
    PROVE  /\ Ln(offset) \in 0..3
           /\ (offset + Ln(offset)) % 4 = 0
BY DEF Ln, Remain

LEMMA RnFacts ==
    ASSUME NEW n \in Nat, NEW offset \in Nat, n >= 8
    PROVE  /\ Rn(n, offset) \in 0..7
           /\ Ln(offset) <= n - Rn(n, offset)
           /\ (n - Ln(offset) - Rn(n, offset)) % 8 = 0
<1>1. Ln(offset) \in 0..3
  BY LnFacts
<1>2. PICK l \in 0..3 : l = Ln(offset)
  BY <1>1
<1>3. (n - l) % 8 \in 0..7 /\ (n - l) % 8 <= n - l /\ ((n - l) - ((n - l) % 8)) % 8 = 0
  BY <1>2
<1> QED
  BY <1>2, <1>3 DEF Rn

\* The loops of Cipher together take each byte of a chunk of eight or more
\* exactly once.
THEOREM LoopsPartitionChunk ==
    ASSUME NEW n \in Nat, NEW offset \in Nat, n >= 8, NEW i \in 0..(n - 1)
    PROVE  /\ InHead(n, offset, i) \/ InTail(n, offset, i) \/ InWide(n, offset, i)
           /\ ~(InHead(n, offset, i) /\ InTail(n, offset, i))
           /\ ~(InHead(n, offset, i) /\ InWide(n, offset, i))
           /\ ~(InTail(n, offset, i) /\ InWide(n, offset, i))
<1> DEFINE l == Ln(offset)
           r == Rn(n, offset)
           m == (n - l - r) \div 8
<1>1. l \in 0..3 /\ r \in 0..7 /\ l <= n - r /\ (n - l - r) % 8 = 0
  BY LnFacts, RnFacts
<1>2. m \in Nat /\ n - r = l + 8 * m
  <2> HIDE DEF l, r
  <2> QED BY <1>1
<1>3. ASSUME ~InHead(n, offset, i), ~InTail(n, offset, i)
      PROVE  InWide(n, offset, i)
  <2>1. i >= l /\ i < n - r
    BY <1>3, <1>1 DEF InHead, InTail
  <2> DEFINE k == (i - l) \div 8
  <2>2. k \in 0..(m - 1) /\ i \in (l + 8 * k)..(l + 8 * k + 7)
    <3> HIDE DEF l, r, m
    <3> QED BY <2>1, <1>1, <1>2
  <2> QED
    BY <2>2 DEF InWide
<1>4. ASSUME InWide(n, offset, i)
      PROVE  i >= l /\ i < n - r
  <2>1. PICK k \in 0..(m - 1) : i \in (l + 8 * k)..(l + 8 * k + 7)
    BY <1>4 DEF InWide
  <2> HIDE DEF l, r, m
  <2> QED BY <2>1, <1>1, <1>2
<1> QED
  BY <1>1, <1>3, <1>4 DEF InHead, InTail

\* Whatever the length of the chunk and its offset, each byte gets the byte of
\* the mask that belongs to its position in the payload.
THEOREM CipherExact == KeyIsPositionModulo4
<1> SUFFICES ASSUME NEW n \in Nat, NEW offset \in Nat, NEW i \in 0..(n - 1)
             PROVE  KeyIndex(n, offset, i) = (offset + i) % 4
  BY DEF KeyIsPositionModulo4
<1>1. CASE n < 8
  BY <1>1 DEF KeyIndex
<1>2. CASE n >= 8
  <2>1. KeyByByte(offset, i) = (offset + i) % 4
    BY DEF KeyByByte
  <2>2. ASSUME ~InHead(n, offset, i)
        PROVE  KeyInWide(offset, i) = (offset + i) % 4
    <3>1. PICK l \in 0..3 : l = Ln(offset) /\ (offset + l) % 4 = 0
      BY LnFacts
    <3>2. i >= l
      BY <2>2, <3>1 DEF InHead
    <3>3. PICK q \in Nat : offset + l = 4 * q
      <4>1. PICK s \in Nat : s = offset + l
        OBVIOUS
      <4>2. s % 4 = 0
        BY <3>1, <4>1
      <4>3. s = 4 * (s \div 4) /\ (s \div 4) \in Nat
        BY <4>2
      <4> QED BY <4>1, <4>3
    <3>4. PICK d \in Nat : d = i - l
      BY <3>2
    <3>5. PICK a \in Nat, b \in 0..7 : d = 8 * a + b
      <4>1. d = 8 * (d \div 8) + (d % 8) /\ (d \div 8) \in Nat /\ (d % 8) \in 0..7
        OBVIOUS
      <4> QED BY <4>1
    <3>6. offset + i = 4 * (q + 2 * a) + b
      BY <3>1, <3>3, <3>4, <3>5
    <3>7. d % 8 = b
      BY <3>5
    <3>8. (offset + i) % 4 = b % 4
      BY <3>6, <3>5
    <3>9. ((i - l) % 8) % 4 = (offset + i) % 4
      BY <3>4, <3>7, <3>8
    <3> QED
      BY <3>1, <3>9 DEF KeyInWide
  <2> QED
    BY <1>2, <2>1, <2>2 DEF KeyIndex
<1> QED
  BY <1>1, <1>2

\* Unmasking a payload chunk by chunk, as CipherReader does with the position
\* it keeps, is unmasking it at once: byte i is byte i - k of a second chunk
\* that starts at k.
THEOREM ChunksCompose ==
    ASSUME NEW n \in Nat, NEW k \in 0..n, NEW i \in k..(n - 1)
    PROVE  KeyIndex(n - k, k, i - k) = KeyIndex(n, 0, i)
<1>1. KeyIndex(n - k, k, i - k) = (k + (i - k)) % 4
  BY CipherExact DEF KeyIsPositionModulo4
<1>2. KeyIndex(n, 0, i) = (0 + i) % 4
  BY CipherExact DEF KeyIsPositionModulo4
<1> QED
  BY <1>1, <1>2
=============================================================================

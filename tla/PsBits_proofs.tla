----------------------------- MODULE PsBits_proofs -----------------------------
(***************************************************************************)
(* Proofs about the operators of PsBits, for every buffer and every value  *)
(* a field can hold: what is written bit by bit on one side of the wire is *)
(* the number read bit by bit on the other.                                *)
(***************************************************************************)
EXTENDS PsBits, WellFoundedInduction, TLAPS

(***************************************************************************)
(* Induction, for properties given as the set of numbers that have them.   *)
(***************************************************************************)
LEMMA SetInduction ==
  ASSUME NEW S, 0 \in S, \A n \in Nat : n \in S => n + 1 \in S
  PROVE  Nat \subseteq S
<1> SUFFICES ASSUME Nat \ S # {} PROVE FALSE
  OBVIOUS
<1> DEFINE R == OpToRel(<, Nat)
<1>1. IsWellFoundedOn(R, Nat)
  BY NatLessThanWellFounded
<1>2. \A x, y \in Nat : x < y => <<x, y>> \in R
  BY DEF OpToRel
<1> HIDE DEF R
<1>3. PICK m \in Nat \ S : \A y \in Nat \ S : <<y, m>> \notin R
  BY <1>1, WFMin
<1>4. m # 0 /\ m - 1 \in Nat
  BY <1>3
<1>5. m - 1 \in S => (m - 1) + 1 \in S
  BY <1>4
<1>6. <<m - 1, m>> \in R
  BY <1>2, <1>4
<1> QED
  BY <1>3, <1>4, <1>5, <1>6

\* The same up to a bound.
LEMMA BoundedInduction ==
  ASSUME NEW S, NEW N \in Nat, 0 \in S, \A n \in 0..N - 1 : n \in S => n + 1 \in S
  PROVE  0..N \subseteq S
<1> DEFINE T == {n \in Nat : n <= N => n \in S}
<1>1. 0 \in T /\ \A n \in Nat : n \in T => n + 1 \in T
  OBVIOUS
<1>2. Nat \subseteq T
  BY <1>1, SetInduction
<1> QED
  BY <1>2
-----------------------------------------------------------------------------
(***************************************************************************)
(* Arithmetic of binary numbers.                                           *)
(***************************************************************************)

\* Quotient and remainder are the only ones there are.
LEMMA DivisionUnique ==
  ASSUME NEW n \in Nat, NEW d \in Nat \ {0}, NEW h \in Nat, NEW s \in 0..d - 1,
         n = h * d + s
  PROVE  n \div d = h /\ n % d = s
<1> DEFINE q == n \div d
           r == n % d
<1>1. n = q * d + r /\ r \in 0..d - 1 /\ q \in Nat
  OBVIOUS
<1> HIDE DEF q, r
<1>2. (q - h) * d = s - r
  BY <1>1
<1>3. q - h >= 1 => (q - h) * d >= d
  BY <1>1
<1>4. q - h <= -1 => (q - h) * d <= -d
  BY <1>1
<1>5. q = h
  BY <1>1, <1>2, <1>3, <1>4
<1> QED
  BY <1>1, <1>2, <1>5 DEF q, r

\* One bit more, at weight w: of the remainder at its upper end, of the quotient
\* at its lower end.
LEMMA NextBit ==
  ASSUME NEW n \in Nat, NEW w \in Nat \ {0}
  PROVE  /\ n % (2 * w) = (n % w) + ((n \div w) % 2) * w
         /\ n \div w = 2 * (n \div (2 * w)) + ((n \div w) % 2)
<1> DEFINE q == n \div w
           r == n % w
           h == q \div 2
           b == q % 2
<1>1. q \in Nat /\ n = q * w + r /\ r \in 0..w - 1
  OBVIOUS
<1> HIDE DEF q, r
<1>2. h \in Nat /\ b \in 0..1 /\ q = 2 * h + b
  BY <1>1
<1> HIDE DEF h, b
<1>3. n = h * (2 * w) + (b * w + r)
  BY <1>1, <1>2
<1>4. b * w + r \in 0..(2 * w) - 1 /\ 2 * w \in Nat \ {0}
  BY <1>1, <1>2
<1>5. n \div (2 * w) = h /\ n % (2 * w) = b * w + r
  BY <1>2, <1>3, <1>4, DivisionUnique
<1> QED
  BY <1>1, <1>2, <1>5 DEF q, r, b

\* Each weight of a field of that many bits is twice the one before.
Weights(len) == \A k \in 0..len - 1 : 2^k \in Nat \ {0} /\ 2^(k + 1) = 2 * 2^k

LEMMA FieldWeights ==
  Weights(psOUTCurrentLen) /\ Weights(psCurrentLen) /\ Weights(psVoltageLen)
<1>1. ASSUME NEW k \in 0..15
      PROVE  2^k \in Nat \ {0} /\ 2^(k + 1) = 2 * 2^k
  <2>1. \/ k = 0 \/ k = 1 \/ k = 2 \/ k = 3 \/ k = 4 \/ k = 5 \/ k = 6 \/ k = 7
        \/ k = 8 \/ k = 9 \/ k = 10 \/ k = 11 \/ k = 12 \/ k = 13 \/ k = 14 \/ k = 15
    OBVIOUS
  <2>2. CASE k = 0  BY <2>2
  <2>3. CASE k = 1  BY <2>3
  <2>4. CASE k = 2  BY <2>4
  <2>5. CASE k = 3  BY <2>5
  <2>6. CASE k = 4  BY <2>6
  <2>7. CASE k = 5  BY <2>7
  <2>8. CASE k = 6  BY <2>8
  <2>9. CASE k = 7  BY <2>9
  <2>10. CASE k = 8  BY <2>10
  <2>11. CASE k = 9  BY <2>11
  <2>12. CASE k = 10 BY <2>12
  <2>13. CASE k = 11 BY <2>13
  <2>14. CASE k = 12 BY <2>14
  <2>15. CASE k = 13 BY <2>15
  <2>16. CASE k = 14 BY <2>16
  <2>17. CASE k = 15 BY <2>17
  <2> QED
    BY <2>1, <2>2, <2>3, <2>4, <2>5, <2>6, <2>7, <2>8, <2>9, <2>10, <2>11, <2>12,
       <2>13, <2>14, <2>15, <2>16, <2>17
<1>2. ASSUME NEW len \in {psOUTCurrentLen, psCurrentLen, psVoltageLen}, NEW k \in 0..len - 1
      PROVE  k \in 0..15
  BY <1>2 DEF psOUTCurrentLen, psCurrentLen, psVoltageLen
<1> QED
  BY <1>1, <1>2, Zenon DEF Weights

\* Bit k of a number.
BitOf(n, k) == (n \div 2^k) % 2 = 1

\* Zero has no bit that is one.
LEMMA ZeroBits ==
  ASSUME NEW len \in Nat, Weights(len), NEW k \in 0..len - 1
  PROVE  BitOf(0, k) = FALSE
<1> DEFINE w == 2^k
<1>1. w \in Nat \ {0}
  BY DEF Weights
<1> HIDE DEF w
<1> DEFINE q == 0 \div w
           r == 0 % w
<1>2. q \in Nat /\ r \in 0..w - 1 /\ 0 = q * w + r
  BY <1>1
<1> HIDE DEF q, r
<1>3. q = 0
  <2>1. q >= 1 => q * w >= w
    BY <1>1, <1>2
  <2> QED
    BY <1>1, <1>2, <2>1
<1>4. (q % 2 = 1) = FALSE
  BY <1>3
<1> QED
  BY <1>4, Zenon DEF BitOf, w, q

\* A bit as the number it stands for.
LEMMA BitValue ==
  ASSUME NEW len \in Nat, Weights(len), NEW n \in Nat, NEW k \in 0..len - 1
  PROVE  Bit(BitOf(n, k)) = (n \div 2^k) % 2
<1> DEFINE w == 2^k
<1>1. w \in Nat \ {0}
  BY DEF Weights
<1> HIDE DEF w
<1>2. n \div w \in Nat
  BY <1>1
<1>3. Bit((n \div w) % 2 = 1) = (n \div w) % 2
  BY <1>2 DEF Bit
<1> QED
  BY <1>3 DEF BitOf, w
-----------------------------------------------------------------------------
(***************************************************************************)
(* Reading a number off its bits.                                          *)
(***************************************************************************)

\* The supply's sum over the bits of a number is that number.
LEMMA CurrentOfBits ==
  ASSUME NEW n \in Nat, n < 2^psOUTCurrentLen,
         NEW reg, \A k \in 0..psOUTCurrentLen - 1 : reg[k] = BitOf(n, k)
  PROVE  CurrentArrived(reg) = n
<1> DEFINE L      == psOUTCurrentLen
           Sum(g, i) == IF i = 0 THEN 0 ELSE g[i - 1] + Bit(reg[i - 1]) * 2^(i - 1)
           low    == [i \in 0..L |-> n % 2^i]
<1>1. L \in Nat /\ L # 0
  BY DEF psOUTCurrentLen
<1>2. CurrentArrived(reg) = (CHOOSE g : g = [i \in 0..L |-> Sum(g, i)])[L]
  BY DEF CurrentArrived
<1> HIDE DEF L
<1>3. \A k \in 0..L - 1 : low[k + 1] = low[k] + Bit(reg[k]) * 2^k
  <2> SUFFICES ASSUME NEW k \in 0..L - 1
               PROVE  low[k + 1] = low[k] + Bit(reg[k]) * 2^k
    OBVIOUS
  <2> DEFINE w == 2^k
  <2>1. w \in Nat \ {0} /\ 2^(k + 1) = 2 * w
    BY FieldWeights DEF Weights, L
  <2>2. Bit(reg[k]) = (n \div w) % 2
    BY FieldWeights, BitValue, <1>1 DEF L
  <2>3. low[k + 1] = n % 2^(k + 1) /\ low[k] = n % w
    BY <1>1
  <2> HIDE DEF w, low
  <2>4. n % (2 * w) = (n % w) + ((n \div w) % 2) * w
    BY <2>1, NextBit
  <2> QED
    BY <2>1, <2>2, <2>3, <2>4 DEF w
<1>4. low[0] = 0 /\ low[L] = n
  <2>1. 2^0 = 1
    OBVIOUS
  <2>2. n % 2^L = n
    BY DEF L, psOUTCurrentLen
  <2> QED
    BY <1>1, <2>1, <2>2
<1>5. low = [i \in 0..L |-> low[i]]
  OBVIOUS
<1> HIDE DEF low
<1>6. low = [i \in 0..L |-> Sum(low, i)]
  <2>1. ASSUME NEW i \in 0..L, i # 0
        PROVE  low[i] = low[i - 1] + Bit(reg[i - 1]) * 2^(i - 1)
    <3>1. i - 1 \in 0..L - 1 /\ (i - 1) + 1 = i
      BY <1>1, <2>1
    <3> QED
      BY <1>3, <3>1
  <2>2. \A i \in 0..L : low[i] = Sum(low, i)
    BY <1>4, <2>1
  <2> HIDE DEF Sum
  <2> QED
    BY <1>5, <2>2, Zenon
<1>7. ASSUME NEW g, g = [i \in 0..L |-> Sum(g, i)]
      PROVE  g[L] = n
  <2> DEFINE S == {i \in 0..L : g[i] = low[i]}
  <2>1. \A i \in 0..L : g[i] = Sum(g, i)
    <3> HIDE DEF Sum
    <3> QED
      BY <1>7
  <2>2. 0 \in S
    BY <1>1, <1>4, <2>1
  <2>3. ASSUME NEW i \in 0..L - 1, i \in S
        PROVE  i + 1 \in S
    <3>1. i + 1 \in 0..L /\ i + 1 # 0 /\ (i + 1) - 1 = i
      BY <1>1
    <3>2. g[i + 1] = g[i] + Bit(reg[i]) * 2^i
      BY <2>1, <3>1
    <3> QED
      BY <1>3, <2>3, <3>1, <3>2
  <2> HIDE DEF S
  <2>4. 0..L \subseteq S
    BY <1>1, <2>2, <2>3, BoundedInduction
  <2> QED
    BY <1>1, <1>4, <2>4 DEF S
<1> HIDE DEF Sum
<1> QED
  BY <1>2, <1>6, <1>7

\* The driver's reading, from the highest bit down, of a field that holds the bits
\* of a number is that number.
LEMMA ReadOfBits ==
  ASSUME NEW L \in Nat \ {0}, Weights(L), NEW n \in Nat, n \div 2^L = 0,
         NEW pos \in Int,
         NEW buf, \A k \in 0..L - 1 : getBit(buf, pos + k) = BitOf(n, k)
  PROVE  readUint(buf, pos, L) = n
<1> DEFINE Double(g, i) ==
             IF i = 0 THEN 0 ELSE 2 * g[i - 1] + Bit(getBit(buf, pos + L - i))
           high == [i \in 0..L |-> n \div 2^(L - i)]
<1>1. readUint(buf, pos, L) = (CHOOSE g : g = [i \in 0..L |-> Double(g, i)])[L]
  BY DEF readUint
<1>2. \A i \in 1..L : high[i] = 2 * high[i - 1] + Bit(getBit(buf, pos + L - i))
  <2> SUFFICES ASSUME NEW i \in 1..L
               PROVE  high[i] = 2 * high[i - 1] + Bit(getBit(buf, pos + L - i))
    OBVIOUS
  <2> DEFINE k == L - i
             w == 2^k
  <2>1. k \in 0..L - 1 /\ pos + L - i = pos + k /\ L - (i - 1) = k + 1
    OBVIOUS
  <2> HIDE DEF k
  <2>2. w \in Nat \ {0} /\ 2^(k + 1) = 2 * w
    BY <2>1 DEF Weights
  <2>3. Bit(getBit(buf, pos + L - i)) = (n \div w) % 2
    BY <2>1, BitValue
  <2>4. high[i] = n \div w /\ high[i - 1] = n \div 2^(k + 1)
    BY <2>1 DEF k
  <2> HIDE DEF w, high
  <2>5. n \div w = 2 * (n \div (2 * w)) + ((n \div w) % 2)
    BY <2>2, NextBit
  <2> QED
    BY <2>2, <2>3, <2>4, <2>5
<1>3. high[0] = 0 /\ high[L] = n
  <2>1. 2^0 = 1 /\ n \div 1 = n
    OBVIOUS
  <2>2. L - L = 0 /\ L - 0 = L
    OBVIOUS
  <2> QED
    BY <2>1, <2>2
<1>4. high = [i \in 0..L |-> high[i]]
  OBVIOUS
<1> HIDE DEF high
<1>5. high = [i \in 0..L |-> Double(high, i)]
  <2>1. \A i \in 0..L : high[i] = Double(high, i)
    BY <1>2, <1>3
  <2> HIDE DEF Double
  <2> QED
    BY <1>4, <2>1, Zenon
<1>6. ASSUME NEW g, g = [i \in 0..L |-> Double(g, i)]
      PROVE  g[L] = n
  <2> DEFINE S == {i \in 0..L : g[i] = high[i]}
  <2>1. \A i \in 0..L : g[i] = Double(g, i)
    <3> HIDE DEF Double
    <3> QED
      BY <1>6
  <2>2. 0 \in S
    BY <1>3, <2>1
  <2>3. ASSUME NEW i \in 0..L - 1, i \in S
        PROVE  i + 1 \in S
    <3>1. i + 1 \in 1..L /\ i + 1 \in 0..L /\ i + 1 # 0 /\ (i + 1) - 1 = i
      OBVIOUS
    <3>2. g[i + 1] = 2 * g[i] + Bit(getBit(buf, pos + L - (i + 1)))
      BY <2>1, <3>1
    <3>3. high[i + 1] = 2 * high[i] + Bit(getBit(buf, pos + L - (i + 1)))
      BY <1>2, <3>1
    <3> QED
      BY <2>3, <3>1, <3>2, <3>3
  <2> HIDE DEF S
  <2>4. 0..L \subseteq S
    BY <2>2, <2>3, BoundedInduction
  <2> QED
    BY <1>3, <2>4 DEF S
<1> HIDE DEF Double
<1> QED
  BY <1>1, <1>5, <1>6
-----------------------------------------------------------------------------
(***************************************************************************)
(* Writing the frame to the supply.                                        *)
(***************************************************************************)

\* A buffer of 32 bits, whatever the bits are.
IsOut(buf) == buf = [p \in OutBits |-> buf[p]]

\* The bits of two buffers agree at some positions.
AgreeAt(a, b, positions) == \A p \in positions : a[p] = b[p]

\* setBit changes the bit at its position and no other.
LEMMA SetBitAt ==
  ASSUME NEW buf, IsOut(buf), NEW pos \in OutBits, NEW st
  PROVE  /\ IsOut(setBit(buf, pos, st))
         /\ AgreeAt(setBit(buf, pos, st), buf, OutBits \ {pos})
BY DEF IsOut, AgreeAt, setBit

\* revarseBits stays within its field.
LEMMA ReverseOutside ==
  ASSUME NEW buf, IsOut(buf), NEW pos \in {0, 8}
  PROVE  /\ IsOut(revarseBits(buf, pos, 8))
         /\ AgreeAt(revarseBits(buf, pos, 8), buf, 16..31)
<1>1. DOMAIN buf = OutBits
  BY DEF IsOut
<1>2. \A p \in 16..31 : p \in OutBits /\ p \notin pos..pos + 8 - 1
  BY DEF OutBits
<1> QED
  BY <1>1, <1>2 DEF IsOut, AgreeAt, revarseBits

\* Writing the set current leaves the third and the fourth byte alone.
LEMMA SetUintOutside ==
  ASSUME NEW buf, IsOut(buf), NEW val
  PROVE  /\ IsOut(setUint(buf, val, psOUTCurrentPos, psOUTCurrentLen))
         /\ AgreeAt(setUint(buf, val, psOUTCurrentPos, psOUTCurrentLen), buf, 16..31)
<1> DEFINE plain == plainUint(buf, val, 0, 16)
           once  == revarseBits(plain, 0, 8)
           twice == revarseBits(once, 8, 8)
<1>1. IsOut(plain) /\ AgreeAt(plain, buf, 16..31)
  <2>1. DOMAIN buf = OutBits
    BY DEF IsOut
  <2>2. \A p \in 16..31 : p \in OutBits /\ p \notin 0..0 + 16 - 1
    BY DEF OutBits
  <2> QED
    BY <2>1, <2>2 DEF IsOut, AgreeAt, plainUint
<1> HIDE DEF plain
<1>2. IsOut(once) /\ AgreeAt(once, plain, 16..31)
  BY <1>1, ReverseOutside
<1> HIDE DEF once
<1>3. IsOut(twice) /\ AgreeAt(twice, once, 16..31)
  BY <1>2, ReverseOutside
<1>4. setUint(buf, val, psOUTCurrentPos, psOUTCurrentLen) = twice
  BY DEF setUint, plain, once, twice, psOUTCurrentPos, psOUTCurrentLen
<1> HIDE DEF twice
<1> QED
  BY <1>1, <1>2, <1>3, <1>4 DEF AgreeAt

\* The bit setBit writes, and those it keeps.
LEMMA SetBitValue ==
  ASSUME NEW buf, IsOut(buf), NEW pos \in OutBits, NEW st
  PROVE  /\ IsOut(setBit(buf, pos, st)) /\ setBit(buf, pos, st)[pos] = st
         /\ \A p \in OutBits : p # pos => setBit(buf, pos, st)[p] = buf[p]
BY DEF IsOut, setBit

\* The supply finds a control bit where the driver put it.
LEMMA ArrivedAt ==
  ASSUME NEW buf, NEW pos \in {17, 18, 20, 21, 23, 24, 25}
  PROVE  Arrived(Register(buf), pos) = buf[pos]
<1>1. Arrival(pos) \in OutBits
  BY DEF Arrival, OutBits
<1>2. 8 * outIndex((Words - 4) + (Arrival(pos) \div 8)) + (7 - (Arrival(pos) % 8)) = pos
  BY DEF Arrival, outIndex, Words
<1> QED
  BY <1>1, <1>2 DEF Arrived, Register

\* What revarseBits puts at each position of its field.
LEMMA ReverseInside ==
  ASSUME NEW buf, IsOut(buf), NEW pos \in {0, 8}
  PROVE  /\ \A p \in pos..pos + 7 : revarseBits(buf, pos, 8)[p] = buf[(pos + pos + 7) - p]
         /\ AgreeAt(revarseBits(buf, pos, 8), buf, (0..15) \ (pos..pos + 7))
<1>1. DOMAIN buf = OutBits
  BY DEF IsOut
<1>2. pos..pos + 8 - 1 = pos..pos + 7 /\ pos..pos + 7 \subseteq OutBits /\ 0..15 \subseteq OutBits
  BY DEF OutBits
<1>3. \A p \in pos..pos + 7 : (pos + pos + 8 - 1) - p = (pos + pos + 7) - p
  OBVIOUS
<1> QED
  BY <1>1, <1>2, <1>3 DEF AgreeAt, revarseBits

\* The two bytes of the set current leave the controller highest bit first, and
\* the reversal makes that the lowest bit of the value first.
LEMMA CurrentOnWire ==
  ASSUME NEW buf, IsOut(buf), NEW val, NEW k \in 0..psOUTCurrentLen - 1
  PROVE  Register(setUint(buf, val, psOUTCurrentPos, psOUTCurrentLen))[k] = BitOf(val, k)
<1> DEFINE plain == plainUint(buf, val, 0, 16)
           once  == revarseBits(plain, 0, 8)
           twice == revarseBits(once, 8, 8)
<1>1. k \in 0..15 /\ k \in OutBits
  BY DEF psOUTCurrentLen, OutBits
<1>2. IsOut(plain) /\ plain[k] = BitOf(val, k)
  <2>1. DOMAIN buf = OutBits
    BY DEF IsOut
  <2>2. k \in 0..0 + 16 - 1 /\ k - 0 = k
    BY <1>1
  <2> QED
    BY <1>1, <2>1, <2>2 DEF IsOut, plainUint, BitOf
<1> HIDE DEF plain
<1>3. /\ IsOut(once)
      /\ \A p \in 0..7 : once[p] = plain[7 - p]
      /\ \A p \in 8..15 : once[p] = plain[p]
  BY <1>2, ReverseOutside, ReverseInside DEF AgreeAt
<1> HIDE DEF once
<1>4. /\ \A p \in 0..7 : twice[p] = once[p]
      /\ \A p \in 8..15 : twice[p] = once[23 - p]
  BY <1>3, ReverseInside DEF AgreeAt
<1> HIDE DEF twice
<1>5. setUint(buf, val, psOUTCurrentPos, psOUTCurrentLen) = twice
  BY DEF setUint, plain, once, twice, psOUTCurrentPos, psOUTCurrentLen
<1>6. Register(twice)[k] = plain[k]
  <2>1. CASE k \in 0..7
    <3>1. 8 * outIndex((Words - 4) + (k \div 8)) + (7 - (k % 8)) = 7 - k
      BY <2>1 DEF outIndex, Words
    <3>2. 7 - k \in 0..7 /\ 7 - (7 - k) = k
      BY <2>1
    <3> QED
      BY <1>1, <1>3, <1>4, <3>1, <3>2 DEF Register
  <2>2. CASE k \in 8..15
    <3>1. 8 * outIndex((Words - 4) + (k \div 8)) + (7 - (k % 8)) = 23 - k
      BY <2>2 DEF outIndex, Words
    <3>2. 23 - k \in 8..15 /\ 23 - (23 - k) = k
      BY <2>2
    <3> QED
      BY <1>1, <1>3, <1>4, <2>2, <3>1, <3>2 DEF Register
  <2> QED
    BY <1>1, <2>1, <2>2
<1> QED
  BY <1>2, <1>5, <1>6

\* The bits of the set current come from the first two bytes.
LEMMA CurrentBytes ==
  ASSUME NEW a, NEW b, AgreeAt(a, b, 0..15), NEW k \in 0..psOUTCurrentLen - 1
  PROVE  Register(a)[k] = Register(b)[k]
<1> DEFINE p == 8 * outIndex((Words - 4) + (k \div 8)) + (7 - (k % 8))
<1>1. k \in 0..15 /\ k \in OutBits
  BY DEF psOUTCurrentLen, OutBits
<1>2. p \in 0..15
  BY <1>1 DEF outIndex, Words
<1> HIDE DEF p
<1>3. Register(a)[k] = a[p] /\ Register(b)[k] = b[p]
  BY <1>1 DEF Register, p
<1> QED
  BY <1>2, <1>3 DEF AgreeAt
-----------------------------------------------------------------------------
(***************************************************************************)
(* Reading the frame from the supply.                                      *)
(***************************************************************************)

\* Each bit of the status frame is where the driver looks for it.
LEMMA StatusFrameBits ==
  ASSUME NEW reading, NEW remote \in BOOLEAN, NEW on \in BOOLEAN,
         reading.colective \in BOOLEAN, reading.external \in BOOLEAN,
         reading.polarisation1 \in BOOLEAN, reading.polarisation2 \in BOOLEAN,
         NEW buf, buf = StatusFrame(reading, remote, on)
  PROVE  /\ \A k \in 0..psCurrentLen - 1 :
              getBit(buf, psCurrentPos + k) = BitOf(reading.current, k)
         /\ \A k \in 0..psVoltageLen - 1 :
              getBit(buf, psVoltagePos + k) = BitOf(reading.voltage, k)
         /\ getBit(buf, psStatusErrorColectivePos) = reading.colective
         /\ getBit(buf, psStatusErrorExternalPos) = reading.external
         /\ getBit(buf, psStatusRemoteControlPos) = remote
         /\ getBit(buf, psStatusPowerCircuitPos) = on
         /\ getBit(buf, psStatusPolarisation1Pos) = reading.polarisation1
         /\ getBit(buf, psStatusPolarisation2Pos) = reading.polarisation2
<1> USE DEF StatusFrame, InBits, psCurrentPos, psCurrentLen, psVoltagePos, psVoltageLen,
            psStatusErrorColectivePos, psStatusErrorExternalPos, psStatusRemoteControlPos,
            psStatusPowerCircuitPos, psStatusPolarisation1Pos, psStatusPolarisation2Pos
<1>1. ASSUME NEW k \in 0..11
      PROVE  /\ buf[8 + k] <=> BitOf(reading.current, k)
             /\ buf[24 + k] <=> BitOf(reading.voltage, k)
  <2>1. 8 + k \in 8..19 /\ (8 + k) - 8 = k
    OBVIOUS
  <2>2. 24 + k \in 24..35 /\ (24 + k) - 24 = k
    OBVIOUS
  <2> QED
    BY <2>1, <2>2 DEF BitOf
<1>2. /\ buf[40] <=> reading.colective
      /\ buf[41] <=> reading.external
      /\ buf[42] <=> remote
      /\ buf[43] <=> on
      /\ buf[44] <=> reading.polarisation1
      /\ buf[45] <=> reading.polarisation2
  OBVIOUS
<1>3. \A p \in 0..47 : buf[p] \in BOOLEAN
  OBVIOUS
<1>4. \A n, k : BitOf(n, k) \in BOOLEAN
  BY Zenon DEF BitOf
<1> HIDE DEF StatusFrame
<1>5. ASSUME NEW k \in 0..11
      PROVE  /\ buf[8 + k] = BitOf(reading.current, k)
             /\ buf[24 + k] = BitOf(reading.voltage, k)
  <2>1. 8 + k \in 0..47 /\ 24 + k \in 0..47
    OBVIOUS
  <2> QED
    BY <1>1, <1>3, <1>4, <2>1, Zenon
<1>6. /\ buf[40] = reading.colective /\ buf[41] = reading.external
      /\ buf[42] = remote /\ buf[43] = on
      /\ buf[44] = reading.polarisation1 /\ buf[45] = reading.polarisation2
  <2>1. {40, 41, 42, 43, 44, 45} \subseteq 0..47
    OBVIOUS
  <2> QED
    BY <1>2, <1>3, <2>1, Zenon
<1> QED
  BY <1>5, <1>6 DEF getBit

\* The readings and flags the driver decodes from a status frame.
LEMMA StatusFrameRead ==
  ASSUME NEW reading, NEW remote \in BOOLEAN, NEW on \in BOOLEAN,
         reading.colective \in BOOLEAN, reading.external \in BOOLEAN,
         reading.polarisation1 \in BOOLEAN, reading.polarisation2 \in BOOLEAN,
         NEW buf, buf = StatusFrame(reading, remote, on),
         reading.current \in Nat, reading.current < 4096,
         reading.voltage \in Nat, reading.voltage < 4096
  PROVE  /\ readUint(buf, psCurrentPos, psCurrentLen) = reading.current
         /\ readUint(buf, psVoltagePos, psVoltageLen) = reading.voltage
<1>1. /\ psCurrentLen \in Nat \ {0} /\ psVoltageLen \in Nat \ {0}
      /\ psCurrentPos \in Int /\ psVoltagePos \in Int
  BY DEF psCurrentLen, psVoltageLen, psCurrentPos, psVoltagePos
<1>2. 2^psCurrentLen = 4096 /\ 2^psVoltageLen = 4096
  BY DEF psCurrentLen, psVoltageLen
<1>3. \A n \in Nat : n < 4096 => n \div 4096 = 0
  OBVIOUS
<1>4. reading.current \div 2^psCurrentLen = 0 /\ reading.voltage \div 2^psVoltageLen = 0
  BY <1>2, <1>3
<1> QED
  BY <1>1, <1>4, FieldWeights, StatusFrameBits, ReadOfBits
=============================================================================

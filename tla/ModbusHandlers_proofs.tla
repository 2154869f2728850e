------------------------- MODULE ModbusHandlers_proofs -------------------------
(***************************************************************************)
(* Proofs about what the callbacks pack and decode, for every value: a     *)
(* number sent as coils is the number the supply is asked for, and what    *)
(* the supply reports is found again in the registers.  Steps with large   *)
(* numbers name SMT, because Zenon counts in successors.                   *)
(***************************************************************************)
EXTENDS ModbusHandlers, TLAPS

\* Weights of bits and bounded induction.
Bits == INSTANCE PsBits_proofs
-----------------------------------------------------------------------------
(***************************************************************************)
(* Coils.                                                                  *)
(***************************************************************************)

\* The coils of msg from the third on are the bits of n, highest first, as the
\* master sends a value of w bits.
Sent(msg, n, w) ==
  /\ Quantity(msg) = WRITTEN_DATA_TYPE_COILS + w
  /\ \A k \in 0..w - 1 :
       Coil(msg, Quantity(msg) - k - 1) = (n \div 2^k) % 2

\* Sixteen coils have the weights of the bits of a word.
LEMMA CoilWeights ==
  ASSUME NEW k \in 0..15
  PROVE  2^k \in Nat \ {0} /\ 2^(k + 1) = 2 * 2^k
<1>1. k \in 0..Bits!psOUTCurrentLen - 1
  BY SMT DEF Bits!psOUTCurrentLen
<1>2. Bits!Weights(Bits!psOUTCurrentLen)
  BY Bits!FieldWeights, Zenon
<1> QED
  BY <1>1, <1>2, SMT DEF Bits!Weights

\* A value of up to 16 bits is below the weight of the first coil that is not sent.
LEMMA ValueWidth ==
  ASSUME NEW w \in 1..16, NEW n \in Nat, n < 2^w
  PROVE  n % 2^w = n /\ n % 2^16 = n
<1>1. \/ w = 1 \/ w = 2 \/ w = 3 \/ w = 4 \/ w = 5 \/ w = 6 \/ w = 7 \/ w = 8
      \/ w = 9 \/ w = 10 \/ w = 11 \/ w = 12 \/ w = 13 \/ w = 14 \/ w = 15 \/ w = 16
  BY SMT
<1>2. 2^w \in Nat \ {0} /\ 2^w <= 65536
  <2>1. CASE w = 1 BY <2>1, SMT
  <2>2. CASE w = 2 BY <2>2, SMT
  <2>3. CASE w = 3 BY <2>3, SMT
  <2>4. CASE w = 4 BY <2>4, SMT
  <2>5. CASE w = 5 BY <2>5, SMT
  <2>6. CASE w = 6 BY <2>6, SMT
  <2>7. CASE w = 7 BY <2>7, SMT
  <2>8. CASE w = 8 BY <2>8, SMT
  <2>9. CASE w = 9 BY <2>9, SMT
  <2>10. CASE w = 10 BY <2>10, SMT
  <2>11. CASE w = 11 BY <2>11, SMT
  <2>12. CASE w = 12 BY <2>12, SMT
  <2>13. CASE w = 13 BY <2>13, SMT
  <2>14. CASE w = 14 BY <2>14, SMT
  <2>15. CASE w = 15 BY <2>15, SMT
  <2>16. CASE w = 16 BY <2>16, SMT
  <2> QED
    BY <1>1, <2>1, <2>2, <2>3, <2>4, <2>5, <2>6, <2>7, <2>8,
       <2>9, <2>10, <2>11, <2>12, <2>13, <2>14, <2>15, <2>16
<1> DEFINE top == 2^w
<1>3. top \in Nat \ {0} /\ n < top /\ top <= 65536
  BY <1>2, SMT
<1> HIDE DEF top
<1>4. n % top = n
  <2>1. n = 0 * top + n
    BY <1>3
  <2> QED
    BY <1>3, <2>1, Bits!DivisionUnique
<1>5. n % 2^16 = n
  BY <1>3, SMT
<1> QED
  BY <1>4, <1>5 DEF top

(***************************************************************************)
(* handleWriteData decodes the number that was sent, whatever its width up *)
(* to the 16 bits of psValue: neither the order of the coils, nor the      *)
(* offset of the two type coils, nor the shifts are off.                   *)
(***************************************************************************)
THEOREM ValueIsWhatWasSent ==
  ASSUME NEW msg, NEW w \in 1..16, NEW n \in Nat, n < 2^w, Sent(msg, n, w)
  PROVE  Value(msg) = n
<1> DEFINE Q         == Quantity(msg)
           Add(g, i) == IF i < WRITTEN_DATA_TYPE_COILS THEN 0
                        ELSE g[i - 1] + Coil(msg, i) * 2^(Q - i - 1)
           high      == [i \in 1..Q - 1 |-> n - (n % 2^(Q - i - 1))]
<1>1. Q = w + 2 /\ \A k \in 0..w - 1 : Coil(msg, Q - k - 1) = (n \div 2^k) % 2
  BY DEF Sent, WRITTEN_DATA_TYPE_COILS
<1>2. Value(msg) = (CHOOSE g : g = [i \in 1..Q - 1 |-> Add(g, i)])[Q - 1] % 2^16
  BY DEF Value
<1> HIDE DEF Q
<1>3. \A i \in 2..Q - 1 : high[i] = high[i - 1] + Coil(msg, i) * 2^(Q - i - 1)
  <2> SUFFICES ASSUME NEW i \in 2..Q - 1
               PROVE  high[i] = high[i - 1] + Coil(msg, i) * 2^(Q - i - 1)
    OBVIOUS
  <2> DEFINE k == Q - i - 1
             v == 2^k
  <2>1. k \in 0..w - 1 /\ k \in 0..15 /\ i = Q - k - 1 /\ Q - (i - 1) - 1 = k + 1
        /\ i \in 1..Q - 1 /\ i - 1 \in 1..Q - 1
    BY <1>1
  <2>2. high[i] = n - (n % v) /\ high[i - 1] = n - (n % 2^(k + 1))
    BY <2>1
  <2>3. Coil(msg, i) = (n \div v) % 2
    BY <1>1, <2>1
  <2> HIDE DEF k, high
  <2>4. v \in Nat \ {0} /\ 2^(k + 1) = 2 * v
    BY <2>1, CoilWeights
  <2> HIDE DEF v
  <2>5. n % (2 * v) = (n % v) + ((n \div v) % 2) * v
    BY <2>4, Bits!NextBit
  <2>6. n % v \in Int /\ ((n \div v) % 2) * v \in Int
    BY <2>4
  <2> QED
    BY <2>2, <2>3, <2>4, <2>5, <2>6 DEF v, k
<1>4. high[1] = 0 /\ high[Q - 1] = n
  <2>1. 1 \in 1..Q - 1 /\ Q - 1 \in 1..Q - 1 /\ Q - 1 - 1 = w /\ Q - (Q - 1) - 1 = 0
    BY <1>1
  <2>2. 2^0 = 1 /\ n % 1 = 0
    OBVIOUS
  <2>3. n % 2^w = n
    BY ValueWidth
  <2>4. Q - 1 - 1 = w
    BY <1>1
  <2>5. high[1] = n - (n % 2^(Q - 1 - 1)) /\ high[Q - 1] = n - (n % 2^(Q - (Q - 1) - 1))
    BY <2>1
  <2>6. high[1] = n - (n % 2^w) /\ high[Q - 1] = n - (n % 2^0)
    BY <2>1, <2>4, <2>5, Zenon
  <2> HIDE DEF high
  <2> QED
    BY <2>2, <2>3, <2>6
<1>5. high = [i \in 1..Q - 1 |-> high[i]]
  OBVIOUS
<1> HIDE DEF high
<1>6. high = [i \in 1..Q - 1 |-> Add(high, i)]
  <2>1. \A i \in 1..Q - 1 : high[i] = Add(high, i)
    BY <1>1, <1>3, <1>4 DEF WRITTEN_DATA_TYPE_COILS
  <2> HIDE DEF Add
  <2> QED
    BY <1>5, <2>1, Zenon
<1>7. ASSUME NEW g, g = [i \in 1..Q - 1 |-> Add(g, i)]
      PROVE  g[Q - 1] = n
  <2> DEFINE S == {j \in 0..Q - 2 : g[j + 1] = high[j + 1]}
  <2>1. \A i \in 1..Q - 1 : g[i] = Add(g, i)
    <3> HIDE DEF Add
    <3> QED
      BY <1>7
  <2>2. 0 \in S
    BY <1>1, <1>4, <2>1 DEF WRITTEN_DATA_TYPE_COILS
  <2>3. ASSUME NEW j \in 0..(Q - 2) - 1, j \in S
        PROVE  j + 1 \in S
    <3>1. j + 1 \in 0..Q - 2 /\ (j + 1) + 1 \in 2..Q - 1 /\ (j + 1) + 1 \in 1..Q - 1
          /\ ((j + 1) + 1) - 1 = j + 1
      BY <1>1
    <3>2. g[(j + 1) + 1] = g[j + 1] + Coil(msg, (j + 1) + 1) * 2^(Q - ((j + 1) + 1) - 1)
      BY <2>1, <3>1 DEF WRITTEN_DATA_TYPE_COILS
    <3>3. high[(j + 1) + 1]
            = high[j + 1] + Coil(msg, (j + 1) + 1) * 2^(Q - ((j + 1) + 1) - 1)
      BY <1>3, <3>1
    <3> QED
      BY <2>3, <3>1, <3>2, <3>3
  <2> HIDE DEF S
  <2>4. Q - 2 \in Nat
    BY <1>1
  <2>5. 0..Q - 2 \subseteq S
    BY <2>2, <2>3, <2>4, Bits!BoundedInduction
  <2> QED
    BY <1>1, <1>4, <2>4, <2>5 DEF S
<1> HIDE DEF Add
<1>8. n % 2^16 = n
  BY ValueWidth
<1> QED
  BY <1>2, <1>6, <1>7, <1>8
-----------------------------------------------------------------------------
(***************************************************************************)
(* Registers.                                                              *)
(***************************************************************************)

\* What the getters return, each within the width PowerSupplyInterface gives it.
IsReport(ps) ==
  /\ ps.current \in Nat /\ ps.current < 2^currentReadBits
  /\ ps.voltage \in Nat /\ ps.voltage < 2^voltageReadBits
  /\ ps.errors \in Nat /\ ps.errors < 2^errorReadBits
  /\ ps.currentSet \in Nat /\ ps.currentSet < 2^16

\* The field of a register from bit pos on that is len bits wide.
Field(register, pos, len) == (register \div 2^pos) % 2^len

\* The two registers as sums of their fields.
StatusSum(c, a, b, d, f) == c + a * 4096 + b * 8192 + d * 16384 + f * 32768
VoltageSum(v, e, g, h)   == v + e * 4096 + g * 16384 + h * 32768

\* Their fields as a master cuts them out.
StatusFields(word, c, a, b, d, f) ==
  /\ word \in Nat /\ word < 65536 /\ word % 65536 = word
  /\ word % 4096 = c
  /\ (word \div 4096) % 2 = a /\ (word \div 8192) % 2 = b
  /\ (word \div 16384) % 2 = d /\ (word \div 32768) % 2 = f

VoltageFields(word, v, e, g, h) ==
  /\ word \in Nat /\ word < 65536 /\ word % 65536 = word
  /\ word % 4096 = v /\ (word \div 4096) % 4 = e
  /\ (word \div 16384) % 2 = g /\ (word \div 32768) % 2 = h

\* The status register: a number of 12 bits and four flags above it.
LEMMA StatusWord ==
  ASSUME NEW c \in Nat, c < 4096, NEW a \in 0..1, NEW b \in 0..1, NEW d \in 0..1, NEW f \in 0..1,
         NEW word, word = StatusSum(c, a, b, d, f)
  PROVE  StatusFields(word, c, a, b, d, f)
<1>0. word = c + a * 4096 + b * 8192 + d * 16384 + f * 32768 /\ word \in Int
  BY SMT DEF StatusSum
<1>1. word \in Nat /\ word < 65536
  BY <1>0, SMT
<1>2. word % 65536 = word /\ word % 4096 = c
  BY <1>0, SMT
<1>3. word \div 4096 = a + 2 * b + 4 * d + 8 * f
  BY <1>0, SMT
<1>4. word \div 8192 = b + 2 * d + 4 * f
  BY <1>0, SMT
<1>5. word \div 16384 = d + 2 * f
  BY <1>0, SMT
<1>6. word \div 32768 = f
  BY <1>0, SMT
<1>7. /\ (a + 2 * b + 4 * d + 8 * f) % 2 = a /\ (b + 2 * d + 4 * f) % 2 = b
      /\ (d + 2 * f) % 2 = d /\ f % 2 = f
  BY <1>0, SMT
<1> QED
  BY <1>1, <1>2, <1>3, <1>4, <1>5, <1>6, <1>7, SMT DEF StatusFields

\* The other register: a number of 12 bits, one of two, and two flags.
LEMMA VoltageWord ==
  ASSUME NEW v \in Nat, v < 4096, NEW e \in 0..3, NEW g \in 0..1, NEW h \in 0..1,
         NEW word, word = VoltageSum(v, e, g, h)
  PROVE  VoltageFields(word, v, e, g, h)
<1>0. word = v + e * 4096 + g * 16384 + h * 32768 /\ word \in Int
  BY SMT DEF VoltageSum
<1>1. word \in Nat /\ word < 65536
  BY <1>0, SMT
<1>2. word % 65536 = word /\ word % 4096 = v
  BY <1>0, SMT
<1>3. word \div 4096 = e + 4 * g + 8 * h
  BY <1>0, SMT
<1>4. word \div 16384 = g + 2 * h
  BY <1>0, SMT
<1>5. word \div 32768 = h
  BY <1>0, SMT
<1>6. (e + 4 * g + 8 * h) % 4 = e /\ (g + 2 * h) % 2 = g /\ h % 2 = h
  BY <1>0, SMT
<1> QED
  BY <1>1, <1>2, <1>3, <1>4, <1>5, <1>6, SMT DEF VoltageFields

(***************************************************************************)
(* handleReadData packs what the supply reports so that each value is      *)
(* found whole at its place, and none reaches into another's or beyond the *)
(* 16 bits of a register: the places follow the widths of the interface.   *)
(***************************************************************************)
THEOREM RegistersCarryReport ==
  ASSUME NEW ps, IsReport(ps)
  PROVE  /\ Len(RegistersOf(ps)) = REGISTERS_READ_SIZE
         /\ \A i \in 1..3 : RegistersOf(ps)[i] \in Nat /\ RegistersOf(ps)[i] < 2^16
         /\ Field(RegistersOf(ps)[1], 0, 12) = ps.current
         /\ Field(RegistersOf(ps)[1], 12, 1) = Bit(ps.isOn)
         /\ Field(RegistersOf(ps)[1], 13, 1) = Bit(ps.polarity)
         /\ Field(RegistersOf(ps)[1], 14, 1) = Bit(ps.reset)
         /\ Field(RegistersOf(ps)[1], 15, 1) = Bit(ps.remote)
         /\ Field(RegistersOf(ps)[2], 0, 12) = ps.voltage
         /\ Field(RegistersOf(ps)[2], 12, 2) = ps.errors
         /\ Field(RegistersOf(ps)[2], 14, 1) = Bit(ps.polaritySet)
         /\ Field(RegistersOf(ps)[2], 15, 1) = Bit(ps.isOnSet)
         /\ RegistersOf(ps)[3] = ps.currentSet
<1> DEFINE c == ps.current
           v == ps.voltage
           e == ps.errors
           a == Bit(ps.isOn)
           b == Bit(ps.polarity)
           d == Bit(ps.reset)
           f == Bit(ps.remote)
           g == Bit(ps.polaritySet)
           h == Bit(ps.isOnSet)
           first  == StatusSum(c, a, b, d, f)
           second == VoltageSum(v, e, g, h)
<1>1. /\ c \in Nat /\ c < 4096 /\ v \in Nat /\ v < 4096 /\ e \in 0..3
      /\ ps.currentSet \in Nat /\ ps.currentSet < 65536
  BY SMT DEF IsReport, currentReadBits, voltageReadBits, errorReadBits
<1>2. a \in 0..1 /\ b \in 0..1 /\ d \in 0..1 /\ f \in 0..1 /\ g \in 0..1 /\ h \in 0..1
  BY SMT DEF Bit
<1>3. RegistersOf(ps) = <<first % 65536, second % 65536, ps.currentSet>>
  BY SMT DEF RegistersOf, StatusSum, VoltageSum, currentReadBits, voltageReadBits, errorReadBits
<1>4. first = StatusSum(c, a, b, d, f) /\ second = VoltageSum(v, e, g, h)
  OBVIOUS
<1> HIDE DEF c, v, e, a, b, d, f, g, h, first, second
<1>5. StatusFields(first, c, a, b, d, f)
  BY <1>1, <1>2, <1>4, StatusWord, SMT
<1>6. VoltageFields(second, v, e, g, h)
  BY <1>1, <1>2, <1>4, VoltageWord, SMT
<1>7. first \div 1 = first /\ second \div 1 = second
  BY <1>5, <1>6, SMT DEF StatusFields, VoltageFields
<1>8. /\ 2^0 = 1 /\ 2^1 = 2 /\ 2^2 = 4 /\ 2^12 = 4096 /\ 2^13 = 8192
      /\ 2^14 = 16384 /\ 2^15 = 32768 /\ 2^16 = 65536
  BY SMT
<1> DEFINE r == RegistersOf(ps)
<1>9. r[1] = first /\ r[2] = second /\ r[3] = ps.currentSet /\ Len(r) = REGISTERS_READ_SIZE
  BY <1>3, <1>5, <1>6, SMT DEF REGISTERS_READ_SIZE, StatusFields, VoltageFields
<1> HIDE DEF r
<1>10. \A i \in 1..3 : r[i] \in Nat /\ r[i] < 2^16
  BY <1>1, <1>5, <1>6, <1>8, <1>9, SMT DEF StatusFields, VoltageFields
<1>11. /\ Field(r[1], 0, 12) = c /\ Field(r[1], 12, 1) = a /\ Field(r[1], 13, 1) = b
       /\ Field(r[1], 14, 1) = d /\ Field(r[1], 15, 1) = f
  BY <1>5, <1>7, <1>8, <1>9, SMT DEF Field, StatusFields
<1>12. /\ Field(r[2], 0, 12) = v /\ Field(r[2], 12, 2) = e
       /\ Field(r[2], 14, 1) = g /\ Field(r[2], 15, 1) = h
  BY <1>6, <1>7, <1>8, <1>9, SMT DEF Field, VoltageFields
<1> QED
  BY <1>9, <1>10, <1>11, <1>12, SMT DEF r, c, v, e, a, b, d, f, g, h
=============================================================================

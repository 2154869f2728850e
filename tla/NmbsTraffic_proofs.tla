-------------------------- MODULE NmbsTraffic_proofs --------------------------
(***************************************************************************)
(* Proofs about what the Modbus server takes for a request: the bytes it   *)
(* looks at are a stretch of the traffic, in their order and with nothing  *)
(* of an earlier message between them, so that only the checksum stands    *)
(* between a disturbance and a callback.                                   *)
(***************************************************************************)
EXTENDS NmbsServer_proofs
-----------------------------------------------------------------------------
LEMMA HoldsNothing == MayHold(<<>>, 0, <<>>)
BY Zenon DEF MayHold, FollowsBus

LEMMA HoldsMore ==
  ASSUME NEW hs \in Seq(Frames), NEW n \in Nat, NEW s \in Seq(Byte), MayHold(hs, n, s),
         NEW f \in Frames
  PROVE  MayHold(Append(hs, f), n, s \o f)
BY Zenon DEF MayHold, FollowsBus

LEMMA HoldsRest ==
  ASSUME NEW hs \in Seq(Frames), NEW n \in Nat, NEW s \in Seq(Byte), MayHold(hs, n, s),
         NEW k \in 1..Len(s) + 1
  PROVE  MayHold(hs, n, SubSeq(s, k, Len(s)))
BY Zenon DEF MayHold, FollowsBus

LEMMA HoldsLess ==
  ASSUME NEW hs \in Seq(Frames), NEW n \in Nat, NEW s \in Seq(Byte), MayHold(hs, n, s),
         NEW i \in 1..Len(s)
  PROVE  MayHold(hs, n + 1, RemoveAt(s, i))
BY Zenon DEF MayHold, FollowsBus

LEMMA HoldsGarbled ==
  ASSUME NEW hs \in Seq(Frames), NEW n \in Nat, NEW s \in Seq(Byte), MayHold(hs, n, s),
         NEW i \in 1..Len(s), NEW b \in Noise
  PROVE  MayHold(hs, n + 1, ReplaceAt(s, i, b))
BY Zenon DEF MayHold, FollowsBus

LEMMA HoldsCut ==
  ASSUME NEW hs \in Seq(Frames), NEW n \in Nat, NEW s \in Seq(Byte), MayHold(hs, n, s),
         NEW next \in FifoLen + 2..Len(s) + 1
  PROVE  MayHold(hs, n + 1, SubSeq(s, 1, FifoLen) \o SubSeq(s, next, Len(s)))
BY Zenon DEF MayHold, FollowsBus
-----------------------------------------------------------------------------
\* The two halves of a sequence.
LEMMA Halves ==
  ASSUME NEW u \in Seq(Byte), NEW v \in Seq(Byte)
  PROVE  /\ SubSeq(u \o v, 1, Len(u)) = u
         /\ SubSeq(u \o v, Len(u) + 1, Len(u \o v)) = v
<1> DEFINE s == u \o v
<1>1. /\ s \in Seq(Byte) /\ Len(s) = Len(u) + Len(v) /\ Len(u) \in Nat /\ Len(v) \in Nat
      /\ \A i \in 1..Len(u) : s[i] = u[i]
      /\ \A i \in 1..Len(v) : s[Len(u) + i] = v[i]
  OBVIOUS
<1> HIDE DEF s
<1>2. SubSeq(s, 1, Len(u)) = u
  <2>1. /\ SubSeq(s, 1, Len(u)) \in Seq(Byte) /\ Len(SubSeq(s, 1, Len(u))) = Len(u)
        /\ \A i \in 1..Len(u) : SubSeq(s, 1, Len(u))[i] = u[i]
    BY <1>1
  <2> QED
    BY <2>1, SeqEqual
<1>3. SubSeq(s, Len(u) + 1, Len(s)) = v
  <2> DEFINE rest == SubSeq(s, Len(u) + 1, Len(s))
  <2>1. /\ rest \in Seq(Byte) /\ Len(rest) = Len(v)
        /\ \A i \in 1..Len(v) : rest[i] = s[Len(u) + i]
    BY <1>1
  <2> HIDE DEF rest
  <2>2. \A i \in 1..Len(rest) : rest[i] = v[i]
    BY <1>1, <2>1
  <2>3. rest = v
    BY <2>1, <2>2, SeqEqual
  <2> QED
    BY <2>3 DEF rest
<1> QED
  BY <1>2, <1>3 DEF s

\* What stands where in the two together.
LEMMA BothStand ==
  ASSUME NEW u \in Seq(Byte), NEW v \in Seq(Byte)
  PROVE  /\ u \o v \in Seq(Byte) /\ Len(u \o v) = Len(u) + Len(v)
         /\ Len(u) \in Nat /\ Len(v) \in Nat
         /\ \A i \in 1..Len(u) : (u \o v)[i] = u[i]
         /\ \A i \in 1..Len(v) : (u \o v)[Len(u) + i] = v[i]
OBVIOUS

LEMMA BytesAssociate ==
  ASSUME NEW s \in Seq(Byte), NEW t \in Seq(Byte), NEW u \in Seq(Byte)
  PROVE  s \o (t \o u) = (s \o t) \o u
BY ConcatAssociative

LEMMA BeginsWith ==
  ASSUME NEW u \in Seq(Byte), NEW v \in Seq(Byte)
  PROVE  IsPrefix(u, u \o v)
<1>1. SubSeq(u \o v, 1, Len(u)) = u
  BY Halves
<1>2. SubSeq(u, 1, Len(u)) = u
  BY SubSeqFull
<1>3. Len(u) <= Len(u \o v)
  OBVIOUS
<1> QED
  BY <1>1, <1>2, <1>3, Zenon DEF IsPrefix

\* A byte in the middle of a sequence is lost.
LEMMA LostBetween ==
  ASSUME NEW x \in Seq(Byte), NEW y \in Seq(Byte), NEW z \in Seq(Byte), Len(y) = 1
  PROVE  RemoveAt(x \o (y \o z), Len(x) + 1) = x \o z
<1>1. y \o z \in Seq(Byte) /\ x \o y \in Seq(Byte)
  OBVIOUS
<1>2. Len(x \o y) = Len(x) + 1 /\ Len(x) \in Nat
  <2>1. Len(x \o y) = Len(x) + Len(y)
    BY ConcatProperties, Zenon
  <2> QED
    BY <2>1, Zenon, LenProperties
<1>3. (x \o y) \o z = x \o (y \o z)
  BY ConcatAssociative
<1>4. SubSeq(x \o (y \o z), 1, Len(x)) = x
  BY <1>1, Halves
<1>5. SubSeq((x \o y) \o z, Len(x \o y) + 1, Len((x \o y) \o z)) = z
  BY <1>1, Halves
<1>6. SubSeq(x \o (y \o z), (Len(x) + 1) + 1, Len(x \o (y \o z))) = z
  BY <1>2, <1>3, <1>5, Zenon
<1>7. (Len(x) + 1) - 1 = Len(x)
  BY <1>2
<1> QED
  BY <1>4, <1>6, <1>7, Zenon DEF RemoveAt

LEMMA LostFurther ==
  ASSUME NEW s \in Seq(Byte), NEW x \in Seq(Byte), NEW y \in Seq(Byte), NEW z \in Seq(Byte),
         Len(y) = 1
  PROVE  s \o (x \o z) = RemoveAt(s \o (x \o (y \o z)), (Len(s) + Len(x)) + 1)
<1>1. s \o x \in Seq(Byte) /\ y \o z \in Seq(Byte)
  OBVIOUS
<1>2. Len(s \o x) = Len(s) + Len(x)
  BY ConcatProperties, Zenon
<1>3. s \o (x \o (y \o z)) = (s \o x) \o (y \o z)
  BY <1>1, BytesAssociate, Zenon
<1>4. s \o (x \o z) = (s \o x) \o z
  BY BytesAssociate, Zenon
<1>5. RemoveAt((s \o x) \o (y \o z), Len(s \o x) + 1) = (s \o x) \o z
  BY <1>1, LostBetween
<1> QED
  BY <1>2, <1>3, <1>4, <1>5, Zenon

\* A byte behind the buffer is lost, or garbled, where the two are one.
LEMMA LostBehind ==
  ASSUME NEW s \in Seq(Byte), NEW t \in Seq(Byte), NEW i \in 1..Len(t)
  PROVE  s \o RemoveAt(t, i) = RemoveAt(s \o t, Len(s) + i)
<1> DEFINE x == SubSeq(t, 1, i - 1)
           y == SubSeq(t, i, i)
           z == SubSeq(t, i + 1, Len(t))
<1>1. /\ x \in Seq(Byte) /\ Len(x) = i - 1 /\ y \in Seq(Byte) /\ Len(y) = 1
      /\ z \in Seq(Byte) /\ Len(s) \in Nat /\ i \in Nat
  OBVIOUS
<1>2. t = x \o (y \o z)
  <2>1. y \o z = SubSeq(t, i, Len(t))
    BY ConcatAdjacentSubSeq
  <2>2. x \o SubSeq(t, (i - 1) + 1, Len(t)) = SubSeq(t, 1, Len(t))
    <3>1. 1 \in 1..Len(t) + 1 /\ i - 1 \in 1 - 1..Len(t) /\ Len(t) \in i - 1..Len(t)
      OBVIOUS
    <3> QED
      BY <3>1, ConcatAdjacentSubSeq
  <2>3. (i - 1) + 1 = i
    OBVIOUS
  <2> QED
    BY <2>1, <2>2, <2>3, SubSeqFull
<1>3. RemoveAt(t, i) = x \o z
  BY DEF RemoveAt
<1> HIDE DEF x, y, z
<1>4. RemoveAt(s \o t, (Len(s) + Len(x)) + 1) = s \o (x \o z)
  <2>1. s \o (x \o z) = RemoveAt(s \o (x \o (y \o z)), (Len(s) + Len(x)) + 1)
    BY <1>1, LostFurther, Zenon
  <2> QED
    BY <1>2, <2>1, Zenon
<1>5. (Len(s) + Len(x)) + 1 = Len(s) + i
  <2>1. \A p \in Nat, q \in Nat : (p + (q - 1)) + 1 = p + q
    OBVIOUS
  <2> QED
    BY <1>1, <2>1, Zenon
<1> QED
  BY <1>3, <1>4, <1>5, Zenon

LEMMA GarbledBehind ==
  ASSUME NEW s \in Seq(Byte), NEW t \in Seq(Byte), NEW i \in 1..Len(t), NEW b \in Byte
  PROVE  s \o ReplaceAt(t, i, b) = ReplaceAt(s \o t, Len(s) + i, b)
<1> DEFINE r == ReplaceAt(t, i, b)
           u == s \o t
           w == ReplaceAt(u, Len(s) + i, b)
<1>1. /\ r \in Seq(Byte) /\ Len(r) = Len(t)
      /\ \A j \in 1..Len(t) : r[j] = IF j = i THEN b ELSE t[j]
  BY DEF ReplaceAt
<1>2. /\ u \in Seq(Byte) /\ Len(u) = Len(s) + Len(t) /\ Len(s) \in Nat /\ Len(t) \in Nat
      /\ \A j \in 1..Len(s) + Len(t) : u[j] = IF j <= Len(s) THEN s[j] ELSE t[j - Len(s)]
  OBVIOUS
<1>3. Len(s) + i \in 1..Len(u)
  BY <1>2
<1> HIDE DEF r, u
<1>4. w = [u EXCEPT ![Len(s) + i] = b]
  BY DEF ReplaceAt
<1> DEFINE k == Len(s) + i
<1>5. k \in Nat /\ k > Len(s) /\ k \in 1..Len(u) /\ k - Len(s) = i
  BY <1>2
<1>6. w = [u EXCEPT ![k] = b]
  BY <1>4
<1> HIDE DEF k, w
<1>7. /\ w \in Seq(Byte) /\ Len(w) = Len(u)
      /\ \A j \in 1..Len(u) : w[j] = IF j = k THEN b ELSE u[j]
  BY <1>2, <1>5, <1>6, ExceptSeq
<1> DEFINE v == s \o r
<1>8. /\ v \in Seq(Byte) /\ Len(v) = Len(s) + Len(t)
      /\ \A j \in 1..Len(s) + Len(t) : v[j] = IF j <= Len(s) THEN s[j] ELSE r[j - Len(s)]
  <2>1. ASSUME NEW a \in Seq(Byte), Len(a) = Len(t)
        PROVE  /\ s \o a \in Seq(Byte) /\ Len(s \o a) = Len(s) + Len(t)
               /\ \A j \in 1..Len(s) + Len(t) :
                    (s \o a)[j] = IF j <= Len(s) THEN s[j] ELSE a[j - Len(s)]
    BY <2>1
  <2> QED
    BY <1>1, <2>1, Zenon
<1> HIDE DEF v
<1>9. ASSUME NEW j \in 1..Len(v)
      PROVE  v[j] = w[j]
  <2>1. CASE j <= Len(s)
    <3>1. j \in 1..Len(s) + Len(t) /\ j \in 1..Len(u) /\ j # k
      BY <1>2, <1>5, <1>8, <2>1
    <3> QED
      BY <1>2, <1>7, <1>8, <2>1, <3>1, Zenon
  <2>2. CASE ~(j <= Len(s))
    <3>1. j - Len(s) \in 1..Len(t) /\ (j - Len(s) = i <=> j = k)
      BY <1>2, <1>5, <1>8, <2>2
    <3>2. v[j] = r[j - Len(s)] /\ u[j] = t[j - Len(s)] /\ w[j] = IF j = k THEN b ELSE u[j]
      BY <1>2, <1>7, <1>8, <2>2
    <3>3. r[j - Len(s)] = IF j - Len(s) = i THEN b ELSE t[j - Len(s)]
      BY <1>1, <3>1
    <3> QED
      BY <3>1, <3>2, <3>3
  <2> QED
    BY <2>1, <2>2
<1>10. v = w
  BY <1>2, <1>7, <1>8, <1>9, SeqEqual
<1> QED
  BY <1>10 DEF v, w, r, u, k
-----------------------------------------------------------------------------
(***************************************************************************)
(* The invariant.                                                          *)
(***************************************************************************)

\* Where the buffer and the line are still one stretch of the traffic: an odd last
\* byte of the registers to write is left out of the buffer (get_2).
InOnePiece == phase \in InRequest /\ ~(phase = "footer" /\ Fc(buf) \in {16, 23})

TrafficInv ==
  /\ heard \in Seq(Frames) /\ Len(heard) <= MaxFrames
  /\ faults \in Nat /\ faults <= MaxFaults
  /\ MayHold(heard, faults, line)
  /\ InOnePiece => MayHold(heard, faults, buf \o line)
  /\ phase = "callback" => buf \in Range(heard)
  /\ IsSequence(ran) /\ \A i \in DOMAIN ran : ran[i] \in Range(heard)

\* A frame more on the bus takes none away.
LEMMA HeardMore ==
  ASSUME NEW hs \in Seq(Frames), NEW f \in Frames
  PROVE  Append(hs, f) \in Seq(Frames) /\ Range(hs) \subseteq Range(Append(hs, f))
<1>1. /\ Append(hs, f) \in Seq(Frames) /\ Len(Append(hs, f)) = Len(hs) + 1
      /\ \A i \in 1..Len(hs) : Append(hs, f)[i] = hs[i]
      /\ DOMAIN hs = 1..Len(hs) /\ DOMAIN Append(hs, f) = 1..Len(hs) + 1
  OBVIOUS
<1>2. Len(hs) \in Nat /\ 1..Len(hs) \subseteq 1..Len(hs) + 1
  OBVIOUS
<1> QED
  BY <1>1, <1>2, Zenon DEF Range

\* What is left of the line after a read is the rest of it.
LEMMA RestHeld ==
  ASSUME Addressed, Reading, Receive,
         NEW hs \in Seq(Frames), NEW n \in Nat, MayHold(hs, n, line)
  PROVE  MayHold(hs, n, line')
<1>1. line \in Seq(Byte) /\ Need \in Nat /\ Need <= Len(line)
  BY NeedIsNat DEF Addressed, Receive
<1>2. Need + 1 \in 1..Len(line) + 1
  BY <1>1
<1>3. line' = SubSeq(line, Need + 1, Len(line))
  BY DEF Receive
<1>4. MayHold(hs, n, SubSeq(line, Need + 1, Len(line)))
  BY <1>1, <1>2, HoldsRest
<1> QED
  BY <1>3, <1>4, Zenon

\* Nothing is left of it after a silence.
LEMMA NothingHeld ==
  ASSUME Addressed, NEW hs \in Seq(Frames), NEW n \in Nat, MayHold(hs, n, line)
  PROVE  MayHold(hs, n, <<>>)
<1>1. line \in Seq(Byte) /\ Len(line) + 1 \in 1..Len(line) + 1
  BY DEF Addressed
<1>2. SubSeq(line, Len(line) + 1, Len(line)) = <<>>
  BY <1>1, SubSeqEmpty
<1>3. MayHold(hs, n, SubSeq(line, Len(line) + 1, Len(line)))
  BY <1>1, HoldsRest
<1> QED
  BY <1>2, <1>3, Zenon

\* The steps that end a request or a response, and those that read a response, leave
\* all of the line, the rest of it or nothing.
LEMMA LeftBehind ==
  ASSUME Addressed, NEW hs \in Seq(Frames), NEW n \in Nat, MayHold(hs, n, line),
         line' = line \/ line' = <<>> \/ (Reading /\ Receive)
  PROVE  MayHold(hs, n, line')
<1>1. CASE line' = line
  BY <1>1, Zenon
<1>2. CASE line' = <<>>
  BY <1>2, NothingHeld, Zenon
<1>3. CASE Reading /\ Receive
  BY <1>3, RestHeld
<1> QED
  BY <1>1, <1>2, <1>3

\* A disturbance of the line is one of what was read before and the line together.
LEMMA DisturbedBehind ==
  ASSUME Disturb, NEW before \in Seq(Byte), line \in Seq(Byte),
         NEW hs \in Seq(Frames), NEW n \in Nat, MayHold(hs, n, before \o line)
  PROVE  MayHold(hs, n + 1, before \o line')
<1>1. before \o line \in Seq(Byte)
  BY BothStand, Zenon
<1>2. PICK i \in 1..Len(line) :
        line' \in {RemoveAt(line, i)} \cup {ReplaceAt(line, i, b) : b \in Noise \ {line[i]}}
  BY DEF Disturb
<1>3. Len(before) + i \in 1..Len(before \o line)
  <2>1. /\ Len(before \o line) = Len(before) + Len(line)
        /\ Len(before) \in Nat /\ Len(line) \in Nat
    BY BothStand, Zenon
  <2> QED
    BY <2>1
<1>4. CASE line' = RemoveAt(line, i)
  <2>1. MayHold(hs, n + 1, RemoveAt(before \o line, Len(before) + i))
    BY <1>1, <1>3, HoldsLess, Zenon
  <2>2. before \o RemoveAt(line, i) = RemoveAt(before \o line, Len(before) + i)
    BY LostBehind, Zenon
  <2> QED
    BY <1>4, <2>1, <2>2, Zenon
<1>5. CASE line' # RemoveAt(line, i)
  <2>1. PICK b \in Noise : line' = ReplaceAt(line, i, b)
    BY <1>2, <1>5
  <2>2. b \in Byte
    BY FramesAssumption
  <2>3. MayHold(hs, n + 1, ReplaceAt(before \o line, Len(before) + i, b))
    BY <1>1, <1>3, HoldsGarbled, Zenon
  <2>4. before \o ReplaceAt(line, i, b) = ReplaceAt(before \o line, Len(before) + i, b)
    BY <2>2, GarbledBehind, Zenon
  <2> QED
    BY <2>1, <2>3, <2>4, Zenon
<1> QED
  BY <1>4, <1>5

\* The line alone is what is behind nothing.
LEMMA BehindNothing ==
  ASSUME NEW s \in Seq(Byte)
  PROVE  <<>> \o s = s /\ <<>> \in Seq(Byte)
OBVIOUS

LEMMA DisturbedLine ==
  ASSUME Disturb, line \in Seq(Byte), NEW hs \in Seq(Frames), NEW n \in Nat, MayHold(hs, n, line)
  PROVE  MayHold(hs, n + 1, line')
<1>1. line' \in Seq(Byte)
  <2>1. PICK i \in 1..Len(line) :
          line' \in {RemoveAt(line, i)} \cup {ReplaceAt(line, i, b) : b \in Noise \ {line[i]}}
    BY DEF Disturb
  <2>2. line[i] \in Byte
    BY ElementOfSeq
  <2>3. RemoveAt(line, i) \in Seq(Byte) /\ \A b \in Byte : ReplaceAt(line, i, b) \in Seq(Byte)
    BY <2>2, DisturbedBytes, Zenon
  <2> QED
    BY <2>1, <2>3, FramesAssumption, Zenon
<1>2. <<>> \in Seq(Byte) /\ MayHold(hs, n, <<>> \o line)
  BY BehindNothing, Zenon
<1>3. MayHold(hs, n + 1, <<>> \o line')
  BY <1>2, DisturbedBehind, Zenon
<1> QED
  BY <1>1, <1>3, BehindNothing, Zenon

LEMMA OverflownLine ==
  ASSUME Overflow, line \in Seq(Byte), NEW hs \in Seq(Frames), NEW n \in Nat,
         MayHold(hs, n, line)
  PROVE  MayHold(hs, n + 1, line')
<1>1. PICK next \in FifoLen + 2..Len(line) + 1 :
        line' = SubSeq(line, 1, FifoLen) \o SubSeq(line, next, Len(line))
  BY DEF Overflow
<1>2. MayHold(hs, n + 1, SubSeq(line, 1, FifoLen) \o SubSeq(line, next, Len(line)))
  BY HoldsCut, Zenon
<1> QED
  BY <1>1, <1>2, Zenon

LEMMA RestartedLine ==
  ASSUME Restart, line \in Seq(Byte), NEW hs \in Seq(Frames), NEW n \in Nat,
         MayHold(hs, n, line)
  PROVE  MayHold(hs, n, line')
<1>1. PICK first \in 1..Len(line) + 1 : line' = SubSeq(line, first, Len(line))
  BY DEF Restart
<1>2. MayHold(hs, n, SubSeq(line, first, Len(line)))
  BY HoldsRest, Zenon
<1> QED
  BY <1>1, <1>2, Zenon

\* What a read moves stays in one piece.
LEMMA PieceRead ==
  ASSUME Addressed, Reading, Receive
  PROVE  /\ (buf \o Received) \o line' = buf \o line
         /\ buf \o Received \in Seq(Byte) /\ line' \in Seq(Byte)
<1>1. buf \in Seq(Byte) /\ line \in Seq(Byte) /\ Need \in Nat /\ Need <= Len(line)
  BY NeedIsNat DEF Addressed, Receive
<1>2. (buf \o Received) \o line' = buf \o line
  BY <1>1, ReadMoves DEF Received, Receive
<1> QED
  BY <1>2, ReceivedBytes
-----------------------------------------------------------------------------
\* What the checksum makes of the bytes before it.
Longer(f, msg, sum) ==
  /\ f \in Seq(Byte) /\ Len(f) = Len(msg) + 2
  /\ f[Len(msg) + 1] = sum[1] /\ f[Len(msg) + 2] = sum[2]
  /\ \A i \in 1..Len(msg) : msg[i] = f[i]

LEMMA TwoMore ==
  ASSUME NEW msg \in Seq(Byte), NEW sum \in Seq(Byte), Len(sum) = 2
  PROVE  Longer(msg \o sum, msg, sum)
<1>1. msg \o sum \in Seq(Byte) /\ Len(msg) \in Nat
  BY BothStand, Zenon
<1>2. Len(msg \o sum) = Len(msg) + 2
  <2>1. Len(msg \o sum) = Len(msg) + Len(sum)
    BY BothStand, Zenon
  <2> QED
    BY <2>1, Zenon
<1>3. (msg \o sum)[Len(msg) + 1] = sum[1] /\ (msg \o sum)[Len(msg) + 2] = sum[2]
  <2>1. \A i \in 1..Len(sum) : (msg \o sum)[Len(msg) + i] = sum[i]
    BY BothStand, Zenon
  <2>2. 1 \in 1..Len(sum) /\ 2 \in 1..Len(sum)
    OBVIOUS
  <2> QED
    BY <2>1, <2>2, Zenon
<1>4. \A i \in 1..Len(msg) : msg[i] = (msg \o sum)[i]
  BY BothStand, Zenon
<1> QED
  BY <1>1, <1>2, <1>3, <1>4, Zenon DEF Longer

\* What reaches a callback is a whole request, and a stretch of the traffic.
LEMMA AcceptedIsWhole ==
  ASSUME KeepInv, RecvFooterAccepted
  PROVE  /\ buf \o Received \in Seq(Byte)
         /\ IsPrefix(buf \o Received, buf \o line)
         /\ Callable(buf \o Received)
<1> DEFINE f == buf \o Received
<1>1. /\ Addressed /\ Reading /\ Receive /\ phase = "footer" /\ ForUs(buf)
      /\ 0 \in Verdict(buf) /\ Word(Received, 1) = Crc(buf)
  BY DEF KeepInv, ServedInv, Addressed, RecvFooterAccepted, Reading, InRequest, CrcMatches
<1>2. buf \in Seq(Byte) /\ Received \in Seq(Byte) /\ Need = 2 /\ Len(Received) = 2
      /\ Len(buf) \in Nat
  BY <1>1, ReceivedBytes DEF Addressed, Need
<1>3. /\ f \in Seq(Byte) /\ Len(f) = Len(buf) + 2
      /\ f[Len(buf) + 1] = Received[1] /\ f[Len(buf) + 2] = Received[2]
      /\ \A i \in 1..Len(buf) : buf[i] = f[i]
  <2>1. Longer(f, buf, Received)
    BY <1>2, TwoMore, Zenon
  <2> QED
    BY <2>1 DEF Longer
<1>4. SubSeq(f, 1, Len(f) - 2) = buf
  <2>1. SubSeq(buf \o Received, 1, Len(buf)) = buf
    BY <1>2, Halves, Zenon
  <2>2. Len(f) - 2 = Len(buf)
    BY <1>2, <1>3
  <2> QED
    BY <2>1, <2>2, Zenon
<1>5. IsPrefix(f, buf \o line)
  <2>1. /\ f \o line' = buf \o line /\ line' \in Seq(Byte)
    BY <1>1, PieceRead
  <2>2. f \in Seq(Byte)
    BY <1>3
  <2> HIDE DEF f
  <2>3. IsPrefix(f, f \o line')
    BY <2>1, <2>2, BeginsWith
  <2> QED
    BY <2>1, <2>3, Zenon
<1>6. Word(f, Len(f) - 1) = Word(Received, 1)
  <2>1. Len(f) - 1 = Len(buf) + 1 /\ (Len(buf) + 1) + 1 = Len(buf) + 2 /\ 1 + 1 = 2
    BY <1>2, <1>3
  <2> QED
    BY <1>3, <2>1, Zenon DEF Word
<1> HIDE DEF f
<1>7. /\ Len(buf) >= 2 /\ Fc(buf) \in {4, 15} /\ Fc(buf) \in Functions
      /\ FixedEnd(buf) <= Len(buf) /\ WholeData(buf)
      /\ Len(buf) = FixedEnd(buf) + DataLen(buf)
  <2>1. Fc(buf) \in {4, 15}
    BY <1>1, OnlyCallbacksPass
  <2>2. WholeData(buf)
    BY <2>1 DEF WholeData
  <2> QED
    BY <1>1, <2>1, <2>2 DEF KeepInv, Places
<1>8. /\ Unit(buf) = Unit(f) /\ Fc(buf) = Fc(f) /\ FixedEnd(buf) = FixedEnd(f)
      /\ DataLen(buf) = DataLen(f)
  BY <1>2, <1>3, <1>7, PartOf
<1>9. /\ FixedEnd(f) \in Nat /\ FixedEnd(f) >= 3 /\ FixedEnd(f) + 2 <= Len(f)
      /\ Len(f) = FixedEnd(f) + DataLen(f) + 2 /\ Len(f) >= 4
  <2>1. FixedEnd(buf) \in Nat /\ FixedEnd(buf) >= 3 /\ DataLen(buf) \in Nat
    BY <1>2, <1>7, LengthsAreNat
  <2> QED
    BY <1>2, <1>3, <1>7, <1>8, <2>1
<1>10. ForUs(f) /\ Fc(f) \in Functions /\ Fc(f) \notin {16, 23}
  BY <1>1, <1>7, <1>8 DEF ForUs
<1>11. WholeRequest(f)
  <2>1. Word(f, Len(f) - 1) = Crc(SubSeq(f, 1, Len(f) - 2))
    BY <1>1, <1>4, <1>6, Zenon
  <2>2. 2 + FixedLen(Fc(f)) = FixedEnd(f)
        /\ (IF HasData(Fc(f)) THEN f[FixedEnd(f)] ELSE 0) = DataLen(f)
    BY Zenon DEF FixedEnd, DataLen
  <2> QED
    BY <1>9, <1>10, <2>1, <2>2, Zenon DEF WholeRequest
<1> QED
  BY <1>1, <1>3, <1>4, <1>5, <1>11, Zenon DEF Callable, f

LEMMA AcceptedWasHeard ==
  ASSUME ChecksumDetects, KeepInv, TrafficInv, RecvFooterAccepted
  PROVE  buf \o Received \in Range(heard)
<1>1. /\ phase = "footer" /\ Fc(buf) \in {4, 15} /\ buf \in Seq(Byte) /\ line \in Seq(Byte)
  BY OnlyCallbacksPass DEF RecvFooterAccepted, KeepInv, ServedInv, Addressed
<1>2. buf \o line \in Seq(Byte)
  BY <1>1
<1>3. MayHold(heard, faults, buf \o line)
  BY <1>1 DEF TrafficInv, InOnePiece, InRequest
<1>4. heard \in Seq(Frames) /\ Len(heard) <= MaxFrames /\ faults \in 0..MaxFaults
  BY BoundsAssumption DEF TrafficInv
<1> QED
  BY <1>2, <1>3, <1>4, AcceptedIsWhole, Zenon DEF ChecksumDetects
-----------------------------------------------------------------------------
(***************************************************************************)
(* The invariant is kept.                                                  *)
(***************************************************************************)
LEMMA InitTraffic == Init => TrafficInv
<1> SUFFICES ASSUME Init PROVE TrafficInv
  OBVIOUS
<1>1. heard = <<>> /\ faults = 0 /\ line = <<>> /\ ran = <<>> /\ phase = "unit"
  BY DEF Init
<1>2. MayHold(heard, faults, line)
  BY <1>1, HoldsNothing, Zenon
<1>3. heard \in Seq(Frames) /\ Len(heard) <= MaxFrames /\ faults \in Nat /\ faults <= MaxFaults
  BY <1>1, BoundsAssumption
<1>4. IsSequence(ran) /\ DOMAIN ran = {}
  <2>1. ran \in Seq({})
    BY <1>1
  <2> QED
    BY <1>1, <2>1 DEF IsSequence
<1>5. ~InOnePiece /\ phase # "callback"
  BY <1>1 DEF InOnePiece, InRequest
<1> QED
  BY <1>2, <1>3, <1>4, <1>5, Zenon DEF TrafficInv

\* The bus brings nothing, and the server is not at a piece of a request.
LEMMA OutOfRequest ==
  ASSUME TrafficInv, heard' = heard, faults' = faults, ran' = ran,
         phase' \notin InRequest, phase' # "callback", MayHold(heard, faults, line')
  PROVE  TrafficInv'
<1>1. ~InOnePiece'
  BY DEF InOnePiece
<1>2. MayHold(heard', faults', line')
  BY Zenon
<1> QED
  BY <1>1, <1>2, Zenon DEF TrafficInv

\* A piece of a request is read behind the others.
LEMMA PieceBehind ==
  ASSUME Addressed, TrafficInv, Reading, Receive, MayHold(heard, faults, buf \o line),
         heard' = heard, faults' = faults, ran' = ran,
         buf' = buf \o Received, phase' # "callback"
  PROVE  TrafficInv'
<1>1. MayHold(heard', faults', line')
  BY RestHeld, Zenon DEF TrafficInv
<1>2. (buf \o Received) \o line' = buf \o line
  BY PieceRead
<1>3. MayHold(heard', faults', buf' \o line')
  BY <1>2, Zenon
<1> QED
  BY <1>1, <1>3, Zenon DEF TrafficInv

LEMMA TrafficAtUnit ==
  ASSUME KeepInv, TrafficInv, RecvUnit
  PROVE  TrafficInv'
<1>1. /\ Addressed /\ Reading /\ Receive /\ heard' = heard /\ faults' = faults /\ ran' = ran
      /\ buf' = buf \o Received /\ phase' # "callback" /\ phase = "unit"
  BY DEF RecvUnit, KeepInv, ServedInv, Reading, busVars
<1>2. buf \o line = line
  BY <1>1 DEF Addressed
<1>3. MayHold(heard, faults, buf \o line)
  BY <1>2, Zenon DEF TrafficInv
<1> QED
  BY <1>1, <1>3, PieceBehind

LEMMA TrafficAtFc ==
  ASSUME KeepInv, TrafficInv, RecvFc
  PROVE  TrafficInv'
<1>1. /\ Addressed /\ Reading /\ Receive /\ heard' = heard /\ faults' = faults /\ ran' = ran
      /\ buf' = buf \o Received /\ phase' # "callback" /\ phase = "fc"
  BY DEF RecvFc, KeepInv, ServedInv, Reading, busVars, NothingRead, Return
<1>2. MayHold(heard, faults, buf \o line)
  BY <1>1 DEF TrafficInv, InOnePiece, InRequest
<1> QED
  BY <1>1, <1>2, PieceBehind

LEMMA TrafficAtBody ==
  ASSUME KeepInv, TrafficInv, RecvBody
  PROVE  TrafficInv'
<1>1. /\ Addressed /\ Reading /\ Receive /\ heard' = heard /\ faults' = faults /\ ran' = ran
      /\ phase' \in {"data", "footer"} /\ phase \in {"fixed", "data"}
  BY DEF RecvBody, KeepInv, ServedInv, Reading, busVars, NothingRead
<1>2. MayHold(heard, faults, buf \o line)
  BY <1>1 DEF TrafficInv, InOnePiece, InRequest
<1>3. CASE ~(phase = "data" /\ Fc(buf) \in {16, 23})
  <2>1. buf' = buf \o Received /\ phase' # "callback"
    BY <1>1, <1>3 DEF RecvBody
  <2> QED
    BY <1>1, <1>2, <2>1, PieceBehind
<1>4. CASE phase = "data" /\ Fc(buf) \in {16, 23}
  <2>1. buf' = WholeRegisters(buf \o Received) /\ phase' = "footer"
    BY <1>4 DEF RecvBody
  <2>2. buf \in Seq(Byte) /\ Received \in Seq(Byte) /\ buf \o Received \in Seq(Byte)
    BY <1>1, ReceivedBytes DEF Addressed
  <2>3. Len(buf) >= 3
    <3>1. FixedEnd(buf) >= 3 /\ Len(buf) = FixedEnd(buf)
      BY <1>4 DEF KeepInv, Places, FixedEnd, FixedLen
    <3> QED
      BY <3>1
  <2>4. Len(buf) \in Nat /\ Len(Received) \in Nat
    BY <2>2
  <2>5. Len(buf \o Received) = Len(buf) + Len(Received) /\ Fc(buf \o Received) = Fc(buf)
    BY <2>2, <2>3, <2>4, SameFunction
  <2>6. Len(buf \o Received) >= 3
    BY <2>3, <2>4, <2>5
  <2>7. Fc(WholeRegisters(buf \o Received)) = Fc(buf \o Received)
    BY <2>2, <2>6, WholeRegistersSameFunction
  <2>8. Fc(buf') \in {16, 23}
    BY <1>4, <2>1, <2>5, <2>7, Zenon
  <2>9. ~InOnePiece'
    BY <2>1, <2>8 DEF InOnePiece
  <2>10. MayHold(heard', faults', line')
    BY <1>1, RestHeld, Zenon DEF TrafficInv
  <2> QED
    BY <1>1, <2>1, <2>9, <2>10 DEF TrafficInv
<1> QED
  BY <1>3, <1>4

LEMMA TrafficAtFooter ==
  ASSUME ChecksumDetects, KeepInv, TrafficInv, RecvFooterAccepted
  PROVE  TrafficInv'
<1>1. /\ Addressed /\ Reading /\ Receive /\ heard' = heard /\ faults' = faults
      /\ ran' = Append(ran, buf \o Received) /\ buf' = buf \o Received /\ phase' = "callback"
  BY DEF RecvFooterAccepted, KeepInv, ServedInv, Reading, busVars
<1>2. buf \o Received \in Range(heard)
  BY AcceptedWasHeard
<1>3. IsSequence(ran') /\ \A i \in DOMAIN ran' : ran'[i] \in Range(heard)
  <2>1. IsSequence(ran)
    BY DEF TrafficInv
  <2>2. /\ IsSequence(Append(ran, buf \o Received))
        /\ \A i \in DOMAIN Append(ran, buf \o Received) :
             \/ i \in DOMAIN ran /\ Append(ran, buf \o Received)[i] = ran[i]
             \/ Append(ran, buf \o Received)[i] = buf \o Received
    BY <2>1, OneMore, Zenon
  <2> QED
    BY <1>1, <1>2, <2>2, Zenon DEF TrafficInv
<1>4. ~InOnePiece'
  BY <1>1 DEF InOnePiece, InRequest
<1>5. MayHold(heard', faults', line')
  BY <1>1, RestHeld, Zenon DEF TrafficInv
<1> QED
  BY <1>1, <1>2, <1>3, <1>4, <1>5 DEF TrafficInv

LEMMA TrafficSent ==
  ASSUME KeepInv, TrafficInv, NEW frame \in Frames, Send(frame)
  PROVE  TrafficInv'
<1>1. /\ Len(heard) < MaxFrames /\ line' = line \o frame /\ heard' = Append(heard, frame)
      /\ buf' = buf /\ phase' = phase /\ faults' = faults /\ ran' = ran
  BY DEF Send, serverVars
<1>2. /\ heard \in Seq(Frames) /\ line \in Seq(Byte) /\ buf \in Seq(Byte) /\ faults \in Nat
      /\ frame \in Seq(Byte)
  BY FramesAssumption DEF TrafficInv, KeepInv, ServedInv, Addressed
<1>3. /\ heard' \in Seq(Frames) /\ Range(heard) \subseteq Range(heard')
  BY <1>1, <1>2, HeardMore
<1>4. Len(heard') <= MaxFrames
  BY <1>1, <1>2, BoundsAssumption
<1>5. MayHold(heard', faults', line')
  <2>1. MayHold(Append(heard, frame), faults, line \o frame)
    BY <1>2, HoldsMore, Zenon DEF TrafficInv
  <2> QED
    BY <1>1, <2>1, Zenon
<1>6. ASSUME InOnePiece
      PROVE  MayHold(heard', faults', buf' \o line')
  <2>1. buf \o line \in Seq(Byte) /\ MayHold(heard, faults, buf \o line)
    BY <1>2, <1>6 DEF TrafficInv
  <2>2. MayHold(Append(heard, frame), faults, (buf \o line) \o frame)
    BY <1>2, <2>1, HoldsMore, Zenon
  <2>3. buf \o (line \o frame) = (buf \o line) \o frame
    BY <1>2, BytesAssociate, Zenon
  <2> QED
    BY <1>1, <2>2, <2>3, Zenon
<1>7. InOnePiece' = InOnePiece
  BY <1>1, Zenon DEF InOnePiece
<1> QED
  BY <1>1, <1>2, <1>3, <1>4, <1>5, <1>6, <1>7, Zenon DEF TrafficInv

\* A byte is lost or garbled on the line, so also where buffer and line are one.
LEMMA TrafficDisturbed ==
  ASSUME KeepInv, TrafficInv, Disturb
  PROVE  TrafficInv'
<1>1. /\ faults < MaxFaults /\ faults' = faults + 1
      /\ heard' = heard /\ buf' = buf /\ phase' = phase /\ ran' = ran
  BY DEF Disturb, Fault, serverVars
<1>2. /\ heard \in Seq(Frames) /\ line \in Seq(Byte) /\ buf \in Seq(Byte) /\ faults \in Nat
      /\ buf \o line \in Seq(Byte)
  BY DEF TrafficInv, KeepInv, ServedInv, Addressed
<1>3. faults' \in Nat /\ faults' <= MaxFaults
  BY <1>1, <1>2, BoundsAssumption
<1>4. MayHold(heard, faults + 1, line')
  BY <1>2, DisturbedLine, Zenon DEF TrafficInv
<1>5. InOnePiece => MayHold(heard, faults + 1, buf \o line')
  BY <1>2, DisturbedBehind, Zenon DEF TrafficInv
<1>6. InOnePiece' = InOnePiece
  BY <1>1, Zenon DEF InOnePiece
<1> QED
  BY <1>1, <1>2, <1>3, <1>4, <1>5, <1>6, Zenon DEF TrafficInv

\* What overflows the UART is lost while no request is read.
LEMMA TrafficOverflown ==
  ASSUME KeepInv, TrafficInv, Overflow
  PROVE  TrafficInv'
<1>1. /\ faults < MaxFaults /\ faults' = faults + 1 /\ ~Reading
      /\ heard' = heard /\ buf' = buf /\ phase' = phase /\ ran' = ran
  BY DEF Overflow, Fault, serverVars
<1>2. heard \in Seq(Frames) /\ line \in Seq(Byte) /\ faults \in Nat
  BY DEF TrafficInv, KeepInv, ServedInv, Addressed
<1>3. faults' \in Nat /\ faults' <= MaxFaults
  BY <1>1, <1>2, BoundsAssumption
<1>4. MayHold(heard, faults + 1, line')
  BY <1>2, OverflownLine, Zenon DEF TrafficInv
<1>5. ~InOnePiece'
  BY <1>1 DEF InOnePiece, InRequest, Reading
<1> QED
  BY <1>1, <1>2, <1>3, <1>4, <1>5, Zenon DEF TrafficInv

LEMMA TrafficAnew ==
  ASSUME StartAnew
  PROVE  TrafficInv'
<1>1. /\ heard' = <<>> /\ faults' = 0 /\ line' = <<>> /\ ran' = <<>> /\ phase' = "unit"
  BY DEF StartAnew, serverVars
<1>2. MayHold(heard', faults', line')
  BY <1>1, HoldsNothing, Zenon
<1>3. /\ heard' \in Seq(Frames) /\ Len(heard') <= MaxFrames
      /\ faults' \in Nat /\ faults' <= MaxFaults
  BY <1>1, BoundsAssumption
<1>4. IsSequence(ran') /\ DOMAIN ran' = {}
  <2>1. ran' \in Seq({})
    BY <1>1
  <2> QED
    BY <1>1, <2>1 DEF IsSequence
<1>5. ~InOnePiece' /\ phase' # "callback"
  BY <1>1 DEF InOnePiece, InRequest
<1> QED
  BY <1>2, <1>3, <1>4, <1>5, Zenon DEF TrafficInv

LEMMA TrafficAtRestart ==
  ASSUME KeepInv, TrafficInv, Restart
  PROVE  TrafficInv'
<1>1. heard' = heard /\ faults' = faults /\ ran' = ran /\ phase' = "unit"
  BY DEF Restart, Started
<1>2. heard \in Seq(Frames) /\ line \in Seq(Byte) /\ faults \in Nat
  BY DEF TrafficInv, KeepInv, ServedInv, Addressed
<1>3. MayHold(heard, faults, line')
  BY <1>2, RestartedLine, Zenon DEF TrafficInv
<1> QED
  BY <1>1, <1>3, OutOfRequest, Zenon DEF InRequest

\* A read that ends a request or a response leaves the rest, a silence nothing.
LEMMA TrafficLeftBehind ==
  ASSUME KeepInv, TrafficInv,
         \/ Poll \/ RecvFooterBad \/ RecvFooterIgnored \/ RecvFooterRefused
         \/ RecvResUnit \/ RecvResFc \/ RecvResBody \/ RecvResFooter
         \/ Timeout \/ FlushFull \/ AnyAnswer
  PROVE  TrafficInv'
<1>1. Addressed
  BY DEF KeepInv, ServedInv
<1>2. heard' = heard /\ faults' = faults /\ ran' = ran
  BY DEF Poll, RecvFooterBad, RecvFooterIgnored, RecvFooterRefused, RecvResUnit, RecvResFc,
         RecvResBody, RecvResFooter, Timeout, GiveUp, FlushFull, AnyAnswer, Answer, busVars,
         NothingRead
<1>3. phase' \notin InRequest /\ phase' # "callback"
  BY DEF Poll, RecvFooterBad, RecvFooterIgnored, RecvFooterRefused, RecvResUnit, RecvResFc,
         RecvResBody, RecvResFooter, Timeout, GiveUp, FlushFull, AnyAnswer, Answer, InRequest,
         Return, Fail
<1>4. line' = line \/ line' = <<>> \/ (Reading /\ Receive)
  BY DEF Poll, RecvFooterBad, RecvFooterIgnored, RecvFooterRefused, RecvResUnit, RecvResFc,
         RecvResBody, RecvResFooter, Timeout, GiveUp, FlushFull, AnyAnswer, Answer, Reading
<1>5. MayHold(heard, faults, line')
  BY <1>1, <1>4, LeftBehind DEF TrafficInv
<1> QED
  BY <1>2, <1>3, <1>5, OutOfRequest

LEMMA TrafficKept ==
  ASSUME ChecksumDetects, KeepInv, TrafficInv, [AnyNext]_vars
  PROVE  TrafficInv'
<1>1. CASE RecvUnit \/ RecvFc \/ RecvBody \/ RecvFooterAccepted
  BY <1>1, TrafficAtUnit, TrafficAtFc, TrafficAtBody, TrafficAtFooter
<1>2. CASE \/ Poll \/ RecvFooterBad \/ RecvFooterIgnored \/ RecvFooterRefused
           \/ RecvResUnit \/ RecvResFc \/ RecvResBody \/ RecvResFooter
           \/ Timeout \/ FlushFull \/ AnyAnswer
  BY <1>2, TrafficLeftBehind
<1>3. CASE Bus
  BY <1>3, TrafficSent, TrafficDisturbed, TrafficOverflown, TrafficAnew DEF Bus
<1>4. CASE Restart
  BY <1>4, TrafficAtRestart
<1>5. CASE UNCHANGED vars
  <2>1. /\ line' = line /\ phase' = phase /\ buf' = buf /\ heard' = heard
        /\ faults' = faults /\ ran' = ran
    BY <1>5 DEF vars, serverVars, busVars
  <2>2. InOnePiece' = InOnePiece
    BY <2>1, Zenon DEF InOnePiece
  <2> QED
    BY <2>1, <2>2, Zenon DEF TrafficInv
<1> QED
  BY <1>1, <1>2, <1>3, <1>4, <1>5 DEF AnyNext, ServerStep, RecvFooter

\* Whatever was lost, garbled or cut in two by a restart, a callback ran only for a
\* frame that was sent, provided the checksum tells such a frame from any stretch of
\* the traffic: the server never puts bytes together that did not follow one another
\* on the line, nor looks at them a second time (msg_state_reset, recv, the flush).
THEOREM CallbacksWereSent ==
  ASSUME ChecksumDetects
  PROVE  Spec => [](\A i \in DOMAIN ran : ran[i] \in Range(heard))
<1>1. Init => KeepInv /\ TrafficInv
  BY KeepInductive, InitTraffic
<1>2. (KeepInv /\ TrafficInv) /\ [Next]_vars => (KeepInv /\ TrafficInv)'
  BY NextIsAny, KeepInductive, TrafficKept
<1>3. KeepInv /\ TrafficInv => \A i \in DOMAIN ran : ran[i] \in Range(heard)
  BY DEF TrafficInv
<1> QED
  BY <1>1, <1>2, <1>3, PTL DEF Spec
-----------------------------------------------------------------------------
(***************************************************************************)
(* The order of the requests.                                              *)
(***************************************************************************)

\* Each element of `some' has a place of its own among the first n of `all'.
OccursBy(some, all, n) ==
  \E place \in [DOMAIN some -> 1..n] :
    /\ \A i \in DOMAIN some : all[place[i]] = some[i]
    /\ \A i, j \in DOMAIN some : i < j => place[i] < place[j]

LEMMA OccursByMeans ==
  ASSUME NEW all, NEW some, NEW n \in Nat, n <= Len(all), DOMAIN all = 1..Len(all),
         Len(all) \in Nat, OccursBy(some, all, n)
  PROVE  OccursIn(some, all)
<1>1. 1..n \subseteq DOMAIN all
  OBVIOUS
<1>2. PICK place \in [DOMAIN some -> 1..n] :
        /\ \A i \in DOMAIN some : all[place[i]] = some[i]
        /\ \A i, j \in DOMAIN some : i < j => place[i] < place[j]
  BY DEF OccursBy
<1>3. place \in [DOMAIN some -> DOMAIN all]
  BY <1>1
<1> QED
  BY <1>2, <1>3, Zenon DEF OccursIn

\* More frames leave the places where they are.
LEMMA OccursLater ==
  ASSUME NEW some, NEW all, NEW n \in Nat, OccursBy(some, all, n), NEW m \in Nat, n <= m,
         NEW more, \A k \in 1..n : more[k] = all[k]
  PROVE  OccursBy(some, more, m)
<1>1. PICK place \in [DOMAIN some -> 1..n] :
        /\ \A i \in DOMAIN some : all[place[i]] = some[i]
        /\ \A i, j \in DOMAIN some : i < j => place[i] < place[j]
  BY DEF OccursBy
<1>2. 1..n \subseteq 1..m
  OBVIOUS
<1>3. place \in [DOMAIN some -> 1..m]
  BY <1>2
<1>4. \A i \in DOMAIN some : more[place[i]] = some[i]
  <2>1. \A i \in DOMAIN some : place[i] \in 1..n
    OBVIOUS
  <2> QED
    BY <1>1, <2>1, Zenon
<1> QED
  BY <1>1, <1>3, <1>4, Zenon DEF OccursBy

\* One more element behind the others takes a place behind theirs.
LEMMA OccursOneMore ==
  ASSUME NEW some, IsSequence(some), NEW all, NEW n \in Nat, OccursBy(some, all, n),
         NEW m \in Nat, n < m, NEW x, all[m] = x
  PROVE  OccursBy(Append(some, x), all, m)
<1>1. PICK place \in [DOMAIN some -> 1..n] :
        /\ \A i \in DOMAIN some : all[place[i]] = some[i]
        /\ \A i, j \in DOMAIN some : i < j => place[i] < place[j]
  BY DEF OccursBy
<1> DEFINE more == Append(some, x)
           last == Len(some) + 1
<1>2. /\ last \in Nat /\ last \notin DOMAIN some
      /\ DOMAIN more = (DOMAIN some) \cup {last} /\ more[last] = x
  BY AnswersBefore
<1>3. \A i \in DOMAIN some : i \in Nat /\ i < last /\ more[i] = some[i]
  BY AnswersBefore
<1> HIDE DEF more, last
<1> DEFINE longer == [i \in DOMAIN more |-> IF i \in DOMAIN some THEN place[i] ELSE m]
<1>4. \A i \in DOMAIN some : longer[i] = place[i] /\ place[i] \in 1..n
  BY <1>2
<1>5. longer[last] = m
  BY <1>2
<1>6. longer \in [DOMAIN more -> 1..m]
  <2>1. 1..n \subseteq 1..m /\ m \in 1..m
    OBVIOUS
  <2>2. \A i \in DOMAIN some : place[i] \in 1..m
    BY <1>4, <2>1, Zenon
  <2> QED
    BY <2>1, <2>2
<1> HIDE DEF longer
<1>7. \A i \in DOMAIN more : all[longer[i]] = more[i]
  <2>1. \A i \in DOMAIN some : all[longer[i]] = more[i]
    BY <1>1, <1>3, <1>4, Zenon
  <2>2. all[longer[last]] = more[last]
    BY <1>2, <1>5
  <2> QED
    BY <1>2, <2>1, <2>2
<1>8. \A i, j \in DOMAIN more : i < j => longer[i] < longer[j]
  <2>1. SUFFICES ASSUME NEW i \in DOMAIN more, NEW j \in DOMAIN more, i < j
                 PROVE  longer[i] < longer[j]
    OBVIOUS
  <2>2. i \in DOMAIN some
    BY <1>2, <1>3, <2>1
  <2>3. CASE j \in DOMAIN some
    BY <1>1, <1>4, <2>1, <2>2, <2>3
  <2>4. CASE j = last
    BY <1>4, <1>5, <2>2, <2>4
  <2> QED
    BY <1>2, <2>3, <2>4
<1> QED
  BY <1>6, <1>7, <1>8, Zenon DEF OccursBy, more
-----------------------------------------------------------------------------
(***************************************************************************)
(* The invariant of the order: the frames up to the p-th are dealt with,   *)
(* and what is in the buffer and on the line is of the later ones.         *)
(***************************************************************************)
Later(p) == SubSeq(heard, p + 1, Len(heard))

\* What the buffer holds of the piece of traffic that was read.
ReadSoFar(raw) ==
  IF phase = "footer" THEN WholeBody(raw) /\ buf = AsTaken(raw) ELSE buf = raw

DealtWith(p) ==
  /\ phase = "callback" => p >= 1 /\ heard[p] = buf
  /\ OccursBy(ran, heard, p)
  /\ OccursBy(Answered, heard, IF phase = "callback" THEN p - 1 ELSE p)

StillToCome(p) ==
  /\ MayHold(Later(p), faults, line)
  /\ phase \in InRequest =>
       \E raw \in Seq(Byte) : ReadSoFar(raw) /\ MayHold(Later(p), faults, raw \o line)

Bounded ==
  /\ heard \in Seq(Frames) /\ Len(heard) <= MaxFrames
  /\ faults \in Nat /\ faults <= MaxFaults

OrderInv == Bounded /\ \E p \in 0..Len(heard) : DealtWith(p) /\ StillToCome(p)

LEMMA BoundedKept ==
  ASSUME Bounded, [AnyNext]_vars
  PROVE  Bounded'
<1>1. CASE ServerStep \/ AnyAnswer \/ Restart \/ UNCHANGED vars
  <2>1. heard' = heard /\ faults' = faults
    BY <1>1 DEF ServerStep, RecvUnit, RecvFc, RecvBody, RecvFooter, RecvFooterBad,
                RecvFooterIgnored, RecvFooterRefused, RecvFooterAccepted, RecvResUnit,
                RecvResFc, RecvResBody, RecvResFooter, Poll, Timeout, GiveUp, FlushFull,
                AnyAnswer, Answer, Restart, busVars, vars
  <2> QED
    BY <2>1 DEF Bounded
<1>2. CASE \E frame \in Frames : Send(frame)
  <2>1. PICK frame \in Frames : Send(frame)
    BY <1>2
  <2>2. heard' = Append(heard, frame) /\ Len(heard) < MaxFrames /\ faults' = faults
    BY <2>1 DEF Send
  <2> QED
    BY <2>2, BoundsAssumption DEF Bounded
<1>3. CASE Disturb \/ Overflow
  <2>1. heard' = heard /\ faults' = faults + 1 /\ faults < MaxFaults
    BY <1>3 DEF Disturb, Overflow, Fault
  <2> QED
    BY <2>1, BoundsAssumption DEF Bounded
<1>4. CASE StartAnew
  <2>1. heard' = <<>> /\ faults' = 0
    BY <1>4 DEF StartAnew
  <2> QED
    BY <2>1, BoundsAssumption DEF Bounded
<1> QED
  BY <1>1, <1>2, <1>3, <1>4 DEF AnyNext, Bus

\* The frames behind a place.
LEMMA LaterFrames ==
  ASSUME NEW hs \in Seq(Frames), NEW p \in 0..Len(hs)
  PROVE  /\ SubSeq(hs, p + 1, Len(hs)) \in Seq(Frames)
         /\ Len(SubSeq(hs, p + 1, Len(hs))) = Len(hs) - p
         /\ Len(hs) \in Nat /\ p \in Nat
         /\ \A j \in 1..Len(hs) - p : SubSeq(hs, p + 1, Len(hs))[j] = hs[p + j]
OBVIOUS

LEMMA LaterStill ==
  ASSUME NEW hs \in Seq(Frames), NEW p \in 0..Len(hs), NEW j \in 1..Len(hs) - p
  PROVE  LET later == SubSeq(hs, p + 1, Len(hs))
         IN  SubSeq(later, j + 1, Len(later)) = SubSeq(hs, (p + j) + 1, Len(hs))
<1> DEFINE later == SubSeq(hs, p + 1, Len(hs))
           l     == SubSeq(later, j + 1, Len(later))
           r     == SubSeq(hs, (p + j) + 1, Len(hs))
<1>1. /\ later \in Seq(Frames) /\ Len(later) = Len(hs) - p /\ Len(hs) \in Nat /\ p \in Nat
      /\ \A k \in 1..Len(hs) - p : later[k] = hs[p + k]
  BY LaterFrames
<1> HIDE DEF later
<1>2. /\ j \in 0..Len(later) /\ p + j \in 0..Len(hs) /\ j \in Nat
  BY <1>1
<1>3. /\ l \in Seq(Frames) /\ Len(l) = Len(later) - j
      /\ \A k \in 1..Len(later) - j : l[k] = later[j + k]
  BY <1>1, <1>2, LaterFrames
<1>4. /\ r \in Seq(Frames) /\ Len(r) = Len(hs) - (p + j)
      /\ \A k \in 1..Len(hs) - (p + j) : r[k] = hs[(p + j) + k]
  BY <1>2, LaterFrames
<1> HIDE DEF l, r
<1>5. Len(l) = Len(r)
  BY <1>1, <1>2, <1>3, <1>4
<1>6. \A k \in 1..Len(l) : l[k] = r[k]
  <2>1. SUFFICES ASSUME NEW k \in 1..Len(l)
                 PROVE  l[k] = r[k]
    OBVIOUS
  <2>2. /\ k \in 1..Len(later) - j /\ k \in 1..Len(hs) - (p + j)
        /\ j + k \in 1..Len(hs) - p /\ p + (j + k) = (p + j) + k
    BY <1>1, <1>2, <1>3, <1>4
  <2> QED
    BY <1>1, <1>3, <1>4, <2>2, Zenon
<1> QED
  BY <1>3, <1>4, <1>5, <1>6, SeqEqual DEF l, r, later

LEMMA LaterMore ==
  ASSUME NEW hs \in Seq(Frames), NEW p \in 0..Len(hs), NEW f \in Frames
  PROVE  /\ SubSeq(Append(hs, f), p + 1, Len(Append(hs, f)))
               = Append(SubSeq(hs, p + 1, Len(hs)), f)
         /\ p \in 0..Len(Append(hs, f))
         /\ \A k \in 1..p : Append(hs, f)[k] = hs[k]
<1> DEFINE more == Append(hs, f)
           l    == SubSeq(more, p + 1, Len(more))
           old  == SubSeq(hs, p + 1, Len(hs))
           r    == Append(old, f)
<1>1. /\ more \in Seq(Frames) /\ Len(more) = Len(hs) + 1 /\ more[Len(hs) + 1] = f
      /\ \A k \in 1..Len(hs) : more[k] = hs[k]
      /\ Len(hs) \in Nat /\ p \in Nat /\ p <= Len(hs)
  OBVIOUS
<1>2. /\ old \in Seq(Frames) /\ Len(old) = Len(hs) - p
      /\ \A k \in 1..Len(hs) - p : old[k] = hs[p + k]
  BY LaterFrames
<1> HIDE DEF more, old
<1>3. p \in 0..Len(more) /\ \A k \in 1..p : more[k] = hs[k]
  BY <1>1
<1>4. /\ l \in Seq(Frames) /\ Len(l) = Len(more) - p
      /\ \A k \in 1..Len(more) - p : l[k] = more[p + k]
  BY <1>1, <1>3, LaterFrames
<1>5. /\ r \in Seq(Frames) /\ Len(r) = Len(old) + 1 /\ r[Len(old) + 1] = f
      /\ \A k \in 1..Len(old) : r[k] = old[k]
  BY <1>2
<1> HIDE DEF l, r
<1>6. \A k \in 1..Len(l) : l[k] = r[k]
  <2>1. SUFFICES ASSUME NEW k \in 1..Len(l)
                 PROVE  l[k] = r[k]
    OBVIOUS
  <2>2. l[k] = more[p + k] /\ Len(l) = (Len(hs) - p) + 1
    BY <1>1, <1>4
  <2>3. CASE k \in 1..Len(hs) - p
    <3>1. p + k \in 1..Len(hs) /\ k \in 1..Len(old)
      BY <1>1, <1>2, <2>3
    <3> QED
      BY <1>1, <1>2, <1>5, <2>2, <2>3, <3>1, Zenon
  <2>4. CASE k = (Len(hs) - p) + 1
    <3>1. p + k = Len(hs) + 1 /\ k = Len(old) + 1
      BY <1>1, <1>2, <2>4
    <3> QED
      BY <1>1, <1>5, <2>2, <3>1, Zenon
  <2> QED
    BY <1>1, <2>2, <2>3, <2>4
<1>7. Len(l) = Len(r)
  BY <1>1, <1>2, <1>4, <1>5
<1>8. l = r
  BY <1>4, <1>5, <1>6, <1>7, SeqEqual
<1> QED
  BY <1>3, <1>8 DEF more, l, r, old

\* The requests answered are one more with an answer more.
LEMMA AnsweredOneMore ==
  ASSUME IsSequence(replies), NEW msg, NEW response, replies' = Reply(msg, response)
  PROVE  IsSequence(Answered) /\ Answered' = Append(Answered, msg)
<1> DEFINE one  == [to |-> msg, bytes |-> response]
           more == Append(replies, one)
<1>1. replies' = more /\ one.to = msg
  BY DEF Reply
<1>2. PICK S : replies \in Seq(S)
  BY DEF IsSequence
<1>3. /\ DOMAIN replies = 1..Len(replies) /\ Len(replies) \in Nat
      /\ Answered \in Seq({replies[i].to : i \in DOMAIN replies})
      /\ Len(Answered) = Len(replies)
      /\ \A i \in 1..Len(replies) : Answered[i] = replies[i].to
  BY <1>2 DEF Answered
<1> DEFINE T == {replies[i].to : i \in DOMAIN replies} \cup {msg}
           now == Answered
           longer == Append(now, msg)
<1>4. now \in Seq(T) /\ msg \in T
  BY <1>3
<1> HIDE DEF T
<1>5. /\ longer \in Seq(T) /\ Len(longer) = Len(now) + 1
      /\ longer[Len(now) + 1] = msg /\ \A i \in 1..Len(now) : longer[i] = now[i]
  BY <1>4
<1>6. /\ DOMAIN more = 1..Len(replies) + 1 /\ more[Len(replies) + 1] = one
      /\ \A i \in DOMAIN replies : more[i] = replies[i]
  <2>1. /\ DOMAIN more = (DOMAIN replies) \cup {Len(replies) + 1}
        /\ more[Len(replies) + 1] = one
    BY AnswersBefore
  <2>2. \A i \in DOMAIN replies : more[i] = replies[i]
    BY AnswersBefore
  <2>3. 1..Len(replies) + 1 = (1..Len(replies)) \cup {Len(replies) + 1}
    BY <1>3
  <2> QED
    BY <1>3, <2>1, <2>2, <2>3
<1> HIDE DEF one, more
<1>7. Answered' = [i \in 1..Len(replies) + 1 |-> more[i].to]
  BY <1>1, <1>6 DEF Answered
<1> HIDE DEF longer
<1>8. longer = [i \in 1..Len(replies) + 1 |-> more[i].to]
  <2>1. longer = [i \in 1..Len(longer) |-> longer[i]]
    BY <1>5
  <2>2. \A i \in 1..Len(replies) + 1 : longer[i] = more[i].to
    <3>1. SUFFICES ASSUME NEW i \in 1..Len(replies) + 1
                   PROVE  longer[i] = more[i].to
      OBVIOUS
    <3>2. CASE i \in 1..Len(replies)
      BY <1>3, <1>5, <1>6, <3>2, Zenon
    <3>3. CASE i = Len(replies) + 1
      BY <1>1, <1>3, <1>5, <1>6, <3>3, Zenon
    <3> QED
      BY <1>3, <3>2, <3>3
  <2> HIDE DEF now
  <2>3. Len(longer) = Len(replies) + 1
    BY <1>3, <1>5 DEF now
  <2> QED
    BY <2>1, <2>2, <2>3
<1>9. IsSequence(Answered)
  BY <1>3 DEF IsSequence
<1> QED
  BY <1>7, <1>8, <1>9, Zenon DEF longer
-----------------------------------------------------------------------------
\* Nothing more is dealt with.
LEMMA NothingMoreDealt ==
  ASSUME NEW p \in Nat, DealtWith(p), heard' = heard, ran' = ran, replies' = replies,
         phase' # "callback"
  PROVE  DealtWith(p)'
<1>1. OccursBy(ran', heard', p)
  BY DEF DealtWith
<1>2. Answered' = Answered
  BY DEF Answered
<1>3. OccursBy(Answered, heard, p)
  <2>1. CASE phase = "callback"
    <3>1. p >= 1 /\ OccursBy(Answered, heard, p - 1)
      BY <2>1 DEF DealtWith
    <3>2. p - 1 \in Nat /\ p - 1 <= p
      BY <3>1
    <3> QED
      BY <3>1, <3>2, OccursLater
  <2>2. CASE phase # "callback"
    BY <2>2 DEF DealtWith
  <2> QED
    BY <2>1, <2>2
<1> QED
  BY <1>1, <1>2, <1>3 DEF DealtWith

\* The server is not at a piece of a request.
LEMMA OrderOutOfRequest ==
  ASSUME NEW p \in Nat, DealtWith(p), heard' = heard, faults' = faults, ran' = ran,
         replies' = replies, phase' \notin InRequest, phase' # "callback",
         MayHold(Later(p), faults, line')
  PROVE  (DealtWith(p) /\ StillToCome(p))'
<1>1. DealtWith(p)'
  BY NothingMoreDealt
<1>2. Later(p)' = Later(p)
  BY DEF Later
<1>3. StillToCome(p)'
  BY <1>2 DEF StillToCome
<1> QED
  BY <1>1, <1>3

LEMMA LaterIsFrames ==
  ASSUME heard \in Seq(Frames), NEW p \in 0..Len(heard)
  PROVE  Later(p) \in Seq(Frames) /\ p \in Nat
BY LaterFrames DEF Later

\* A piece of a request is read behind the others: raw is now what the buffer is of.
LEMMA OrderPieceBehind ==
  ASSUME Addressed, Bounded, NEW p \in 0..Len(heard), DealtWith(p),
         MayHold(Later(p), faults, line), MayHold(Later(p), faults, buf \o line),
         Reading, Receive, heard' = heard, faults' = faults, ran' = ran, replies' = replies,
         phase' # "callback",
         NEW raw \in Seq(Byte), raw = buf \o Received,
         phase' = "footer" => WholeBody(raw) /\ buf' = AsTaken(raw),
         phase' \in InRequest \ {"footer"} => buf' = raw
  PROVE  (DealtWith(p) /\ StillToCome(p))'
<1>1. Later(p) \in Seq(Frames) /\ faults \in Nat /\ p \in Nat
  BY LaterIsFrames DEF Bounded
<1>2. DealtWith(p)'
  BY <1>1, NothingMoreDealt
<1>3. Later(p)' = Later(p)
  BY DEF Later
<1>4. MayHold(Later(p), faults, line')
  BY <1>1, RestHeld
<1>5. MayHold(Later(p), faults, raw \o line')
  <2>1. (buf \o Received) \o line' = buf \o line
    BY PieceRead
  <2> QED
    BY <2>1, Zenon
<1>6. phase' \in InRequest => ReadSoFar(raw)'
  BY DEF ReadSoFar
<1>7. StillToCome(p)'
  BY <1>3, <1>4, <1>5, <1>6 DEF StillToCome
<1> QED
  BY <1>2, <1>7

LEMMA OrderAtUnit ==
  ASSUME KeepInv, Bounded, NEW p \in 0..Len(heard), DealtWith(p), StillToCome(p), RecvUnit
  PROVE  (DealtWith(p) /\ StillToCome(p))'
<1>1. /\ Addressed /\ Reading /\ Receive /\ heard' = heard /\ faults' = faults /\ ran' = ran
      /\ replies' = replies /\ buf' = buf \o Received /\ phase' = "fc" /\ phase = "unit"
  BY DEF RecvUnit, KeepInv, ServedInv, Reading, busVars
<1>2. buf \o line = line
  BY <1>1 DEF Addressed
<1>3. MayHold(Later(p), faults, line) /\ MayHold(Later(p), faults, buf \o line)
  BY <1>2, Zenon DEF StillToCome
<1>4. buf \o Received \in Seq(Byte)
  BY <1>1, ReceivedBytes
<1> QED
  BY <1>1, <1>3, <1>4, OrderPieceBehind

LEMMA OrderAtFc ==
  ASSUME KeepInv, Bounded, NEW p \in 0..Len(heard), DealtWith(p), StillToCome(p), RecvFc
  PROVE  (DealtWith(p) /\ StillToCome(p))'
<1>1. /\ Addressed /\ Reading /\ Receive /\ heard' = heard /\ faults' = faults /\ ran' = ran
      /\ replies' = replies /\ buf' = buf \o Received /\ phase' \in {"fixed", "returned"}
      /\ phase = "fc"
  BY DEF RecvFc, KeepInv, ServedInv, Reading, busVars, NothingRead, Return
<1>2. MayHold(Later(p), faults, line) /\ MayHold(Later(p), faults, buf \o line)
  BY <1>1 DEF StillToCome, ReadSoFar, InRequest
<1>3. buf \o Received \in Seq(Byte)
  BY <1>1, ReceivedBytes
<1> QED
  BY <1>1, <1>2, <1>3, OrderPieceBehind

\* The body of a request ends where its lengths say.
LEMMA BodyIsWhole ==
  ASSUME KeepInv, RecvBody, phase' = "footer"
  PROVE  /\ WholeBody(buf \o Received)
         /\ buf' = AsTaken(buf \o Received)
<1> DEFINE msg == buf \o Received
<1>1. /\ Addressed /\ Reading /\ Receive /\ phase \in {"fixed", "data"}
      /\ buf' = IF phase = "data" /\ Fc(buf) \in {16, 23} THEN WholeRegisters(msg) ELSE msg
      /\ phase = "fixed" => ~HasData(Fc(buf))
  BY DEF RecvBody, Reading, KeepInv, ServedInv
<1>2. /\ msg \in Seq(Byte) /\ Len(msg) = Len(buf) + Need /\ Need \in Nat /\ Len(buf) \in Nat
      /\ \A i \in 1..Len(buf) : msg[i] = buf[i]
  BY <1>1, ReadBehind
<1> HIDE DEF msg
<1>3. Len(buf) >= 2 /\ Fc(buf) \in Functions
  BY <1>1 DEF KeepInv, Places
<1>4. Fc(msg) = Fc(buf) /\ FixedEnd(msg) = FixedEnd(buf) /\ Len(msg) >= 2
  <2>1. 2 \in 1..Len(buf) /\ Len(msg) >= 2
    BY <1>2, <1>3
  <2> QED
    BY <1>2, <2>1 DEF Fc, FixedEnd
<1>5. CASE phase = "fixed"
  <2>1. Len(buf) = 2 /\ Need = FixedLen(Fc(buf)) /\ ~HasData(Fc(msg))
    BY <1>1, <1>4, <1>5 DEF KeepInv, Places, Need
  <2>2. Len(msg) = FixedEnd(msg) /\ DataLen(msg) = 0
    BY <1>2, <1>4, <2>1 DEF FixedEnd, DataLen
  <2>3. WholeBody(msg)
    BY <1>2, <1>3, <1>4, <2>2 DEF WholeBody
  <2>4. Fc(msg) \notin {16, 23} /\ buf' = msg
    BY <1>1, <1>5, <2>1 DEF HasData, Writes
  <2> QED
    BY <2>3, <2>4 DEF AsTaken, msg
<1>6. CASE phase = "data"
  <2>1. HasData(Fc(buf)) /\ Len(buf) = FixedEnd(buf) /\ Need = buf[Len(buf)]
    BY <1>6 DEF KeepInv, Places, Need
  <2>2. msg[Len(buf)] = buf[Len(buf)]
    <3>1. Len(buf) \in 1..Len(buf)
      BY <1>2, <1>3
    <3> QED
      BY <1>2, <3>1
  <2>3. DataLen(msg) = Need
    BY <1>4, <2>1, <2>2 DEF DataLen
  <2>4. FixedEnd(msg) <= Len(msg) /\ Len(msg) = FixedEnd(msg) + DataLen(msg)
    BY <1>2, <1>4, <2>1, <2>3
  <2>5. WholeBody(msg)
    BY <1>3, <1>4, <2>4 DEF WholeBody
  <2>6. buf' = AsTaken(msg)
    BY <1>1, <1>4, <1>6 DEF AsTaken
  <2> QED
    BY <2>5, <2>6 DEF msg
<1> QED
  BY <1>1, <1>5, <1>6

LEMMA OrderAtBody ==
  ASSUME KeepInv, Bounded, NEW p \in 0..Len(heard), DealtWith(p), StillToCome(p), RecvBody
  PROVE  (DealtWith(p) /\ StillToCome(p))'
<1>1. /\ Addressed /\ Reading /\ Receive /\ heard' = heard /\ faults' = faults /\ ran' = ran
      /\ replies' = replies /\ phase' \in {"data", "footer"} /\ phase \in {"fixed", "data"}
      /\ phase' = "data" => buf' = buf \o Received
  BY DEF RecvBody, KeepInv, ServedInv, Reading, busVars, NothingRead
<1>2. MayHold(Later(p), faults, line) /\ MayHold(Later(p), faults, buf \o line)
  BY <1>1 DEF StillToCome, ReadSoFar, InRequest
<1>3. buf \o Received \in Seq(Byte)
  BY <1>1, ReceivedBytes
<1>4. phase' = "footer" => WholeBody(buf \o Received) /\ buf' = AsTaken(buf \o Received)
  BY BodyIsWhole
<1> QED
  BY <1>1, <1>2, <1>3, <1>4, OrderPieceBehind

\* A request whose checksum is right is one of the frames still to come.
LEMMA RequestSeparated ==
  ASSUME TrafficSeparates, KeepInv, Bounded, NEW p \in 0..Len(heard), StillToCome(p),
         phase = "footer", Receive, CrcMatches, ~ignored
  PROVE  \E q \in p + 1..Len(heard) :
           heard[q] = buf \o Received /\ MayHold(Later(q), faults, line')
<1>1. /\ Addressed /\ Reading /\ ForUs(buf) /\ line \in Seq(Byte)
      /\ Need = 2 /\ Need \in Nat /\ Need <= Len(line)
  BY DEF KeepInv, ServedInv, Addressed, Reading, InRequest, Need, Receive
<1>2. Received \in Seq(Byte) /\ Len(Received) = 2 /\ line' \in Seq(Byte)
  BY <1>1, ReceivedBytes
<1>3. PICK raw \in Seq(Byte) : ReadSoFar(raw) /\ MayHold(Later(p), faults, raw \o line)
  BY DEF StillToCome, InRequest
<1>4. WholeBody(raw) /\ buf = AsTaken(raw)
  BY <1>3 DEF ReadSoFar
<1>5. Received \o line' = line
  <2>1. (<<>> \o SubSeq(line, 1, Need)) \o SubSeq(line, Need + 1, Len(line)) = <<>> \o line
    BY <1>1, BehindNothing, ReadMoves, Zenon
  <2>2. Received = SubSeq(line, 1, Need) /\ line' = SubSeq(line, Need + 1, Len(line))
    BY DEF Received, Receive
  <2> QED
    BY <1>1, <1>2, <2>1, <2>2, BehindNothing, Zenon
<1>6. MayHold(Later(p), faults, raw \o (Received \o line'))
  BY <1>3, <1>5, Zenon
<1>7. ForUs(raw)
  <2>1. raw # <<>>
    BY <1>4, EmptySeq DEF WholeBody
  <2>2. ForUs(WholeRegisters(raw)) = ForUs(raw)
    BY <2>1, WholeRegistersSameUnit
  <2> QED
    BY <1>1, <1>4, <2>2 DEF AsTaken
<1>8. Word(Received, 1) = Crc(AsTaken(raw))
  BY <1>4 DEF CrcMatches
<1>9. /\ Later(p) \in Seq(Frames) /\ Len(Later(p)) = Len(heard) - p /\ Len(heard) \in Nat
      /\ \A j \in 1..Len(heard) - p : Later(p)[j] = heard[p + j]
  BY LaterFrames DEF Later, Bounded
<1>10. Len(Later(p)) <= MaxFrames /\ faults \in 0..MaxFaults
  BY <1>9, BoundsAssumption DEF Bounded
<1>11. PICK j \in 1..Len(Later(p)) :
         /\ Later(p)[j] = AsTaken(raw) \o Received
         /\ MayHold(SubSeq(Later(p), j + 1, Len(Later(p))), faults, line')
  BY <1>2, <1>4, <1>6, <1>7, <1>8, <1>9, <1>10, Zenon DEF TrafficSeparates
<1>12. p + j \in p + 1..Len(heard) /\ j \in 1..Len(heard) - p
  BY <1>9
<1>13. heard[p + j] = buf \o Received
  BY <1>4, <1>9, <1>11, <1>12
<1>14. SubSeq(Later(p), j + 1, Len(Later(p))) = Later(p + j)
  BY <1>12, LaterStill DEF Later, Bounded
<1> QED
  BY <1>11, <1>12, <1>13, <1>14, Zenon

LEMMA OrderAtRefused ==
  ASSUME TrafficSeparates, KeepInv, Bounded, NEW p \in 0..Len(heard), DealtWith(p),
         StillToCome(p), RecvFooterRefused
  PROVE  \E q \in 0..Len(heard) : (DealtWith(q) /\ StillToCome(q))'
<1>1. /\ phase = "footer" /\ Receive /\ CrcMatches /\ ~ignored /\ phase' = "returned"
      /\ heard' = heard /\ faults' = faults /\ ran' = ran
      /\ \E code : replies' = Reply(buf \o Received, ExceptionResponse(buf, code))
  BY DEF RecvFooterRefused, Return, busVars
<1>2. PICK q \in p + 1..Len(heard) :
        heard[q] = buf \o Received /\ MayHold(Later(q), faults, line')
  BY <1>1, RequestSeparated
<1>3. q \in 0..Len(heard) /\ q \in Nat /\ p \in Nat /\ p < q /\ p <= q
  BY DEF Bounded
<1>4. OccursBy(ran, heard, q) /\ OccursBy(Answered, heard, p)
  BY <1>1, <1>3, OccursLater DEF DealtWith
<1>5. IsSequence(Answered) /\ Answered' = Append(Answered, buf \o Received)
  BY <1>1, AnsweredOneMore DEF KeepInv, ServedInv
<1>6. OccursBy(Append(Answered, buf \o Received), heard, q)
  BY <1>2, <1>3, <1>4, <1>5, OccursOneMore
<1>7. DealtWith(q)'
  BY <1>1, <1>4, <1>5, <1>6 DEF DealtWith
<1>8. StillToCome(q)'
  BY <1>1, <1>2 DEF StillToCome, Later, InRequest
<1> QED
  BY <1>3, <1>7, <1>8

LEMMA OrderAtAccepted ==
  ASSUME TrafficSeparates, KeepInv, Bounded, NEW p \in 0..Len(heard), DealtWith(p),
         StillToCome(p), RecvFooterAccepted
  PROVE  \E q \in 0..Len(heard) : (DealtWith(q) /\ StillToCome(q))'
<1>1. /\ phase = "footer" /\ Receive /\ CrcMatches /\ ~ignored /\ phase' = "callback"
      /\ heard' = heard /\ faults' = faults /\ replies' = replies
      /\ buf' = buf \o Received /\ ran' = Append(ran, buf \o Received)
  BY DEF RecvFooterAccepted, busVars
<1>2. PICK q \in p + 1..Len(heard) :
        heard[q] = buf \o Received /\ MayHold(Later(q), faults, line')
  BY <1>1, RequestSeparated
<1>3. /\ q \in 0..Len(heard) /\ q \in Nat /\ p \in Nat /\ p < q /\ q >= 1
      /\ q - 1 \in Nat /\ p <= q - 1
  BY DEF Bounded
<1>4. OccursBy(ran, heard, p) /\ OccursBy(Answered, heard, q - 1)
  BY <1>1, <1>3, OccursLater DEF DealtWith
<1>5. OccursBy(Append(ran, buf \o Received), heard, q)
  BY <1>2, <1>3, <1>4, OccursOneMore DEF KeepInv, ServedInv
<1>6. Answered' = Answered
  BY <1>1 DEF Answered
<1>7. DealtWith(q)'
  BY <1>1, <1>2, <1>3, <1>4, <1>5, <1>6 DEF DealtWith
<1>8. StillToCome(q)'
  BY <1>1, <1>2 DEF StillToCome, Later, InRequest
<1> QED
  BY <1>3, <1>7, <1>8

\* The callback answers the frame that was dealt with last, or does not.
LEMMA OrderAtAnswer ==
  ASSUME KeepInv, Bounded, NEW p \in 0..Len(heard), DealtWith(p), StillToCome(p), AnyAnswer
  PROVE  (DealtWith(p) /\ StillToCome(p))'
<1>1. /\ phase = "callback" /\ phase' = "returned" /\ line' = line
      /\ heard' = heard /\ faults' = faults /\ ran' = ran
      /\ replies' = replies \/ \E response : replies' = Reply(buf, response)
  <2>1. PICK code, regs : Answer(code, regs)
    BY DEF AnyAnswer
  <2>2. phase = "callback"
    BY DEF AnyAnswer
  <2> QED
    BY <2>1, <2>2, Zenon DEF Answer, Return, busVars
<1>2. /\ p \in Nat /\ p >= 1 /\ heard[p] = buf /\ OccursBy(ran, heard, p)
      /\ OccursBy(Answered, heard, p - 1) /\ p - 1 \in Nat /\ p - 1 < p
  BY <1>1 DEF DealtWith
<1>3. CASE replies' = replies
  <2>1. DealtWith(p)'
    BY <1>1, <1>2, <1>3, NothingMoreDealt
  <2>2. StillToCome(p)'
    BY <1>1 DEF StillToCome, Later, InRequest
  <2> QED
    BY <2>1, <2>2
<1>4. CASE \E response : replies' = Reply(buf, response)
  <2>1. IsSequence(Answered) /\ Answered' = Append(Answered, buf)
    BY <1>4, AnsweredOneMore DEF KeepInv, ServedInv
  <2>2. OccursBy(Append(Answered, buf), heard, p)
    BY <1>2, <2>1, OccursOneMore
  <2>3. DealtWith(p)'
    BY <1>1, <1>2, <2>1, <2>2 DEF DealtWith
  <2>4. StillToCome(p)'
    BY <1>1 DEF StillToCome, Later, InRequest
  <2> QED
    BY <2>3, <2>4
<1> QED
  BY <1>1, <1>3, <1>4

\* A frame more on the bus comes behind all that is still to come.
LEMMA OrderSent ==
  ASSUME KeepInv, Bounded, NEW p \in 0..Len(heard), DealtWith(p), StillToCome(p),
         NEW frame \in Frames, Send(frame)
  PROVE  p \in 0..Len(heard') /\ (DealtWith(p) /\ StillToCome(p))'
<1>1. /\ line' = line \o frame /\ heard' = Append(heard, frame) /\ buf' = buf
      /\ phase' = phase /\ faults' = faults /\ ran' = ran /\ replies' = replies
  BY DEF Send, serverVars
<1>2. /\ heard \in Seq(Frames) /\ line \in Seq(Byte) /\ faults \in Nat /\ frame \in Seq(Byte)
      /\ p \in Nat
  BY FramesAssumption DEF Bounded, KeepInv, ServedInv, Addressed
<1>3. /\ Later(p)' = Append(Later(p), frame) /\ Later(p) \in Seq(Frames)
      /\ p \in 0..Len(heard') /\ \A k \in 1..p : heard'[k] = heard[k]
  BY <1>1, <1>2, LaterMore, LaterFrames DEF Later
<1>4. ASSUME NEW s \in Seq(Byte), MayHold(Later(p), faults, s)
      PROVE  MayHold(Later(p)', faults', s \o frame)
  <2>1. MayHold(Append(Later(p), frame), faults, s \o frame)
    BY <1>2, <1>3, <1>4, HoldsMore, Zenon
  <2> QED
    BY <1>1, <1>3, <2>1, Zenon
<1>5. StillToCome(p)'
  <2>1. MayHold(Later(p)', faults', line')
    BY <1>1, <1>2, <1>4, Zenon DEF StillToCome
  <2>2. ASSUME phase \in InRequest
        PROVE  \E raw \in Seq(Byte) : ReadSoFar(raw)' /\ MayHold(Later(p)', faults', raw \o line')
    <3>1. PICK raw \in Seq(Byte) : ReadSoFar(raw) /\ MayHold(Later(p), faults, raw \o line)
      BY <2>2 DEF StillToCome
    <3>2. raw \o line \in Seq(Byte)
      BY <1>2, BothStand, Zenon
    <3>3. MayHold(Later(p)', faults', (raw \o line) \o frame)
      BY <1>4, <3>1, <3>2, Zenon
    <3>4. raw \o (line \o frame) = (raw \o line) \o frame
      BY <1>2, BytesAssociate, Zenon
    <3>5. ReadSoFar(raw)'
      BY <1>1, <3>1 DEF ReadSoFar
    <3> QED
      BY <1>1, <3>3, <3>4, <3>5, Zenon
  <2> QED
    BY <1>1, <2>1, <2>2, Zenon DEF StillToCome
<1>6. DealtWith(p)'
  <2>1. Answered' = Answered
    BY <1>1 DEF Answered
  <2>2. OccursBy(ran, heard', p)
    BY <1>2, <1>3, OccursLater DEF DealtWith
  <2>3. CASE phase = "callback"
    <3>1. p >= 1 /\ heard[p] = buf /\ OccursBy(Answered, heard, p - 1)
      BY <2>3 DEF DealtWith
    <3>2. p - 1 \in Nat /\ p - 1 <= p - 1 /\ p \in 1..p /\ 1..(p - 1) \subseteq 1..p
      BY <1>2, <3>1
    <3>3. \A k \in 1..(p - 1) : heard'[k] = heard[k]
      BY <1>3, <3>2, Zenon
    <3>4. OccursBy(Answered, heard', p - 1)
      BY <3>1, <3>2, <3>3, OccursLater, Zenon
    <3> QED
      BY <1>1, <1>3, <2>1, <2>2, <2>3, <3>1, <3>2, <3>4 DEF DealtWith
  <2>4. CASE phase # "callback"
    <3>1. OccursBy(Answered, heard', p)
      BY <1>2, <1>3, <2>4, OccursLater DEF DealtWith
    <3> QED
      BY <1>1, <2>1, <2>2, <2>4, <3>1 DEF DealtWith
  <2> QED
    BY <2>3, <2>4
<1> QED
  BY <1>3, <1>5, <1>6

LEMMA OrderDisturbed ==
  ASSUME KeepInv, Bounded, NEW p \in 0..Len(heard), DealtWith(p), StillToCome(p),
         Disturb \/ Overflow
  PROVE  (DealtWith(p) /\ StillToCome(p))'
<1>1. /\ heard' = heard /\ buf' = buf /\ phase' = phase /\ faults' = faults + 1
      /\ ran' = ran /\ replies' = replies
  BY DEF Disturb, Overflow, Fault, serverVars
<1>2. /\ Later(p) \in Seq(Frames) /\ line \in Seq(Byte) /\ faults \in Nat
  BY LaterIsFrames DEF Bounded, KeepInv, ServedInv, Addressed
<1>3. Later(p)' = Later(p) /\ Answered' = Answered
  BY <1>1 DEF Later, Answered
<1>4. DealtWith(p)'
  BY <1>1, <1>3 DEF DealtWith
<1>5. MayHold(Later(p), faults + 1, line')
  BY <1>2, DisturbedLine, OverflownLine DEF StillToCome
<1>6. ASSUME phase \in InRequest
      PROVE  \E raw \in Seq(Byte) : ReadSoFar(raw)' /\ MayHold(Later(p), faults + 1, raw \o line')
  <2>1. PICK raw \in Seq(Byte) : ReadSoFar(raw) /\ MayHold(Later(p), faults, raw \o line)
    BY <1>6 DEF StillToCome
  <2>2. Disturb
    BY <1>6 DEF Overflow, Reading, InRequest
  <2>3. MayHold(Later(p), faults + 1, raw \o line')
    BY <1>2, <2>1, <2>2, DisturbedBehind
  <2>4. ReadSoFar(raw)'
    BY <1>1, <2>1 DEF ReadSoFar
  <2> QED
    BY <2>3, <2>4
<1>7. StillToCome(p)'
  BY <1>1, <1>3, <1>5, <1>6, Zenon DEF StillToCome
<1> QED
  BY <1>4, <1>7

\* Where nothing was sent, nothing is on the line and nothing was dealt with.
LEMMA NothingOccurs ==
  ASSUME NEW some, DOMAIN some = {}, NEW all
  PROVE  OccursBy(some, all, 0)
<1> DEFINE place == [i \in {} |-> 0]
<1>1. place \in [DOMAIN some -> 1..0]
  OBVIOUS
<1> QED
  BY <1>1, Zenon DEF OccursBy

LEMMA InitOrder == Init => OrderInv
<1> SUFFICES ASSUME Init PROVE OrderInv
  OBVIOUS
<1>1. /\ heard = <<>> /\ faults = 0 /\ line = <<>> /\ ran = <<>> /\ replies = <<>>
      /\ phase = "unit"
  BY DEF Init
<1>2. Bounded /\ 0 \in 0..Len(heard)
  BY <1>1, BoundsAssumption DEF Bounded
<1>3. DOMAIN ran = {} /\ DOMAIN Answered = {}
  BY <1>1 DEF Answered
<1>4. DealtWith(0)
  BY <1>1, <1>3, NothingOccurs DEF DealtWith
<1>5. Later(0) = <<>>
  BY <1>1 DEF Later
<1>6. StillToCome(0)
  BY <1>1, <1>5, HoldsNothing DEF StillToCome, InRequest
<1> QED
  BY <1>2, <1>4, <1>6 DEF OrderInv

LEMMA OrderAnew ==
  ASSUME StartAnew
  PROVE  OrderInv'
<1>1. /\ heard' = <<>> /\ faults' = 0 /\ line' = <<>> /\ ran' = <<>> /\ replies' = <<>>
      /\ phase' = "unit"
  BY DEF StartAnew, serverVars
<1>2. Bounded' /\ 0 \in 0..Len(heard')
  BY <1>1, BoundsAssumption DEF Bounded
<1>3. DOMAIN ran' = {} /\ DOMAIN Answered' = {}
  BY <1>1 DEF Answered
<1>4. DealtWith(0)'
  BY <1>1, <1>3, NothingOccurs DEF DealtWith
<1>5. Later(0)' = <<>>
  BY <1>1 DEF Later
<1>6. StillToCome(0)'
  BY <1>1, <1>5, HoldsNothing DEF StillToCome, InRequest
<1> QED
  BY <1>2, <1>4, <1>6 DEF OrderInv

LEMMA OrderLeftBehind ==
  ASSUME KeepInv, Bounded, NEW p \in 0..Len(heard), DealtWith(p), StillToCome(p),
         \/ Poll \/ RecvFooterBad \/ RecvFooterIgnored \/ RecvResUnit \/ RecvResFc
         \/ RecvResBody \/ RecvResFooter \/ Timeout \/ FlushFull \/ Restart
  PROVE  (DealtWith(p) /\ StillToCome(p))'
<1>1. /\ Addressed /\ line \in Seq(Byte) /\ Later(p) \in Seq(Frames) /\ faults \in Nat
      /\ p \in Nat /\ MayHold(Later(p), faults, line)
  BY LaterIsFrames DEF KeepInv, ServedInv, Addressed, Bounded, StillToCome
<1>2. /\ heard' = heard /\ faults' = faults /\ ran' = ran /\ replies' = replies
  BY DEF Poll, RecvFooterBad, RecvFooterIgnored, RecvResUnit, RecvResFc, RecvResBody,
         RecvResFooter, Timeout, GiveUp, FlushFull, Restart, busVars, NothingRead
<1>3. phase' \notin InRequest /\ phase' # "callback"
  BY DEF Poll, RecvFooterBad, RecvFooterIgnored, RecvResUnit, RecvResFc, RecvResBody,
         RecvResFooter, Timeout, GiveUp, FlushFull, Restart, Started, InRequest, Return, Fail
<1>4. CASE Restart
  BY <1>1, <1>2, <1>3, <1>4, RestartedLine, OrderOutOfRequest
<1>5. CASE ~Restart
  <2>1. line' = line \/ line' = <<>> \/ (Reading /\ Receive)
    BY <1>5 DEF Poll, RecvFooterBad, RecvFooterIgnored, RecvResUnit, RecvResFc, RecvResBody,
                RecvResFooter, Timeout, GiveUp, FlushFull, Reading
  <2>2. MayHold(Later(p), faults, line')
    BY <1>1, <2>1, LeftBehind
  <2> QED
    BY <1>1, <1>2, <1>3, <2>2, OrderOutOfRequest
<1> QED
  BY <1>4, <1>5

LEMMA OrderKept ==
  ASSUME TrafficSeparates, KeepInv, OrderInv, [AnyNext]_vars
  PROVE  OrderInv'
<1>1. Bounded /\ Bounded'
  BY BoundedKept DEF OrderInv
<1>2. PICK p \in 0..Len(heard) : DealtWith(p) /\ StillToCome(p)
  BY DEF OrderInv
<1>3. CASE RecvUnit \/ RecvFc \/ RecvBody
  <2>1. heard' = heard
    BY <1>3 DEF RecvUnit, RecvFc, RecvBody, busVars
  <2>2. (DealtWith(p) /\ StillToCome(p))'
    BY <1>1, <1>2, <1>3, OrderAtUnit, OrderAtFc, OrderAtBody
  <2> QED
    BY <1>1, <2>1, <2>2 DEF OrderInv
<1>4. CASE RecvFooterRefused \/ RecvFooterAccepted
  <2>1. heard' = heard
    BY <1>4 DEF RecvFooterRefused, RecvFooterAccepted, busVars
  <2>2. \E q \in 0..Len(heard) : (DealtWith(q) /\ StillToCome(q))'
    BY <1>1, <1>2, <1>4, OrderAtRefused, OrderAtAccepted
  <2> QED
    BY <1>1, <2>1, <2>2 DEF OrderInv
<1>5. CASE \/ Poll \/ RecvFooterBad \/ RecvFooterIgnored \/ RecvResUnit \/ RecvResFc
           \/ RecvResBody \/ RecvResFooter \/ Timeout \/ FlushFull \/ Restart
  <2>1. heard' = heard
    BY <1>5 DEF Poll, RecvFooterBad, RecvFooterIgnored, RecvResUnit, RecvResFc, RecvResBody,
                RecvResFooter, Timeout, GiveUp, FlushFull, Restart, busVars
  <2>2. (DealtWith(p) /\ StillToCome(p))'
    BY <1>1, <1>2, <1>5, OrderLeftBehind
  <2> QED
    BY <1>1, <2>1, <2>2 DEF OrderInv
<1>6. CASE AnyAnswer
  <2>1. heard' = heard
    BY <1>6, Zenon DEF AnyAnswer, Answer, busVars
  <2>2. (DealtWith(p) /\ StillToCome(p))'
    BY <1>1, <1>2, <1>6, OrderAtAnswer
  <2> QED
    BY <1>1, <2>1, <2>2 DEF OrderInv
<1>7. CASE \E frame \in Frames : Send(frame)
  <2>1. p \in 0..Len(heard') /\ (DealtWith(p) /\ StillToCome(p))'
    BY <1>1, <1>2, <1>7, OrderSent
  <2> QED
    BY <1>1, <2>1 DEF OrderInv
<1>8. CASE Disturb \/ Overflow
  <2>1. heard' = heard
    BY <1>8 DEF Disturb, Overflow, Fault
  <2>2. (DealtWith(p) /\ StillToCome(p))'
    BY <1>1, <1>2, <1>8, OrderDisturbed
  <2> QED
    BY <1>1, <2>1, <2>2 DEF OrderInv
<1>9. CASE StartAnew
  BY <1>9, OrderAnew
<1>10. CASE UNCHANGED vars
  <2>1. /\ line' = line /\ phase' = phase /\ buf' = buf /\ heard' = heard
        /\ faults' = faults /\ ran' = ran /\ replies' = replies
    BY <1>10 DEF vars, serverVars, busVars
  <2>2. (DealtWith(p) /\ StillToCome(p))'
    BY <1>2, <2>1 DEF DealtWith, StillToCome, Later, Answered, ReadSoFar
  <2> QED
    BY <1>1, <2>1, <2>2 DEF OrderInv
<1> QED
  BY <1>3, <1>4, <1>5, <1>6, <1>7, <1>8, <1>9, <1>10 DEF AnyNext, ServerStep, RecvFooter, Bus

LEMMA OrderMeans == OrderInv => RanWereSent /\ RepliesAnswerRequests
<1> SUFFICES ASSUME OrderInv PROVE RanWereSent /\ RepliesAnswerRequests
  OBVIOUS
<1>1. PICK p \in 0..Len(heard) : DealtWith(p)
  BY DEF OrderInv
<1>2. /\ heard \in Seq(Frames) /\ DOMAIN heard = 1..Len(heard) /\ Len(heard) \in Nat
      /\ p \in Nat /\ p <= Len(heard)
  BY DEF OrderInv, Bounded
<1>3. OccursIn(ran, heard)
  BY <1>1, <1>2, OccursByMeans DEF DealtWith
<1>4. OccursIn(Answered, heard)
  <2>1. CASE phase = "callback"
    <3>1. p >= 1 /\ OccursBy(Answered, heard, p - 1)
      BY <1>1, <2>1 DEF DealtWith
    <3>2. p - 1 \in Nat /\ p - 1 <= Len(heard)
      BY <1>2, <3>1
    <3> QED
      BY <1>2, <3>1, <3>2, OccursByMeans
  <2>2. CASE phase # "callback"
    BY <1>1, <1>2, <2>2, OccursByMeans DEF DealtWith
  <2> QED
    BY <2>1, <2>2
<1> QED
  BY <1>3, <1>4 DEF RanWereSent, RepliesAnswerRequests

LEMMA OrderInductive ==
  ASSUME TrafficSeparates
  PROVE  /\ Init => KeepInv /\ OrderInv
         /\ (KeepInv /\ OrderInv) /\ [AnyNext]_vars => (KeepInv /\ OrderInv)'
<1>1. Init => KeepInv /\ OrderInv
  BY KeepInductive, InitOrder
<1>2. (KeepInv /\ OrderInv) /\ [AnyNext]_vars => (KeepInv /\ OrderInv)'
  BY KeepInductive, OrderKept
<1> QED
  BY <1>1, <1>2

\* A callback runs at most once for a frame, and in the order of the frames, wherever
\* bytes were lost or garbled and the controller restarted: what was taken for a
\* request is off the line before the next one is looked for.
THEOREM RanWereSentHolds ==
  ASSUME TrafficSeparates
  PROVE  Spec => []RanWereSent
<1>1. Init => KeepInv /\ OrderInv
  BY OrderInductive
<1>2. (KeepInv /\ OrderInv) /\ [Next]_vars => (KeepInv /\ OrderInv)'
  BY NextIsAny, OrderInductive
<1>3. KeepInv /\ OrderInv => RanWereSent
  BY OrderMeans
<1> QED
  BY <1>1, <1>2, <1>3, PTL DEF Spec

\* And no frame is answered twice or out of its turn, with an exception or with what
\* its callback returned.
THEOREM RepliesAnswerRequestsHolds ==
  ASSUME TrafficSeparates
  PROVE  Spec => []RepliesAnswerRequests
<1>1. Init => KeepInv /\ OrderInv
  BY OrderInductive
<1>2. (KeepInv /\ OrderInv) /\ [Next]_vars => (KeepInv /\ OrderInv)'
  BY NextIsAny, OrderInductive
<1>3. KeepInv /\ OrderInv => RepliesAnswerRequests
  BY OrderMeans
<1> QED
  BY <1>1, <1>2, <1>3, PTL DEF Spec
=============================================================================

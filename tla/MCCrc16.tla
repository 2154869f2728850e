------------------------------- MODULE MCCrc16 -------------------------------
(***************************************************************************)
(* The checksum of Crc16 for TLC, which would compute it bit by bit for    *)
(* every message it reads.                                                 *)
(***************************************************************************)
EXTENDS Crc16

(***************************************************************************)
(* The checksum a byte at a time, by tables TLC computes once: what the    *)
(* eight shifts make of a byte, and the exclusive or of two bytes.         *)
(***************************************************************************)
Shifted == [b \in 0..255 |-> AddByte(0, b)]

ByteXor == [a \in 0..255 |-> [b \in 0..255 |-> a ^^ b]]

\* The low byte meets the data, the high byte moves down.  Bound variables
\* instead of LET, because TLC evaluates them once also inside of ENABLED.
FastAddByte(crc, byte) ==
  CHOOSE sum \in {256 * (Shifted[low] \div 256) + ByteXor[high][Shifted[low] % 256] :
                    <<low, high>> \in {<<ByteXor[c % 256][byte], c \div 256>> : c \in {crc}}} :
    TRUE

RealCrc(bytes) == SwapBytes(FoldLeft(FastAddByte, 65535, bytes))

\* A byte adds to a checksum what the source adds: for the initial value, and for
\* each bit alone, of which all the others are exclusive ors.
ASSUME SameChecksum ==
  \A crc \in {2^k : k \in 0..15} \cup {0, 65535} : \A byte \in 0..255 :
    FastAddByte(crc, byte) = AddByte(crc, byte)
=============================================================================

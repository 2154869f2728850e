-------------------------------- MODULE PsBits --------------------------------
(***************************************************************************)
(* The frames the controller exchanges with the 200 A supply, bit by bit:  *)
(* the positions of src/powerSupply/PowerSupply200AConsts.h and the bit    *)
(* operations of class PowerSupply (src/powerSupply/PowerSupply200A.hpp).  *)
(*                                                                         *)
(* A buffer is the function from the position of a bit, as the driver      *)
(* counts them, to its value: position 8 * i + k is bit k of byte i.       *)
(***************************************************************************)
EXTENDS Integers

\* Frame from the supply, BUF_LEN_IN bytes.
InBits                    == 0..47
psCurrentPos              == 8
psCurrentLen              == 12
psVoltagePos              == 24
psVoltageLen              == 12
psStatusErrorColectivePos == 40
psStatusErrorExternalPos  == 41
psStatusRemoteControlPos  == 42
psStatusPowerCircuitPos   == 43
psStatusPolarisation1Pos  == 44
psStatusPolarisation2Pos  == 45

\* Frame to the supply, BUF_LEN_OUT bytes.
OutBits                      == 0..31
psOUTCurrentPos              == 0
psOUTCurrentLen              == 16
psOUTPowerCircuitPos         == 17
psOUTPsResetPos              == 18
psOUTElectronicResetPos      == 20
psOUTConfirmCurrentWrite1Pos == 21
psOUTConfirmCurrentWrite2Pos == 23
greenLed                     == 24
redLed                       == 25

maxPossibleValue(len) == 2^len - 1

Bit(b) == IF b THEN 1 ELSE 0
-----------------------------------------------------------------------------
getBit(buf, pos) == buf[pos]

setBit(buf, pos, value) == [buf EXCEPT ![pos] = value]

\* Faulty variant: off by one, pos + len - i.
revarseBitsFaulty(buf, pos, len) ==
  [p \in DOMAIN buf |->
    IF p \in pos..pos + len - 1 THEN buf[(pos + pos + len) - p] ELSE buf[p]]

\* The bits of a field change places with their mirror images.
revarseBits(buf, pos, len) ==
  [p \in DOMAIN buf |->
    IF p \in pos..pos + len - 1 THEN buf[(pos + pos + len - 1) - p] ELSE buf[p]]

\* Faulty variant: the lowest position taken for the highest bit.
readUintFaulty(buf, pos, len) ==
  LET val[i \in 0..len] ==
        IF i = 0 THEN 0 ELSE 2 * val[i - 1] + Bit(getBit(buf, pos + i - 1))
  IN  val[len]

\* From the highest bit, which has the highest position.
readUint(buf, pos, len) ==
  LET val[i \in 0..len] ==
        IF i = 0 THEN 0 ELSE 2 * val[i - 1] + Bit(getBit(buf, pos + len - i))
  IN  val[len]

\* The field as it is before it is reversed: bit i of the value at pos + i.
plainUint(buf, val, pos, len) ==
  [p \in DOMAIN buf |->
    IF p \in pos..pos + len - 1 THEN (val \div 2^(p - pos)) % 2 = 1 ELSE buf[p]]

\* Faulty variant: the field is reversed as a whole instead of byte by byte.
setUintFaulty(buf, val, pos, len) ==
  revarseBits(plainUint(buf, val, pos, len), pos, len)

\* With revarse set, the way setCurrent calls it.
setUint(buf, val, pos, len) ==
  revarseBits(revarseBits(plainUint(buf, val, pos, len), pos, 8), pos + 8, 8)
-----------------------------------------------------------------------------
(***************************************************************************)
(* Writes of psBufOut.  What they carry of each other's bits decides       *)
(* whether one parameter disturbs another.                                 *)
(***************************************************************************)
setCurrentWrite(buf, st) ==
  setBit(setBit(buf, psOUTConfirmCurrentWrite1Pos, st), psOUTConfirmCurrentWrite2Pos, st)

setCurrent(buf, val) ==
  setUint(setCurrentWrite(buf, TRUE), val, psOUTCurrentPos, psOUTCurrentLen)

\* Faulty variant: one position too far.
setPowerCircuitFaulty(buf, st) ==
  setBit(setCurrentWrite(buf, TRUE), psOUTPowerCircuitPos + 1, st)

setPowerCircuit(buf, st) ==
  setBit(setCurrentWrite(buf, TRUE), psOUTPowerCircuitPos, st)

setReset(buf, st) ==
  setBit(setCurrentWrite(buf, TRUE), psOUTPsResetPos, st)

setElectronicReset(buf, st) ==
  setBit(setCurrentWrite(buf, TRUE), psOUTElectronicResetPos, st)

setLedGreen(buf, st) == setBit(buf, greenLed, st)

setLedRed(buf, st) == setBit(buf, redLed, st)
-----------------------------------------------------------------------------
(***************************************************************************)
(* The wire.  comunicateWithPS writes and reads six words at the same      *)
(* time, most significant bit first; the frame to the supply is two words  *)
(* shorter, and its first word goes out three times.  The supply shifts    *)
(* all of them through a register that keeps the last 32 bits.             *)
(***************************************************************************)
Words == 6

\* Faulty variant: the last word is repeated instead.
outIndexFaulty(wordNr) == IF wordNr < 3 THEN wordNr ELSE 3

\* out_i, the byte of psBufOut that is sent with word wordNr.
outIndex(wordNr) == IF wordNr < 2 THEN 0 ELSE wordNr - 2

\* The supply's register after the last word, in the order of arrival.
Register(buf) ==
  [k \in OutBits |-> buf[8 * outIndex((Words - 4) + (k \div 8)) + (7 - (k % 8))]]

\* Where the bit at a position of psBufOut is found in the register.
Arrival(pos) == 8 * (pos \div 8) + (7 - (pos % 8))

\* The supply reads the current from the 16 bits that arrived first, the lowest
\* bit first, and its control bits from where the driver's positions put them.
CurrentArrived(reg) ==
  LET sum[i \in 0..psOUTCurrentLen] ==
        IF i = 0 THEN 0 ELSE sum[i - 1] + Bit(reg[i - 1]) * 2^(i - 1)
  IN  sum[psOUTCurrentLen]

Arrived(reg, pos) == reg[Arrival(pos)]

\* What the supply sends: a reading of its meters and error lines, its mode and
\* its circuit.  Of the two numbers the bit with the lowest position is the lowest.
StatusFrame(reading, remote, on) ==
  [p \in InBits |->
    \/ /\ p \in psCurrentPos..psCurrentPos + psCurrentLen - 1
       /\ (reading.current \div 2^(p - psCurrentPos)) % 2 = 1
    \/ /\ p \in psVoltagePos..psVoltagePos + psVoltageLen - 1
       /\ (reading.voltage \div 2^(p - psVoltagePos)) % 2 = 1
    \/ p = psStatusErrorColectivePos /\ reading.colective
    \/ p = psStatusErrorExternalPos /\ reading.external
    \/ p = psStatusRemoteControlPos /\ remote
    \/ p = psStatusPowerCircuitPos /\ on
    \/ p = psStatusPolarisation1Pos /\ reading.polarisation1
    \/ p = psStatusPolarisation2Pos /\ reading.polarisation2]
=============================================================================

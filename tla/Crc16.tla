-------------------------------- MODULE Crc16 --------------------------------
(***************************************************************************)
(* The checksum of Modbus RTU frames as src/nanomodbus/nanomodbus.c        *)
(* computes it, on 16-bit words held in integers.                          *)
(***************************************************************************)
EXTENDS Integers, Sequences, SequencesExt, Bitwise

\* crc >>= 1, and crc ^= 0xA001 if the bit that fell out was set.
ShiftBit(crc) ==
  IF crc % 2 = 1 THEN (crc \div 2) ^^ 40961 ELSE crc \div 2

\* crc ^= data[i], then the eight shifts.
AddByte(crc, byte) ==
  LET f[j \in 0..8] == IF j = 0 THEN crc ^^ byte ELSE ShiftBit(f[j - 1])
  IN  f[8]

\* The bytes of a word exchanged, as nmbs_crc_calc returns it.
SwapBytes(word) == 256 * (word % 256) + word \div 256

nmbs_crc_calc(data) == SwapBytes(FoldLeft(AddByte, 65535, data))
=============================================================================

---------------------------- MODULE ModbusHandlers ----------------------------
(***************************************************************************)
(* The two request callbacks of src/modbusServer/ModbusServer.cpp as       *)
(* functions of the request: what they refuse, how handleWriteData decodes *)
(* the coils, and how handleReadData packs what the power supply reports   *)
(* into three registers.  The calls they make on the power supply are      *)
(* steps of the modules that use this one.                                 *)
(*                                                                         *)
(* A request is the sequence of its bytes, as in NmbsServer.               *)
(***************************************************************************)
EXTENDS Integers, Sequences

ILLEGAL_ADDRESS == 2   \* NMBS_EXCEPTION_ILLEGAL_DATA_ADDRESS
ILLEGAL_VALUE   == 3   \* NMBS_EXCEPTION_ILLEGAL_DATA_VALUE

\* The enum PowerSupplyParameter.
IS_ON    == 0
POLARITY == 1
RESET    == 2
CURRENT  == 3

\* The widths PowerSupplyInterface gives to what is read.
currentReadBits == 12
voltageReadBits == 12
errorReadBits   == 2

FirstAddress(msg) == 256 * msg[3] + msg[4]
Quantity(msg)     == 256 * msg[5] + msg[6]

Bit(flag) == IF flag THEN 1 ELSE 0
-----------------------------------------------------------------------------
(***************************************************************************)
(* handleReadData.                                                         *)
(***************************************************************************)
REGISTERS_READ_SIZE == 3

ReadRefused(msg) == FirstAddress(msg) # 0 \/ Quantity(msg) # REGISTERS_READ_SIZE

\* registers_out, for what the getters of the power supply return.
RegistersOf(ps) ==
  LET setPolarityBit == voltageReadBits + errorReadBits
  IN  << (ps.current + Bit(ps.isOn) * 2^currentReadBits
                     + Bit(ps.polarity) * 2^(currentReadBits + 1)
                     + Bit(ps.reset) * 2^(currentReadBits + 2)
                     + Bit(ps.remote) * 2^(currentReadBits + 3)) % 2^16,
         (ps.voltage + ps.errors * 2^voltageReadBits
                     + Bit(ps.polaritySet) * 2^setPolarityBit
                     + Bit(ps.isOnSet) * 2^(setPolarityBit + 1)) % 2^16,
         ps.currentSet >>
-----------------------------------------------------------------------------
(***************************************************************************)
(* handleWriteData.                                                        *)
(***************************************************************************)
WRITTEN_DATA_TYPE_COILS == 2
COILS_WRITE_MIN_COUNT   == WRITTEN_DATA_TYPE_COILS + 1

WriteRefused(msg) == FirstAddress(msg) # 0 \/ Quantity(msg) < COILS_WRITE_MIN_COUNT

\* nmbs_bitfield_read: coils are numbered from the lowest bit of the first byte.
Coil(msg, i) == (msg[8 + i \div 8] \div 2^(i % 8)) % 2

DataType(msg) == 2 * Coil(msg, 1) + Coil(msg, 0)

\* The other coils, highest bit first, in a uint16_t.  Up to 32 coils the
\* shifts stay within an int.
Value(msg) ==
  LET sum[i \in 1..Quantity(msg) - 1] ==
        IF i < WRITTEN_DATA_TYPE_COILS THEN 0
        ELSE sum[i - 1] + Coil(msg, i) * 2^(Quantity(msg) - i - 1)
  IN  sum[Quantity(msg) - 1] % 2^16
=============================================================================

---------------------------- MODULE MCModbusServer ----------------------------
(***************************************************************************)
(* Model values for ModbusServer: requests that read everything, switch    *)
(* the supply and set its current, one of a data type it does not know,    *)
(* and a message of another unit.                                          *)
(***************************************************************************)
EXTENDS ModbusServer, NmbsTraffic, MCCrc16

FrameOf(bytes) == bytes \o Bytes2(RealCrc(bytes))

ReadAll     == FrameOf(<<1, 4, 0, 0, 0, 3>>)
ReadWrong   == FrameOf(<<1, 4, 0, 1, 0, 3>>)
SwitchOn    == FrameOf(<<1, 15, 0, 0, 0, 3, 1, 4>>)
SwitchOff   == FrameOf(<<0, 15, 0, 0, 0, 3, 1, 0>>)
SetCurrent  == FrameOf(<<1, 15, 0, 0, 0, 3, 1, 7>>)
SetPolarity == FrameOf(<<1, 15, 0, 0, 0, 3, 1, 5>>)
ForeignRead == FrameOf(<<2, 4, 0, 0, 0, 3>>)

ServerFrames == {ReadAll, ReadWrong, SwitchOn, SwitchOff, SetCurrent, SetPolarity, ForeignRead}

\* Endless traffic: a request that reaches the supply, one that is refused before,
\* and one that changes the supply.
EndlessFrames == {ReadAll, ReadWrong, SwitchOff}
Refused       == {ReadWrong, ForeignRead}

NoNoise == {}

\* On an undisturbed bus nothing that a restart cuts in two is taken for a request.
ASSUME UndisturbedTraffic == MaxFaults = 0 => TrafficIsSafe(Frames)
-----------------------------------------------------------------------------
\* What the callbacks may return at all, for ImplementsServer.
AnyResult(msg) == {0, ILLEGAL_DATA_ADDRESS, ILLEGAL_DATA_VALUE}

AnyRegisters(msg) ==
  {Handlers!RegistersOf(
     [current |-> c, voltage |-> 0, isOn |-> on, polarity |-> FALSE, reset |-> FALSE,
      remote |-> r, errors |-> 0, polaritySet |-> FALSE, isOnSet |-> onSet, currentSet |-> set]) :
   c \in 0..MaxIn, on \in BOOLEAN, r \in BOOLEAN, onSet \in BOOLEAN, set \in 0..MaxOut}
=============================================================================

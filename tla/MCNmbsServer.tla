---------------------------- MODULE MCNmbsServer ----------------------------
(***************************************************************************)
(* Model values for NmbsServer: the frames of tests/modbusTests.cpp, some  *)
(* traffic of another unit, and the callbacks of ModbusServer on a power   *)
(* supply that may report any of the states the tests report.              *)
(***************************************************************************)
EXTENDS NmbsTraffic, MCCrc16

Handlers == INSTANCE ModbusHandlers

\* A frame without its checksum, completed.
Frame(bytes) == bytes \o Bytes2(RealCrc(bytes))
-----------------------------------------------------------------------------
(***************************************************************************)
(* Frames, checksums included, as the tests spell them.                    *)
(***************************************************************************)
ReadAll       == <<1, 4, 0, 0, 0, 3, 176, 11>>
WriteFull     == <<1, 15, 0, 0, 0, 18, 3, 255, 255, 3, 233, 180>>
WriteZero     == <<1, 15, 0, 0, 0, 18, 3, 3, 0, 0, 40, 117>>
WriteCurrent  == <<1, 15, 0, 0, 0, 18, 3, 23, 52, 2, 255, 112>>
SwitchOn      == <<1, 15, 0, 0, 0, 3, 1, 4, 142, 148>>
SwitchOff     == <<1, 15, 0, 0, 0, 3, 1, 0, 143, 87>>
SetPolarity   == <<1, 15, 0, 0, 0, 3, 1, 5, 79, 84>>
ClearPolarity == <<1, 15, 0, 0, 0, 3, 1, 1, 78, 151>>
SetReset      == <<1, 15, 0, 0, 0, 3, 1, 6, 15, 85>>
ClearReset    == <<1, 15, 0, 0, 0, 3, 1, 2, 14, 150>>

RandomByte      == <<171>>
ReadInputs      == <<1, 2, 0, 0, 0, 22, 249, 196>>
WriteWrongCoil  == <<1, 15, 0, 1, 0, 18, 3, 255, 255, 3, 249, 116>>
WriteTwoCoils   == <<1, 15, 0, 0, 0, 2, 1, 0, 222, 151>>
WriteWrongCount == <<1, 15, 0, 0, 0, 18, 1, 255, 255, 3, 232, 12>>
ReadWrongFirst  == <<1, 4, 0, 1, 0, 3, 225, 203>>
ReadNone        == <<1, 4, 0, 1, 0, 0, 161, 202>>

\* Frames the tests have none of.
ReadPastEnd    == Frame(<<1, 4, 255, 255, 0, 3>>)
WriteRegister  == Frame(<<1, 6, 0, 0, 0, 1>>)
WriteSingle    == Frame(<<1, 5, 0, 0, 255, 0>>)
WriteHolding   == Frame(<<1, 16, 0, 0, 0, 1, 2, 0, 7>>)
ReadWrite      == Frame(<<1, 23, 0, 0, 0, 1, 0, 0, 0, 1, 2, 0, 7>>)
ReadFile       == Frame(<<1, 20, 7, 6, 0, 1, 0, 0, 0, 1>>)
WriteFile      == Frame(<<1, 21, 9, 6, 0, 1, 0, 0, 0, 1, 0, 7>>)
WriteFileOdd   == Frame(<<1, 21, 8, 6, 0, 1, 0, 0, 0, 0, 7>>)
WriteFileLong  == Frame(<<1, 21, 7, 6, 0, 1, 0, 0, 0, 1>>)
UnknownFunction == Frame(<<1, 7>>)
SwitchAllOn    == Frame(<<0, 15, 0, 0, 0, 3, 1, 4>>)

\* Unit 2 is asked for two registers, or to write a coil, and answers.
ForeignRead      == Frame(<<2, 4, 0, 0, 0, 2>>)
ForeignRegisters == Frame(<<2, 4, 4, 1, 15, 0, 7>>)
ForeignException == Frame(<<2, 132, 2>>)
ForeignWrite     == Frame(<<2, 15, 0, 0, 0, 3, 1, 4>>)
ForeignWritten   == Frame(<<2, 15, 0, 0, 0, 3>>)
ForeignReadFile  == Frame(<<2, 20, 7, 6, 0, 1, 0, 0, 0, 1>>)
ForeignFile      == Frame(<<2, 20, 4, 3, 6, 0, 9>>)
ForeignWriteFile == Frame(<<2, 21, 9, 6, 0, 1, 0, 0, 0, 1, 0, 7>>)
-----------------------------------------------------------------------------
(***************************************************************************)
(* The callbacks.                                                          *)
(***************************************************************************)

\* What the power supplies of ModbusServerReadTest report.
TestSupplies ==
  { [current |-> 4095, voltage |-> 4095, isOn |-> TRUE, polarity |-> TRUE, reset |-> TRUE,
     remote |-> TRUE, errors |-> 3, polaritySet |-> TRUE, isOnSet |-> TRUE, currentSet |-> 43690],
    [current |-> 0, voltage |-> 0, isOn |-> FALSE, polarity |-> FALSE, reset |-> FALSE,
     remote |-> FALSE, errors |-> 0, polaritySet |-> FALSE, isOnSet |-> FALSE, currentSet |-> 0],
    [current |-> 291, voltage |-> 1110, isOn |-> FALSE, polarity |-> TRUE, reset |-> FALSE,
     remote |-> TRUE, errors |-> 1, polaritySet |-> FALSE, isOnSet |-> FALSE, currentSet |-> 48350],
    [current |-> 2748, voltage |-> 3567, isOn |-> TRUE, polarity |-> FALSE, reset |-> TRUE,
     remote |-> FALSE, errors |-> 2, polaritySet |-> FALSE, isOnSet |-> TRUE, currentSet |-> 6424] }

TestRegisters(msg) == {Handlers!RegistersOf(ps) : ps \in TestSupplies}

\* What is read does not matter to how the server goes on.
SomeRegisters(msg) == {<<0, 0, 0>>}

\* MockPowerSupply takes every data type, POLARITY and RESET too.
TestResults(msg) ==
  IF (IF Fc(msg) = 4 THEN Handlers!ReadRefused(msg) ELSE Handlers!WriteRefused(msg))
  THEN {Handlers!ILLEGAL_ADDRESS} ELSE {0}
-----------------------------------------------------------------------------
(***************************************************************************)
(* Traffic.                                                                *)
(***************************************************************************)
WritesOfCurrent == {WriteFull, WriteZero, WriteCurrent}
WritesOfOneBit  == {SwitchOn, SwitchOff, SetPolarity, ClearPolarity, SetReset, ClearReset}

\* All that tests/modbusTests.cpp sends, and a frame of every other kind.
TestRequests ==
  WritesOfCurrent \cup WritesOfOneBit \cup
  {ReadAll, RandomByte, ReadInputs, WriteWrongCoil, WriteTwoCoils, WriteWrongCount,
   ReadWrongFirst, ReadNone}

TestFrames ==
  TestRequests \cup
  {ReadPastEnd, WriteRegister, WriteSingle, WriteHolding, ReadWrite, ReadFile, WriteFile,
   WriteFileOdd, WriteFileLong, SwitchAllOn}

SharedFrames ==
  {ReadAll, SwitchAllOn, ForeignRead, ForeignRegisters, ForeignException,
   ForeignWrite, ForeignWritten, ForeignReadFile, ForeignFile, ForeignWriteFile}

LiveFrames == {ReadAll, ForeignRead, UnknownFunction}

FlushFrames == {ReadAll, ForeignRead, ForeignRegisters}

OneUnknown == {WriteRegister, ReadInputs}

NoNoise == {}
SomeNoise == {0, 4}
OneNoise  == {2}

\* The bus of nmbs_live, with a byte garbled or lost anywhere, and a full UART, makes
\* nothing that is taken for a request and was not sent.
ASSUME LiveTraffic == Frames = LiveFrames => TrafficIsSafe(Frames)
-----------------------------------------------------------------------------
(***************************************************************************)
(* Properties.                                                             *)
(***************************************************************************)

\* What another unit answers to a request of the model.
AnswersOf(frame) ==
  CASE frame = ForeignRead      -> {ForeignRegisters, ForeignException}
    [] frame = ForeignWrite     -> {ForeignWritten}
    [] frame = ForeignReadFile  -> {ForeignFile}
    [] frame = ForeignWriteFile -> {ForeignWriteFile}
    [] OTHER                    -> {}

OnlyAnswers == {ForeignRegisters, ForeignException, ForeignWritten, ForeignFile}

\* Every request for another unit is followed by its answer before anything
\* else is sent, and no such answer comes unasked.  `awaited' holds the answers
\* that may come next, {<<>>} once the order was broken.
Orderly ==
  <<>> \notin FoldLeft(LAMBDA awaited, frame :
                        IF awaited = {} /\ frame \notin OnlyAnswers THEN AnswersOf(frame)
                        ELSE IF frame \in awaited THEN {} ELSE {<<>>},
                      {}, heard)

\* On an orderly bus without faults and restarts, where the other unit answers
\* before the server stops waiting for it, the server answers every request for
\* it, each one once and in order, however the requests mingle with the requests
\* and answers of another unit and however much of the traffic is on the line
\* already when it reads (handle_req_fc, recv_res_header, recv_*_res).
AllAnswered ==
  Orderly /\ faults = 0 /\ restarts = 0 /\ ~late /\ phase = "unit" /\ line = <<>> =>
    Answered = SelectSeq(heard, LAMBDA f : Unit(f) = Address)

\* The responses tests/modbusTests.cpp expects; none to RandomByte and to
\* WriteWrongCount, whose checksum is not where it is looked for.
Written(quantity, crc) == <<1, 15, 0, 0, 0, quantity>> \o crc

Tested(request) ==
  CASE request = ReadAll ->
         { <<1, 4, 6, 255, 255, 255, 255, 170, 170, 158, 115>>,
           <<1, 4, 6, 0, 0, 0, 0, 0, 0, 96, 147>>,
           <<1, 4, 6, 161, 35, 20, 86, 188, 222, 169, 93>>,
           <<1, 4, 6, 90, 188, 173, 239, 25, 24, 39, 113>> }
    [] request \in WritesOfCurrent -> {Written(18, <<213, 198>>)}
    [] request \in WritesOfOneBit  -> {Written(3, <<21, 202>>)}
    [] request = ReadInputs -> {<<1, 130, 1, 129, 96>>}
    [] request \in {WriteWrongCoil, WriteTwoCoils} -> {<<1, 143, 2, 197, 241>>}
    [] request = ReadWrongFirst -> {<<1, 132, 2, 194, 193>>}
    [] request = ReadNone -> {<<1, 132, 3, 3, 1>>}
    [] OTHER -> {}

\* The data type and the value that reach the power supply in the tests.
AskedInTests(request) ==
  CASE request = WriteFull     -> <<Handlers!CURRENT, 65535>>
    [] request = WriteZero     -> <<Handlers!CURRENT, 0>>
    [] request = WriteCurrent  -> <<Handlers!CURRENT, 41137>>
    [] request = SwitchOn      -> <<Handlers!IS_ON, 1>>
    [] request = SwitchOff     -> <<Handlers!IS_ON, 0>>
    [] request = SetPolarity   -> <<Handlers!POLARITY, 1>>
    [] request = ClearPolarity -> <<Handlers!POLARITY, 0>>
    [] request = SetReset      -> <<Handlers!RESET, 1>>
    [] request = ClearReset    -> <<Handlers!RESET, 0>>

\* The server has dealt with requests of the tests alone, none of them disturbed.  The
\* lone byte comes last: the byte behind it would be taken for its function code.
TestsOnly ==
  /\ faults = 0 /\ restarts = 0 /\ phase = "unit" /\ line = <<>>
  /\ \A i \in DOMAIN heard :
       heard[i] \in TestRequests /\ (heard[i] = RandomByte => i = Len(heard))

\* The requests of the tests get the responses the tests expect, to the last byte,
\* each exactly one and those without a response none, also when they follow one
\* another without a pause; among other traffic and faults they get no others.  A
\* write reaches the power supply with the data type and the value the tests expect.
AnsweredAsTested ==
  /\ \A i \in DOMAIN replies :
       replies[i].to \in TestRequests => replies[i].bytes \in Tested(replies[i].to)
  /\ TestsOnly => Answered = SelectSeq(heard, LAMBDA f : Tested(f) # {})
  /\ \A i \in DOMAIN ran :
       ran[i] \in WritesOfCurrent \cup WritesOfOneBit =>
         <<Handlers!DataType(ran[i]), Handlers!Value(ran[i])>> = AskedInTests(ran[i])
=============================================================================

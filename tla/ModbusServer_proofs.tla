-------------------------- MODULE ModbusServer_proofs --------------------------
(***************************************************************************)
(* Proofs about the composition of the bus server and the driver.          *)
(*                                                                         *)
(* Seen from the bus a step of the firmware is a step of the server whose  *)
(* callbacks answer anything, and seen from the supply it is a step of the *)
(* driver that is asked for anything: the two invariants proved of those   *)
(* hold here, and CallInv says what the one call in progress relates.      *)
(***************************************************************************)
EXTENDS ModbusServer, NmbsTraffic_proofs, TLAPS

SupplyProofs == INSTANCE PowerSupply200A_proofs
-----------------------------------------------------------------------------

\* Each step of the server keeps the supply's side as it is, and the steps of
\* the supply's side keep the server's: the two meet in the callbacks and after
\* a poll that failed.
LEMMA ControllerKeepsOneThread ==
  ASSUME OneThread, Controller
  PROVE  OneThread'
<1>1. CASE PollStep
  BY <1>1 DEF OneThread, PollStep, supplyVars
<1>2. CASE handleReadData
  <2>1. CASE Refuse(ILLEGAL_DATA_ADDRESS)
    BY <1>2, <2>1 DEF OneThread, handleReadData, Entering, Refuse, supplyVars
  <2>2. CASE Calling(Supply!Refresh)
    BY <1>2, <2>2
    DEF OneThread, handleReadData, Entering, Calling, vars, serverVars
  <2> QED
    BY <1>2, <2>1, <2>2 DEF handleReadData
<1>3. CASE handleWriteData
  <2>1. ASSUME NEW code, Refuse(code)
        PROVE  OneThread'
    BY <1>3, <2>1 DEF OneThread, handleWriteData, Entering, Refuse, supplyVars
  <2>2. ASSUME caller' = "callback", since' = events, UNCHANGED <<vars, events>>
        PROVE  OneThread'
    BY <1>3, <2>2 DEF OneThread, handleWriteData, Entering, vars, serverVars
  <2> QED
    BY <1>3, <2>1, <2>2 DEF handleWriteData, Calling
<1>4. CASE CommunicateStep
  <2>1. caller # "none"
    BY <1>4
    DEF OneThread, CommunicateStep, Supply!Communicate, Supply!Exchange,
        Supply!FinishAveraging, Supply!SyncExchange
  <2> QED
    BY <1>4, <2>1 DEF OneThread, CommunicateStep, vars, serverVars
<1>5. CASE CallbackReturns
  BY <1>5 DEF OneThread, CallbackReturns, supplyVars
<1>6. CASE RefreshAfterError
  BY <1>6 DEF OneThread, RefreshAfterError, vars, serverVars
<1>7. CASE PollAfterRefresh
  BY <1>7 DEF OneThread, PollAfterRefresh, supplyVars
<1> QED
  BY <1>1, <1>2, <1>3, <1>4, <1>5, <1>6, <1>7 DEF Controller

\* The bus and the supply go on by themselves and call nobody, and a restart
\* leaves nobody calling.
LEMMA WorldKeepsOneThread ==
  ASSUME OneThread, BusStep \/ SupplyStep \/ FirmwareRestart
  PROVE  OneThread'
<1>1. CASE BusStep
  <2>1. UNCHANGED <<phase, result>>
    BY <1>1 DEF BusStep, Bus, Send, Disturb, Overflow, StartAnew, Fault, serverVars
  <2> QED
    BY <1>1, <2>1 DEF OneThread, BusStep, supplyVars
<1>2. CASE SupplyStep
  <2>1. pc' = pc
    BY <1>2
    DEF SupplyStep, Supply!Supply, Supply!PanelMode, Supply!PanelAdjust, Supply!Trip,
        Supply!TouchDevice, Supply!driverVars
  <2>2. events' \in 0..MaxEvents
    BY <1>2, EventsAssumption DEF SupplyStep, OneThread
  <2> QED
    BY <1>2, <2>1, <2>2, EventsAssumption DEF OneThread, SupplyStep, vars, serverVars
<1>3. CASE FirmwareRestart
  BY <1>3 DEF OneThread, FirmwareRestart, Supply!Reboot
<1> QED
  BY <1>1, <1>2, <1>3

LEMMA OneThreadKept == OneThread /\ [FirmwareNext]_allVars => OneThread'
<1> SUFFICES ASSUME OneThread, [FirmwareNext]_allVars
             PROVE  OneThread'
  OBVIOUS
<1>1. CASE UNCHANGED allVars
  BY <1>1 DEF OneThread, allVars, vars, serverVars, supplyVars
<1>2. CASE FirmwareNext
  BY <1>2, ControllerKeepsOneThread, WorldKeepsOneThread DEF FirmwareNext
<1> QED
  BY <1>1, <1>2

\* The controller talks to the supply for the request it is handling, or between
\* two polls, and never while it reads the bus.
THEOREM OneThreadHolds == FirmwareSpec => []OneThread
<1>1. FirmwareInit => OneThread
  BY EventsAssumption DEF FirmwareInit, Init, Supply!Init, OneThread
<1> QED
  BY <1>1, OneThreadKept, PTL DEF FirmwareSpec
-----------------------------------------------------------------------------
(***************************************************************************)
(* A step of the firmware, seen from the bus and seen from the supply.     *)
(***************************************************************************)

\* What a client may ask for: a request has more bits than the frame's field.
Currents == 0..MaxOut \cup {Handlers!Value(msg) : msg \in Seq(Byte)}

LEMMA SupplyConstants ==
  /\ MaxIn \in Nat \ {0} /\ MaxOut \in Nat \ {0}
  /\ AvrgComponentCount \in Nat /\ Scale \in Nat \ {0}
  /\ SupplyProofs!Wide(Currents)
BY SupplyAssumption, Zenon DEF SupplyProofs!Wide, Currents

\* The three ways a write request goes on.
LEMMA WriteCases ==
  ASSUME handleWriteData
  PROVE  /\ Entering /\ Fc(buf) = 15
         /\ \/ \E code \in {ILLEGAL_DATA_ADDRESS, ILLEGAL_DATA_VALUE} : Refuse(code)
            \/ /\ Handlers!DataType(buf) = Handlers!IS_ON
               /\ Calling(Supply!SetStatusIsOn(Handlers!Value(buf)))
            \/ /\ Handlers!DataType(buf) = Handlers!CURRENT
               /\ Calling(Supply!SetStatusCurrent(Handlers!Value(buf)))
BY Zenon DEF handleWriteData

LEMMA ReadCases ==
  ASSUME handleReadData
  PROVE  /\ Entering /\ Fc(buf) = 4
         /\ Refuse(ILLEGAL_DATA_ADDRESS) \/ Calling(Supply!Refresh)
BY DEF handleReadData

\* From the bus, a step of the firmware is one of the server or none.
LEMMA ServerPart == [FirmwareNext]_allVars => [SequenceNext]_vars
<1> SUFFICES ASSUME [FirmwareNext]_allVars
             PROVE  [SequenceNext]_vars
  OBVIOUS
<1>1. CASE UNCHANGED allVars
  BY <1>1 DEF allVars
<1>2. CASE PollStep \/ PollAfterRefresh
  BY <1>2 DEF PollStep, PollAfterRefresh, ServerStep, SequenceNext
<1>3. ASSUME phase = "callback", NEW code, NEW regs, Len(regs) \in Nat, Answer(code, regs)
      PROVE  SequenceNext
  BY <1>3 DEF SequenceNext, SequenceAnswer
<1>4. ASSUME NEW code, phase = "callback", Refuse(code)
      PROVE  SequenceNext
  <2>1. Len(<<>>) \in Nat
    OBVIOUS
  <2> QED
    BY <1>3, <1>4, <2>1 DEF Refuse
<1>5. CASE handleReadData
  <2>1. CASE Refuse(ILLEGAL_DATA_ADDRESS)
    BY <1>4, <1>5, <2>1, ReadCases DEF Entering
  <2>2. CASE Calling(Supply!Refresh)
    BY <2>2 DEF Calling
  <2> QED
    BY <1>5, <2>1, <2>2, ReadCases
<1>6. CASE handleWriteData
  <2>1. ASSUME NEW code, Refuse(code)
        PROVE  SequenceNext
    BY <1>4, <1>6, <2>1, WriteCases DEF Entering
  <2>2. (\E code : Refuse(code)) \/ UNCHANGED vars
    BY <1>6, WriteCases DEF Calling
  <2> QED
    BY <2>1, <2>2
<1>7. CASE CallbackReturns
  <2> DEFINE regs == IF Fc(buf) = 4 THEN Handlers!RegistersOf(Report) ELSE <<>>
  <2>1. Len(Handlers!RegistersOf(Report)) \in Nat /\ Len(<<>>) \in Nat
    BY DEF Handlers!RegistersOf
  <2>2. Len(regs) \in Nat
    BY <2>1
  <2>3. phase = "callback" /\ Answer(0, regs)
    BY <1>7 DEF CallbackReturns
  <2> HIDE DEF regs
  <2> QED
    BY <1>3, <2>2, <2>3
<1>8. CASE CommunicateStep \/ RefreshAfterError \/ SupplyStep
  BY <1>8 DEF CommunicateStep, RefreshAfterError, SupplyStep
<1>9. CASE BusStep \/ FirmwareRestart
  BY <1>9 DEF BusStep, FirmwareRestart, SequenceNext
<1> QED
  BY <1>1, <1>2, <1>5, <1>6, <1>7, <1>8, <1>9 DEF FirmwareNext, Controller

\* The driver of the firmware and the driver of the proofs are one.
LEMMA SameDriver ==
  /\ Supply!Refresh => SupplyProofs!Refresh
  /\ \A value : Supply!SetStatusIsOn(value) => SupplyProofs!SetStatusIsOn(value)
  /\ \A value : Supply!SetStatusCurrent(value) => SupplyProofs!SetStatusCurrent(value)
  /\ Supply!Communicate => SupplyProofs!Communicate
  /\ Supply!Supply => SupplyProofs!Supply
  /\ Supply!Reboot => SupplyProofs!Reboot
  /\ Supply!Init => SupplyProofs!Init
<1>1. \A what : Supply!BeginCommunication(what) => SupplyProofs!BeginCommunication(what)
  BY Zenon DEF Supply!BeginCommunication, SupplyProofs!BeginCommunication
<1>2. \A b, st, v : /\ Supply!SetPowerCircuit(b, st) = SupplyProofs!SetPowerCircuit(b, st)
                   /\ Supply!SetCurrent(b, v) = SupplyProofs!SetCurrent(b, v)
  BY Zenon DEF Supply!SetPowerCircuit, SupplyProofs!SetPowerCircuit, Supply!SetCurrent,
     SupplyProofs!SetCurrent, Supply!SetCurrentWrite, SupplyProofs!SetCurrentWrite
<1>3. /\ Supply!Exchanges = SupplyProofs!Exchanges
      /\ \A a : Supply!Rounded(a) = SupplyProofs!Rounded(a)
      /\ \A a : Supply!SetpointLevel(a) = SupplyProofs!SetpointLevel(a)
  BY Zenon DEF Supply!Exchanges, SupplyProofs!Exchanges, Supply!Rounded, SupplyProofs!Rounded,
     Supply!SetpointLevel, SupplyProofs!SetpointLevel, Supply!FullScale, SupplyProofs!FullScale
<1>4. Supply!ExchangeFrame => SupplyProofs!ExchangeFrame
  BY Zenon DEF Supply!ExchangeFrame, SupplyProofs!ExchangeFrame, Supply!Status,
     SupplyProofs!Status, Supply!AfterFrame, SupplyProofs!AfterFrame, Supply!Accepts,
     SupplyProofs!Accepts, Supply!SetCurrentWrite, SupplyProofs!SetCurrentWrite
<1>5. /\ \A m : Supply!Exchange(m) => SupplyProofs!Exchange(m)
      /\ Supply!SyncExchange => SupplyProofs!SyncExchange
  BY <1>3, <1>4, Zenon DEF Supply!Exchange, SupplyProofs!Exchange, Supply!SyncExchange,
     SupplyProofs!SyncExchange
<1>6. Supply!FinishAveraging => SupplyProofs!FinishAveraging
  BY <1>2, <1>3, Zenon DEF Supply!FinishAveraging, SupplyProofs!FinishAveraging,
     Supply!IsRemote, SupplyProofs!IsRemote, Supply!IsPowerCircuitOn,
     SupplyProofs!IsPowerCircuitOn
<1>7. Supply!Communicate => SupplyProofs!Communicate
  BY <1>5, <1>6, Zenon DEF Supply!Communicate, SupplyProofs!Communicate
<1>8. Supply!Refresh => SupplyProofs!Refresh
  BY <1>1, Zenon DEF Supply!Refresh, SupplyProofs!Refresh
<1>9. \A value : Supply!SetStatusIsOn(value) => SupplyProofs!SetStatusIsOn(value)
  BY <1>1, <1>2, Zenon DEF Supply!SetStatusIsOn, SupplyProofs!SetStatusIsOn
<1>10. \A value : Supply!SetStatusCurrent(value) => SupplyProofs!SetStatusCurrent(value)
  BY <1>1, <1>2, Zenon DEF Supply!SetStatusCurrent, SupplyProofs!SetStatusCurrent
<1>11. Supply!Supply => SupplyProofs!Supply
  BY Zenon DEF Supply!Supply, SupplyProofs!Supply, Supply!PanelMode, SupplyProofs!PanelMode,
     Supply!PanelAdjust, SupplyProofs!PanelAdjust, Supply!Trip, SupplyProofs!Trip,
     Supply!TouchDevice, SupplyProofs!TouchDevice, Supply!Devices, SupplyProofs!Devices,
     Supply!driverVars, SupplyProofs!driverVars
<1>12. (Supply!Reboot => SupplyProofs!Reboot) /\ (Supply!Init => SupplyProofs!Init)
  BY Zenon DEF Supply!Reboot, SupplyProofs!Reboot, Supply!Init, SupplyProofs!Init,
     Supply!ConstructedOut, SupplyProofs!ConstructedOut, Supply!ConstructedIn,
     SupplyProofs!ConstructedIn, Supply!Devices, SupplyProofs!Devices
<1> QED
  BY <1>7, <1>8, <1>9, <1>10, <1>11, <1>12

\* From the supply, a step of the firmware is one of the driver or none.
LEMMA SupplyPart ==
  ASSUME buf \in Seq(Byte), [FirmwareNext]_allVars
  PROVE  [SupplyProofs!NextOf(Currents)]_(SupplyProofs!vars)
<1>1. Handlers!Value(buf) \in Currents
  BY DEF Currents
<1>2. UNCHANGED supplyVars => UNCHANGED SupplyProofs!vars
  BY DEF supplyVars, SupplyProofs!vars, SupplyProofs!driverVars, SupplyProofs!historyVars
<1>3. ASSUME SupplyProofs!Refresh
      PROVE  SupplyProofs!NextOf(Currents)
  BY <1>3 DEF SupplyProofs!NextOf, SupplyProofs!CallOf
<1>4. ASSUME SupplyProofs!SetStatusIsOn(Handlers!Value(buf))
             \/ SupplyProofs!SetStatusCurrent(Handlers!Value(buf))
      PROVE  SupplyProofs!NextOf(Currents)
  BY <1>1, <1>4 DEF SupplyProofs!NextOf, SupplyProofs!CallOf
<1>5. CASE UNCHANGED allVars
  BY <1>2, <1>5 DEF allVars
<1>6. CASE PollStep \/ PollAfterRefresh \/ BusStep \/ CallbackReturns
  BY <1>2, <1>6 DEF PollStep, PollAfterRefresh, BusStep, CallbackReturns
<1>7. CASE handleReadData
  BY <1>2, <1>3, <1>7, ReadCases, SameDriver DEF Refuse, Calling
<1>8. CASE handleWriteData
  <2>1. \/ UNCHANGED supplyVars
        \/ Supply!SetStatusIsOn(Handlers!Value(buf))
        \/ Supply!SetStatusCurrent(Handlers!Value(buf))
    BY <1>8, WriteCases DEF Refuse, Calling
  <2> QED
    BY <1>2, <1>4, <2>1, SameDriver
<1>9. CASE RefreshAfterError
  BY <1>3, <1>9, SameDriver DEF RefreshAfterError
<1>10. CASE CommunicateStep \/ SupplyStep \/ FirmwareRestart
  BY <1>10, SameDriver DEF CommunicateStep, SupplyStep, FirmwareRestart, SupplyProofs!NextOf
<1> QED
  BY <1>5, <1>6, <1>7, <1>8, <1>9, <1>10 DEF FirmwareNext, Controller
-----------------------------------------------------------------------------
(***************************************************************************)
(* The inductive invariant of the firmware: the server's, the driver's,    *)
(* and what ties the call in progress to the request in the buffer.        *)
(***************************************************************************)

\* The driver was asked for what the coils of the request say.
Asks(msg) ==
  \/ /\ Handlers!DataType(msg) = Handlers!CURRENT
     /\ asked = "current" /\ currentSet = Handlers!Value(msg)
  \/ /\ Handlers!DataType(msg) = Handlers!IS_ON
     /\ asked = IF Handlers!Value(msg) # 0 THEN "on" ELSE "off"

\* A call for a callback is about its request, and nobody has touched the supply
\* since it began unless an event was counted; a call for the loop asks nothing.
CallInv ==
  /\ caller = "callback" =>
       /\ Fc(buf) = 4 => asked = "none"
       /\ Fc(buf) = 15 => Asks(buf)
       /\ since = events => ~touched
  /\ caller = "loop" => asked = "none"

FirmwareInv ==
  /\ OneThread
  /\ ServedInv
  /\ Shape
  /\ SupplyProofs!SafetyOf(Currents)
  /\ CallInv

\* What a call that begins asks the driver for.
LEMMA CallAsks ==
  /\ Supply!Refresh => asked' = "none" /\ touched' = FALSE
  /\ \A value : Supply!SetStatusIsOn(value) =>
       asked' = (IF value # 0 THEN "on" ELSE "off") /\ touched' = FALSE
  /\ \A value : Supply!SetStatusCurrent(value) =>
       asked' = "current" /\ currentSet' = value /\ touched' = FALSE
BY DEF Supply!Refresh, Supply!SetStatusIsOn, Supply!SetStatusCurrent, Supply!BeginCommunication

\* What is left as it is by the steps that neither begin nor end a call.
LEMMA CallUndisturbed ==
  ASSUME CallInv, UNCHANGED <<buf, caller, events, since, asked, currentSet, touched>>
  PROVE  CallInv'
BY DEF CallInv, Asks

LEMMA CallKept ==
  ASSUME OneThread, CallInv, [FirmwareNext]_allVars
  PROVE  CallInv'
<1>1. CASE UNCHANGED allVars
  <2>1. UNCHANGED <<buf, caller, events, since, asked, currentSet, touched>>
    BY <1>1 DEF allVars, vars, serverVars, supplyVars
  <2> QED
    BY <2>1, CallUndisturbed
<1>2. ASSUME caller' = "none"
      PROVE  CallInv'
  BY <1>2 DEF CallInv
<1>3. CASE PollStep \/ PollAfterRefresh \/ CallbackReturns \/ FirmwareRestart
  BY <1>2, <1>3 DEF PollStep, PollAfterRefresh, CallbackReturns, FirmwareRestart
<1>4. CASE BusStep
  <2>1. UNCHANGED <<buf, caller, events, since, asked, currentSet, touched>>
    BY <1>4 DEF BusStep, Bus, Send, Disturb, Overflow, StartAnew, Fault, serverVars, supplyVars
  <2> QED
    BY <2>1, CallUndisturbed
<1>5. CASE CommunicateStep
  <2>1. UNCHANGED <<asked, currentSet, touched>>
    BY <1>5
    DEF CommunicateStep, Supply!Communicate, Supply!Exchange, Supply!FinishAveraging,
        Supply!SyncExchange
  <2>2. UNCHANGED <<buf, caller, events, since>>
    BY <1>5 DEF CommunicateStep, vars, serverVars
  <2> QED
    BY <2>1, <2>2, CallUndisturbed
<1>6. CASE SupplyStep
  <2>1. UNCHANGED <<buf, caller, since, asked, currentSet>>
    BY <1>6
    DEF SupplyStep, Supply!Supply, Supply!PanelMode, Supply!PanelAdjust, Supply!Trip,
        Supply!TouchDevice, Supply!driverVars, vars, serverVars
  <2>2. since' # events'
    BY <1>6, <2>1, EventsAssumption DEF SupplyStep, OneThread
  <2> QED
    BY <2>1, <2>2 DEF CallInv, Asks
<1>7. CASE RefreshAfterError
  BY <1>7, CallAsks DEF RefreshAfterError, CallInv
<1>8. CASE handleReadData
  <2>1. Entering /\ Fc(buf) = 4
    BY <1>8, ReadCases
  <2>2. CASE Refuse(ILLEGAL_DATA_ADDRESS)
    BY <1>2, <2>1, <2>2 DEF Refuse, Entering
  <2>3. CASE Calling(Supply!Refresh)
    <3>1. caller' = "callback" /\ buf' = buf /\ asked' = "none" /\ touched' = FALSE
      BY <2>3, CallAsks DEF Calling, vars, serverVars
    <3> QED
      BY <2>1, <3>1 DEF CallInv
  <2> QED
    BY <1>8, <2>2, <2>3, ReadCases
<1>9. CASE handleWriteData
  <2>1. Entering /\ Fc(buf) = 15
    BY <1>9, WriteCases
  <2>2. ASSUME NEW code, Refuse(code)
        PROVE  CallInv'
    BY <1>2, <2>1, <2>2 DEF Refuse, Entering
  <2>3. CASE /\ Handlers!DataType(buf) = Handlers!IS_ON
             /\ Calling(Supply!SetStatusIsOn(Handlers!Value(buf)))
    <3>1. /\ caller' = "callback" /\ buf' = buf /\ touched' = FALSE
          /\ asked' = IF Handlers!Value(buf) # 0 THEN "on" ELSE "off"
      BY <2>3, CallAsks DEF Calling, vars, serverVars
    <3>2. Asks(buf)'
      BY <2>3, <3>1 DEF Asks
    <3> QED
      BY <2>1, <3>1, <3>2 DEF CallInv
  <2>4. CASE /\ Handlers!DataType(buf) = Handlers!CURRENT
             /\ Calling(Supply!SetStatusCurrent(Handlers!Value(buf)))
    <3>1. /\ caller' = "callback" /\ buf' = buf /\ touched' = FALSE
          /\ asked' = "current" /\ currentSet' = Handlers!Value(buf)
      BY <2>4, CallAsks DEF Calling, vars, serverVars
    <3>2. Asks(buf)'
      BY <2>4, <3>1 DEF Asks
    <3> QED
      BY <2>1, <3>1, <3>2 DEF CallInv
  <2> QED
    BY <1>9, <2>2, <2>3, <2>4, WriteCases
<1> QED
  BY <1>1, <1>3, <1>4, <1>5, <1>6, <1>7, <1>8, <1>9 DEF FirmwareNext, Controller

LEMMA FirmwareInductive ==
  /\ FirmwareInit => FirmwareInv
  /\ FirmwareInv /\ [FirmwareNext]_allVars => FirmwareInv'
<1>1. ASSUME FirmwareInit
      PROVE  FirmwareInv
  <2>1. OneThread /\ CallInv
    BY <1>1, EventsAssumption DEF FirmwareInit, Init, Supply!Init, OneThread, CallInv
  <2>2. ServedInv /\ Shape
    BY <1>1, InitServed DEF FirmwareInit, Init, Shape
  <2>3. SupplyProofs!Init
    BY <1>1, SameDriver DEF FirmwareInit
  <2>4. SupplyProofs!SafetyOf(Currents)
    BY <2>3, SupplyConstants, SupplyProofs!SafetyOfInductive
  <2> QED
    BY <2>1, <2>2, <2>4 DEF FirmwareInv
<1>2. ASSUME FirmwareInv, [FirmwareNext]_allVars
      PROVE  FirmwareInv'
  <2>1. OneThread' /\ CallInv'
    BY <1>2, OneThreadKept, CallKept DEF FirmwareInv
  <2>2. ServedInv' /\ Shape'
    BY <1>2, ServerPart, SequenceIsAny, ServedKept, ShapeKept DEF FirmwareInv
  <2>3. buf \in Seq(Byte)
    BY <1>2 DEF FirmwareInv, ServedInv, Addressed
  <2>4. [SupplyProofs!NextOf(Currents)]_(SupplyProofs!vars)
    BY <1>2, <2>3, SupplyPart
  <2>5. SupplyProofs!SafetyOf(Currents)'
    BY <1>2, <2>4, SupplyConstants, SupplyProofs!SafetyOfInductive DEF FirmwareInv
  <2> QED
    BY <2>1, <2>2, <2>5 DEF FirmwareInv
<1> QED
  BY <1>1, <1>2

LEMMA FirmwareAlways == FirmwareSpec => []FirmwareInv
BY FirmwareInductive, PTL DEF FirmwareSpec
-----------------------------------------------------------------------------
(***************************************************************************)
(* What the responses say.                                                 *)
(***************************************************************************)

\* The bytes of a frame are those its checksum is put behind.
LEMMA FrameBytes ==
  ASSUME NEW S, NEW s \in Seq(S), NEW i \in 1..Len(s)
  PROVE  WithCrc(s)[i] = s[i]
<1> DEFINE sum == Bytes2(Crc(s))
           B   == {Crc(s) \div 256, Crc(s) % 256}
<1>1. sum \in Seq(B)
  BY DEF Bytes2
<1> HIDE DEF sum, B
<1>2. s \in Seq(S \cup B) /\ sum \in Seq(S \cup B)
  BY <1>1
<1>3. (s \o sum)[i] = s[i]
  BY <1>2
<1> QED
  BY <1>3 DEF WithCrc, sum

\* The n-th register is where a client looks for it.
Carries(bytes, regs, n) ==
  /\ bytes[2 * n + 2] = Bytes2(regs[n])[1]
  /\ bytes[2 * n + 3] = Bytes2(regs[n])[2]

\* A response to a read carries every register.
LEMMA ReadCarries ==
  ASSUME NEW msg, NEW regs, Len(regs) \in Nat, NEW n \in 1..Len(regs)
  PROVE  Carries(ReadResponse(msg, regs), regs, n)
<1> DEFINE head  == <<Unit(msg), Fc(msg), 2 * Len(regs)>>
           S     == {Unit(msg), Fc(msg), 2 * Len(regs)}
           At(i) == Bytes2(regs[(i + 1) \div 2])[2 - (i % 2)]
           len   == 2 * Len(regs)
           rest  == [i \in 1..len |-> At(i)]
           T     == {At(i) : i \in 1..len}
<1>1. head \in Seq(S) /\ Len(head) = 3
  OBVIOUS
<1>2. /\ len \in Nat /\ n \in Nat /\ 2 * n - 1 \in 1..len /\ 2 * n \in 1..len
      /\ 2 * n + 2 \in 1..3 + len /\ 2 * n + 3 \in 1..3 + len
  OBVIOUS
<1>3. At(2 * n - 1) = Bytes2(regs[n])[1] /\ At(2 * n) = Bytes2(regs[n])[2]
  <2>1. /\ ((2 * n - 1) + 1) \div 2 = n /\ 2 - ((2 * n - 1) % 2) = 1
        /\ (2 * n + 1) \div 2 = n /\ 2 - ((2 * n) % 2) = 2
    BY <1>2
  <2> QED
    BY <2>1, Zenon
<1>4. ReadResponse(msg, regs) = WithCrc(head \o rest)
  BY DEF ReadResponse
<1> HIDE DEF At, len
<1>5. /\ rest \in Seq(T) /\ Len(rest) = len
      /\ rest[2 * n - 1] = At(2 * n - 1) /\ rest[2 * n] = At(2 * n)
  <2>1. rest \in Seq(T) /\ Len(rest) = len
    <3>1. len \in Nat
      BY <1>2
    <3>2. rest \in [1..len -> T]
      OBVIOUS
    <3> HIDE DEF rest, T
    <3> QED
      BY <3>1, <3>2, LenProperties, SeqDef
  <2>2. \A i \in 1..len : rest[i] = At(i)
    OBVIOUS
  <2> QED
    BY <1>2, <2>1, <2>2, Zenon
<1> HIDE DEF head, S, rest, T
<1>6. head \in Seq(S \cup T) /\ rest \in Seq(S \cup T)
  BY <1>1, <1>5
<1>7. /\ head \o rest \in Seq(S \cup T) /\ Len(head \o rest) = 3 + len
      /\ (head \o rest)[2 * n + 2] = rest[2 * n - 1]
      /\ (head \o rest)[2 * n + 3] = rest[2 * n]
  <2>1. /\ Len(head) + Len(rest) = 3 + len
        /\ (2 * n + 2) - 3 = 2 * n - 1 /\ (2 * n + 3) - 3 = 2 * n
        /\ ~(2 * n + 2 <= 3) /\ ~(2 * n + 3 <= 3)
    BY <1>1, <1>2, <1>5
  <2>2. /\ head \o rest \in Seq(S \cup T) /\ Len(head \o rest) = Len(head) + Len(rest)
        /\ \A i \in 1..Len(head) + Len(rest) :
             (head \o rest)[i] = IF i <= Len(head) THEN head[i] ELSE rest[i - Len(head)]
    BY <1>6, ConcatProperties
  <2>3. \A i \in 1..3 + len :
          (head \o rest)[i] = IF i <= 3 THEN head[i] ELSE rest[i - 3]
    BY <1>1, <2>1, <2>2, Zenon
  <2>4. /\ (head \o rest)[2 * n + 2] = rest[(2 * n + 2) - 3]
        /\ (head \o rest)[2 * n + 3] = rest[(2 * n + 3) - 3]
    BY <1>2, <2>1, <2>3, Zenon
  <2> QED
    BY <2>1, <2>2, <2>4, Zenon
<1>8. 2 * n + 2 \in 1..Len(head \o rest) /\ 2 * n + 3 \in 1..Len(head \o rest)
  BY <1>2, <1>7, Zenon
<1>9. /\ WithCrc(head \o rest)[2 * n + 2] = At(2 * n - 1)
      /\ WithCrc(head \o rest)[2 * n + 3] = At(2 * n)
  BY <1>5, <1>7, <1>8, FrameBytes, Zenon
<1> QED
  BY <1>3, <1>4, <1>9, Zenon DEF Carries

\* The first of them as a number, and the third as two bytes.
LEMMA FirstAndThird ==
  ASSUME NEW msg, NEW regs, Len(regs) = 3, regs[1] \in Nat
  PROVE  LET bytes == ReadResponse(msg, regs)
         IN  Word(bytes, 4) = regs[1] /\ <<bytes[8], bytes[9]>> = Bytes2(regs[3])
<1> DEFINE bytes == ReadResponse(msg, regs)
           w     == regs[1]
<1>1. Len(regs) \in Nat /\ 1 \in 1..Len(regs) /\ 3 \in 1..Len(regs)
  OBVIOUS
<1>2. /\ bytes[2 * 1 + 2] = Bytes2(w)[1] /\ bytes[2 * 1 + 3] = Bytes2(w)[2]
      /\ bytes[2 * 3 + 2] = Bytes2(regs[3])[1] /\ bytes[2 * 3 + 3] = Bytes2(regs[3])[2]
  <2>1. Carries(bytes, regs, 1) /\ Carries(bytes, regs, 3)
    BY <1>1, ReadCarries
  <2> QED
    BY <2>1, Zenon DEF Carries
<1>3. 2 * 1 + 2 = 4 /\ 2 * 1 + 3 = 4 + 1 /\ 2 * 3 + 2 = 8 /\ 2 * 3 + 3 = 9
  OBVIOUS
<1>4. w \in Nat
  OBVIOUS
<1> HIDE DEF bytes, w
<1>5. bytes[4] = Bytes2(w)[1] /\ bytes[4 + 1] = Bytes2(w)[2]
      /\ bytes[8] = Bytes2(regs[3])[1] /\ bytes[9] = Bytes2(regs[3])[2]
  BY <1>2, <1>3, Zenon
<1>6. Word(bytes, 4) = w
  <2>1. bytes[4] = w \div 256 /\ bytes[5] = w % 256
    BY <1>5 DEF Bytes2
  <2>2. 256 * (w \div 256) + (w % 256) = w
    BY <1>4
  <2> QED
    BY <2>1, <2>2, SMT DEF Word
<1>7. <<bytes[8], bytes[9]>> = Bytes2(regs[3])
  <2>1. \A v : <<Bytes2(v)[1], Bytes2(v)[2]>> = Bytes2(v)
    BY DEF Bytes2
  <2> QED
    BY <1>5, <2>1, Zenon
<1> QED
  BY <1>6, <1>7 DEF bytes, w

\* The last response is the one just sent.
LEMMA JustSent ==
  ASSUME IsSequence(replies), NEW msg, NEW response, replies' = Reply(msg, response)
  PROVE  Last(replies').bytes = response
<1> DEFINE one == [to |-> msg, bytes |-> response]
<1> HIDE DEF one
<1>1. replies' = Append(replies, one)
  BY DEF Reply, one
<1>2. PICK S : replies \in Seq(S)
  BY DEF IsSequence
<1>3. replies \in Seq(S \cup {one})
  BY <1>2
<1>4. Append(replies, one)[Len(Append(replies, one))] = one
  BY <1>3
<1> QED
  BY <1>1, <1>4 DEF Last, one

\* Only the end of a callback sends a response that is no exception.
LEMMA WhoSends ==
  ASSUME FirmwareInv, FirmwareNext, NEW fc \in {4, 15}, Sends(fc)
  PROVE  /\ CallbackReturns
         /\ Fc(buf) = fc
         /\ fc = 4 => Last(replies').bytes = ReadResponse(buf, Handlers!RegistersOf(Report))
<1>1. /\ buf \in Seq(Byte) /\ IsSequence(replies)
      /\ phase = "callback" => Len(buf) >= 6
      /\ phase = "footer" => Len(buf) >= 2
  BY DEF FirmwareInv, ServedInv, Addressed, Shape
<1>2. replies' # replies
  <2>1. Len(replies) \in Nat
    BY <1>1 DEF IsSequence
  <2> QED
    BY <2>1 DEF Sends
<1>3. ASSUME Len(buf) >= 2, NEW msg, NEW code, replies' = Reply(msg, ExceptionResponse(buf, code))
      PROVE  FALSE
  <2>1. Last(replies').bytes = ExceptionResponse(buf, code)
    BY <1>1, <1>3, JustSent
  <2>2. Last(replies').bytes[2] = Fc(buf) + 128
    BY <2>1, ExceptionRepeats
  <2>3. Fc(buf) \in Nat
    <3>1. 2 \in DOMAIN buf
      BY <1>1, <1>3
    <3>2. buf[2] \in Byte
      BY <1>1, <3>1
    <3> QED
      BY <3>2 DEF Fc, Byte
  <2>4. Last(replies').bytes[2] = fc
    BY Zenon DEF Sends
  <2>5. Fc(buf) + 128 \in {4, 15}
    BY <2>2, <2>4
  <2> QED
    BY <2>3, <2>5
<1>4. ASSUME NEW code \in {ILLEGAL_DATA_ADDRESS, ILLEGAL_DATA_VALUE}, phase = "callback",
             Refuse(code)
      PROVE  FALSE
  <2>1. code # 0
    BY DEF ILLEGAL_DATA_ADDRESS, ILLEGAL_DATA_VALUE
  <2>2. replies' = Reply(buf, ExceptionResponse(buf, code))
    BY <1>4, <2>1 DEF Refuse, Answer
  <2>3. Len(buf) >= 2
    BY <1>1, <1>4
  <2> QED
    BY <1>3, <2>2, <2>3
<1>5. CASE PollStep
  <2>1. CASE RecvFooterRefused
    <3>1. PICK code : replies' = Reply(buf \o Received, ExceptionResponse(buf, code))
      BY <2>1 DEF RecvFooterRefused
    <3>2. Len(buf) >= 2
      BY <1>1, <2>1 DEF RecvFooterRefused
    <3> QED
      BY <1>3, <3>1, <3>2
  <2>2. CASE ~RecvFooterRefused
    BY <1>2, <1>5, <2>2
    DEF PollStep, ServerStep, Poll, RecvUnit, RecvFc, RecvBody, RecvFooter, RecvFooterBad,
        RecvFooterIgnored, RecvFooterAccepted, RecvResUnit, RecvResFc, RecvResBody,
        RecvResFooter, Timeout, GiveUp, FlushFull, NothingRead
  <2> QED
    BY <2>1, <2>2
<1>6. CASE handleReadData
  BY <1>2, <1>4, <1>6, ReadCases DEF Entering, Calling, vars
<1>7. CASE handleWriteData
  BY <1>2, <1>4, <1>7, WriteCases DEF Entering, Calling, vars
<1>8. CASE CommunicateStep \/ RefreshAfterError \/ PollAfterRefresh \/ SupplyStep
  BY <1>2, <1>8 DEF CommunicateStep, RefreshAfterError, PollAfterRefresh, Poll, SupplyStep, vars
<1>9. CASE BusStep
  <2>1. replies' = <<>>
    BY <1>2, <1>9 DEF BusStep, Bus, Send, Disturb, Overflow, Fault, StartAnew
  <2>2. Len(replies) >= 0 /\ Len(replies') = 0
    BY <1>1, <2>1 DEF IsSequence
  <2> QED
    BY <2>2 DEF Sends
<1>10. CASE FirmwareRestart
  BY <1>2, <1>10 DEF FirmwareRestart, Restart
<1>11. CASE CallbackReturns
  <2> DEFINE regs     == Handlers!RegistersOf(Report)
             response == IF Fc(buf) = 4 THEN ReadResponse(buf, regs) ELSE WriteResponse(buf)
  <2>1. phase = "callback" /\ Fc(buf) \in {4, 15} /\ Len(buf) >= 6
    BY <1>11 DEF CallbackReturns, FirmwareInv, Shape
  <2>2. replies' = Reply(buf, response)
    BY <1>2, <1>11 DEF CallbackReturns, Answer
  <2>3. Last(replies').bytes = response
    BY <1>1, <2>2, JustSent
  <2>4. response[2] = Fc(buf)
    <3>1. Len(regs) \in Nat
      BY DEF Handlers!RegistersOf
    <3>2. CASE Fc(buf) = 4
      <4>1. ReadResponse(buf, regs)[2] = Fc(buf)
        BY <3>1, ReadRepeats
      <4> QED
        BY <3>2, <4>1
    <3>3. CASE Fc(buf) # 4
      <4>1. WriteResponse(buf)[2] = Fc(buf)
        BY <1>1, <2>1, WriteRepeats
      <4> QED
        BY <3>3, <4>1
    <3> QED
      BY <3>2, <3>3
  <2>5. Fc(buf) = fc
    BY <2>3, <2>4 DEF Sends
  <2> QED
    BY <1>11, <2>3, <2>5
<1> QED
  BY <1>5, <1>6, <1>7, <1>8, <1>9, <1>10, <1>11 DEF FirmwareNext, Controller
-----------------------------------------------------------------------------
(***************************************************************************)
(* What a client may rely on.                                              *)
(***************************************************************************)

\* The driver's promises, in the middle of the firmware.
LEMMA DriverPromises ==
  ASSUME FirmwareInv
  PROVE  /\ pc = "idle" /\ ~touched => in.remote = dev.remote /\ in.on = dev.on
         /\ pc = "idle" /\ ~touched /\ dev.remote =>
              /\ asked = "current" => dev.set = currentSet
              /\ asked \in {"on", "off"} => dev.on = (asked = "on")
         /\ Supply!ReadCurrent \in 0..MaxIn
         /\ in.on \in BOOLEAN /\ in.remote \in BOOLEAN
         /\ pc = "idle" /\ ~touched /\ owned /\ ~copied => Supply!GetLastSetCurrent = dev.set
<1>1. SupplyProofs!SafetyOf(Currents)
  BY DEF FirmwareInv
<1>2. /\ SupplyProofs!ReportFresh /\ SupplyProofs!WriteTakesEffect
      /\ SupplyProofs!SetCurrentReported
  BY <1>1, SupplyConstants, SupplyProofs!SafetyOfGives
<1>3. SupplyProofs!ReadCurrent \in 0..MaxIn
  BY <1>1, SupplyConstants, SupplyProofs!ReadingInRange
<1>4. Supply!ReadCurrent = SupplyProofs!ReadCurrent
  BY Zenon DEF Supply!ReadCurrent, SupplyProofs!ReadCurrent, Supply!Exchanges,
     SupplyProofs!Exchanges
<1>5. in \in [remote: BOOLEAN, on: BOOLEAN]
  BY <1>1 DEF SupplyProofs!SafetyOf, SupplyProofs!TypesOf, SupplyProofs!Typed,
     SupplyProofs!InFrames
<1>6. pc = "idle" /\ ~touched => in.remote = dev.remote /\ in.on = dev.on
  BY <1>2 DEF SupplyProofs!ReportFresh, SupplyProofs!IsRemote, SupplyProofs!IsPowerCircuitOn
<1>7. pc = "idle" /\ ~touched /\ dev.remote =>
        /\ asked = "current" => dev.set = currentSet
        /\ asked \in {"on", "off"} => dev.on = (asked = "on")
  BY <1>2 DEF SupplyProofs!WriteTakesEffect
<1>8. pc = "idle" /\ ~touched /\ owned /\ ~copied => Supply!GetLastSetCurrent = dev.set
  <2>1. Supply!GetLastSetCurrent = SupplyProofs!GetLastSetCurrent
    BY Zenon DEF Supply!GetLastSetCurrent, SupplyProofs!GetLastSetCurrent, Supply!IsRemote,
       SupplyProofs!IsRemote, Supply!SetpointLevel, SupplyProofs!SetpointLevel,
       Supply!FullScale, SupplyProofs!FullScale, Supply!Exchanges, SupplyProofs!Exchanges
  <2> QED
    BY <1>2, <2>1 DEF SupplyProofs!SetCurrentReported
<1> QED
  BY <1>3, <1>4, <1>5, <1>6, <1>7, <1>8

\* The first register: the measured current below, and four flags above it.
LEMMA StatusBits ==
  ASSUME NEW c \in 0..MaxIn, NEW on \in {0, 1}, NEW remote \in {0, 1}
  PROVE  LET w == (c + on * 2^12 + 0 * 2^13 + 0 * 2^14 + remote * 2^15) % 2^16
         IN  w \in Nat /\ (BitOf(w, 12) <=> on = 1) /\ (BitOf(w, 15) <=> remote = 1)
<1>1. c \in Nat /\ c < 4096
  <2>1. MaxIn < 4096 /\ MaxIn \in Nat
    BY WidthAssumption, SupplyAssumption DEF Handlers!currentReadBits
  <2> QED
    BY <2>1
<1>2. 2^12 = 4096 /\ 2^13 = 8192 /\ 2^14 = 16384 /\ 2^15 = 32768 /\ 2^16 = 65536
  OBVIOUS
<1> DEFINE w == c + on * 4096 + remote * 32768
<1>3. (c + on * 2^12 + 0 * 2^13 + 0 * 2^14 + remote * 2^15) % 2^16 = w
  BY <1>1, <1>2
<1>4. w \in Nat /\ (w \div 4096) % 2 = on /\ (w \div 32768) % 2 = remote
  BY <1>1
<1> HIDE DEF w
<1>5. (BitOf(w, 12) <=> on = 1) /\ (BitOf(w, 15) <=> remote = 1)
  BY <1>2, <1>4 DEF BitOf
<1> QED
  BY <1>3, <1>4, <1>5

\* The status word of the response a callback is about to send.
LEMMA StatusReported ==
  ASSUME FirmwareInv
  PROVE  LET status == Handlers!RegistersOf(Report)[1]
         IN  /\ status \in Nat
             /\ BitOf(status, 12) = in.on
             /\ BitOf(status, 15) = in.remote
<1> DEFINE on     == IF in.on THEN 1 ELSE 0
           remote == IF in.remote THEN 1 ELSE 0
           c      == Supply!ReadCurrent
           status == Handlers!RegistersOf(Report)[1]
           w      == (c + on * 2^12 + 0 * 2^13 + 0 * 2^14 + remote * 2^15) % 2^16
<1>1. /\ Report.current = c /\ Report.isOn = in.on /\ Report.remote = in.remote
      /\ Report.polarity = FALSE /\ Report.reset = FALSE
  BY Zenon DEF Report, Supply!IsPowerCircuitOn, Supply!IsRemote
<1>2. /\ Handlers!Bit(Report.isOn) = on /\ Handlers!Bit(Report.remote) = remote
      /\ Handlers!Bit(Report.polarity) = 0 /\ Handlers!Bit(Report.reset) = 0
  BY <1>1 DEF Handlers!Bit
<1>3. /\ Handlers!currentReadBits = 12 /\ Handlers!currentReadBits + 1 = 13
      /\ Handlers!currentReadBits + 2 = 14 /\ Handlers!currentReadBits + 3 = 15
  BY DEF Handlers!currentReadBits
<1>4. \A a, b, d : <<a, b, d>>[1] = a
  OBVIOUS
<1>5. status =
        (Report.current + Handlers!Bit(Report.isOn) * 2^Handlers!currentReadBits
                        + Handlers!Bit(Report.polarity) * 2^(Handlers!currentReadBits + 1)
                        + Handlers!Bit(Report.reset) * 2^(Handlers!currentReadBits + 2)
                        + Handlers!Bit(Report.remote) * 2^(Handlers!currentReadBits + 3)) % 2^16
  BY <1>4, Zenon DEF Handlers!RegistersOf
<1> HIDE DEF status
<1>6. status = w
  BY <1>1, <1>2, <1>3, <1>5, Zenon
<1>7. c \in 0..MaxIn /\ in.on \in BOOLEAN /\ in.remote \in BOOLEAN
  BY DriverPromises
<1>8. on \in {0, 1} /\ remote \in {0, 1} /\ (on = 1 <=> in.on) /\ (remote = 1 <=> in.remote)
  BY <1>7
<1> HIDE DEF on, remote, c
<1>9. w \in Nat /\ (BitOf(w, 12) <=> on = 1) /\ (BitOf(w, 15) <=> remote = 1)
  BY <1>7, <1>8, StatusBits
<1> HIDE DEF w
<1>10. status \in Nat /\ (BitOf(status, 12) <=> in.on) /\ (BitOf(status, 15) <=> in.remote)
  BY <1>6, <1>8, <1>9
<1>11. BitOf(status, 12) \in BOOLEAN /\ BitOf(status, 15) \in BOOLEAN
  BY DEF BitOf
<1> QED
  BY <1>7, <1>10, <1>11, Zenon DEF status

\* At the end of a call for a callback the supply was left alone if no event was
\* counted.
LEMMA LeftAloneInCall ==
  ASSUME FirmwareInv, CallbackReturns, LeftAlone
  PROVE  pc = "idle" /\ ~touched
BY DEF FirmwareInv, CallInv, CallbackReturns, LeftAlone

\* A read response tells the mode and the circuit of the supply as they are when it
\* is sent, and the set current it works with, if that is not one it measured, for
\* every width, request and interleaving: the bytes on the bus are those of the
\* registers, and what they hold is the supply's.
THEOREM ReadTellsTruthHolds == FirmwareSpec => ReadTellsTruth
<1> DEFINE A == Sends(4) /\ LeftAlone =>
                  LET bytes  == Last(replies').bytes
                      status == Word(bytes, 4)
                  IN  /\ BitOf(status, Handlers!currentReadBits) = dev.on
                      /\ BitOf(status, Handlers!currentReadBits + 3) = dev.remote
                      /\ owned /\ ~copied => <<bytes[8], bytes[9]>> = Bytes2(dev.set)
<1>1. FirmwareInv /\ [FirmwareNext]_allVars => [A]_allVars
  <2> DEFINE bytes == Last(replies').bytes
             regs  == Handlers!RegistersOf(Report)
  <2> SUFFICES ASSUME FirmwareInv, FirmwareNext, Sends(4), LeftAlone
               PROVE  /\ BitOf(Word(bytes, 4), Handlers!currentReadBits) = dev.on
                      /\ BitOf(Word(bytes, 4), Handlers!currentReadBits + 3) = dev.remote
                      /\ owned /\ ~copied => <<bytes[8], bytes[9]>> = Bytes2(dev.set)
    OBVIOUS
  <2>1. CallbackReturns /\ bytes = ReadResponse(buf, regs)
    BY WhoSends
  <2>2. Len(regs) = 3 /\ regs[3] = Supply!GetLastSetCurrent
    BY DEF Handlers!RegistersOf, Report
  <2>3. regs[1] \in Nat /\ BitOf(regs[1], 12) = in.on /\ BitOf(regs[1], 15) = in.remote
    BY StatusReported
  <2> HIDE DEF regs, bytes
  <2>4. Word(bytes, 4) = regs[1] /\ <<bytes[8], bytes[9]>> = Bytes2(regs[3])
    BY <2>1, <2>2, <2>3, FirstAndThird
  <2>5. /\ in.on = dev.on /\ in.remote = dev.remote
        /\ owned /\ ~copied => regs[3] = dev.set
    BY <2>1, <2>2, LeftAloneInCall, DriverPromises
  <2>6. Handlers!currentReadBits = 12 /\ Handlers!currentReadBits + 3 = 15
    BY DEF Handlers!currentReadBits
  <2>7. /\ BitOf(Word(bytes, 4), Handlers!currentReadBits) = dev.on
        /\ BitOf(Word(bytes, 4), Handlers!currentReadBits + 3) = dev.remote
    BY <2>3, <2>4, <2>5, <2>6, Zenon
  <2>8. owned /\ ~copied => <<bytes[8], bytes[9]>> = Bytes2(dev.set)
    BY <2>4, <2>5, Zenon
  <2> QED
    BY <2>7, <2>8
<1>2. FirmwareSpec => [][A]_allVars
  BY <1>1, FirmwareAlways, PTL DEF FirmwareSpec
<1> QED
  BY <1>2 DEF ReadTellsTruth

\* A write response is sent only when the supply, in remote mode and left alone,
\* runs on what the coils said.
THEOREM AcknowledgedIsDoneHolds == FirmwareSpec => AcknowledgedIsDone
<1> DEFINE Done == IF Handlers!DataType(buf) = Handlers!CURRENT
                   THEN dev.set = Handlers!Value(buf)
                   ELSE dev.on = (Handlers!Value(buf) # 0)
           A == Sends(15) =>
                  /\ HasType(buf)
                  /\ LeftAlone /\ dev.remote =>
                       IF Handlers!DataType(buf) = Handlers!CURRENT
                       THEN dev.set = Handlers!Value(buf)
                       ELSE dev.on = (Handlers!Value(buf) # 0)
<1>1. FirmwareInv /\ [FirmwareNext]_allVars => [A]_allVars
  <2> SUFFICES ASSUME FirmwareInv, FirmwareNext, Sends(15)
               PROVE  HasType(buf) /\ (LeftAlone /\ dev.remote => Done)
    OBVIOUS
  <2>1. CallbackReturns /\ Fc(buf) = 15
    BY WhoSends
  <2>2. Asks(buf) /\ pc = "idle"
    BY <2>1 DEF FirmwareInv, CallInv, CallbackReturns
  <2>3. HasType(buf)
    BY <2>2 DEF Asks, HasType
  <2>4. ASSUME LeftAlone, dev.remote
        PROVE  Done
    <3>1. ~touched
      BY <2>1, <2>4, LeftAloneInCall
    <3>2. CASE Handlers!DataType(buf) = Handlers!CURRENT
      <4>1. asked = "current" /\ currentSet = Handlers!Value(buf)
        BY <2>2, <3>2 DEF Asks, Handlers!CURRENT, Handlers!IS_ON
      <4>2. dev.set = currentSet
        BY <2>2, <2>4, <3>1, <4>1, DriverPromises
      <4> QED
        BY <3>2, <4>1, <4>2
    <3>3. CASE Handlers!DataType(buf) # Handlers!CURRENT
      <4>1. asked = IF Handlers!Value(buf) # 0 THEN "on" ELSE "off"
        BY <2>2, <3>3 DEF Asks
      <4>2. dev.on = (asked = "on")
        BY <2>2, <2>4, <3>1, <4>1, DriverPromises
      <4> QED
        BY <3>3, <4>1, <4>2
    <3> QED
      BY <3>2, <3>3
  <2> QED
    BY <2>3, <2>4
<1>2. FirmwareSpec => [][A]_allVars
  BY <1>1, FirmwareAlways, PTL DEF FirmwareSpec
<1> QED
  BY <1>2 DEF AcknowledgedIsDone

\* A frame that changes the supply was sent for a write request to this unit or to
\* all, or in local mode when somebody touched the supply; into a supply that runs
\* on this driver's frame it brings what the request names and nothing else.
ChangedByWrite ==
  \/ pc = "sync" /\ touched
  \/ /\ caller = "callback"
     /\ Fc(buf) = 15 /\ ForUs(buf) /\ HasType(buf)
     /\ owned =>
          IF Handlers!DataType(buf) = Handlers!CURRENT
          THEN dev' = [dev EXCEPT !.set = Handlers!Value(buf)]
          ELSE dev' = [dev EXCEPT !.on = (Handlers!Value(buf) # 0)]

LEMMA ChangesAreWrites ==
  ASSUME FirmwareInv, CommunicateStep, dev' # dev
  PROVE  ChangedByWrite /\ (phase # "callback" => pc = "sync" /\ touched)
<1>1. SupplyProofs!SafetyOf(Currents) /\ SupplyProofs!Communicate
  BY SameDriver DEF FirmwareInv, CommunicateStep
<1>2. CASE SupplyProofs!SyncExchange
  <2>1. touched
    BY <1>1, <1>2, SupplyConstants, SupplyProofs!SyncNeedsTouch
  <2> QED
    BY <1>2, <2>1 DEF SupplyProofs!SyncExchange, ChangedByWrite
<1>3. CASE SupplyProofs!FinishAveraging
  BY <1>3 DEF SupplyProofs!FinishAveraging
<1>4. ASSUME NEW m \in 0..MaxIn, SupplyProofs!Exchange(m)
      PROVE  ChangedByWrite /\ phase = "callback"
  <2>1. /\ asked # "none"
        /\ owned /\ asked = "current" => dev' = [dev EXCEPT !.set = currentSet]
        /\ owned /\ asked # "current" => dev' = [dev EXCEPT !.on = (asked = "on")]
    BY <1>1, <1>4, SupplyConstants, SupplyProofs!FrameWrites
  <2>2. pc = "exchange"
    BY <1>4 DEF SupplyProofs!Exchange
  <2>3. caller = "callback"
    BY <2>1, <2>2 DEF FirmwareInv, OneThread, CallInv
  <2>4. phase = "callback" /\ Fc(buf) \in {4, 15} /\ ForUs(buf)
    BY <2>3 DEF FirmwareInv, OneThread, Shape, ServedInv, Addressed
  <2>5. Fc(buf) = 15 /\ Asks(buf) /\ HasType(buf)
    BY <2>1, <2>3, <2>4 DEF FirmwareInv, CallInv, Asks, HasType
  <2>6. CASE Handlers!DataType(buf) = Handlers!CURRENT
    <3>1. asked = "current" /\ currentSet = Handlers!Value(buf)
      BY <2>5, <2>6 DEF Asks, Handlers!CURRENT, Handlers!IS_ON
    <3> QED
      BY <2>1, <2>3, <2>4, <2>5, <2>6, <3>1 DEF ChangedByWrite
  <2>7. CASE Handlers!DataType(buf) # Handlers!CURRENT
    <3>1. asked = IF Handlers!Value(buf) # 0 THEN "on" ELSE "off"
      BY <2>5, <2>7 DEF Asks
    <3>2. asked # "current" /\ (asked = "on") = (Handlers!Value(buf) # 0)
      BY <3>1
    <3> QED
      BY <2>1, <2>3, <2>4, <2>5, <2>7, <3>2 DEF ChangedByWrite
  <2> QED
    BY <2>6, <2>7
<1> QED
  BY <1>1, <1>2, <1>3, <1>4 DEF SupplyProofs!Communicate

\* A request the callbacks are called with is a frame that was sent, where the checksum
\* tells those from every other stretch of the traffic: the supply's frames in between
\* and the restarts do not make the server put bytes together that did not follow one
\* another (nmbs_server_poll, readUart, and the loop of main).
THEOREM AcceptedWasSentHolds ==
  ASSUME ChecksumDetects
  PROVE  FirmwareSpec => []AcceptedWasSent
<1>1. FirmwareInit => KeepInv /\ TrafficInv
  BY KeepInductive, InitTraffic DEF FirmwareInit
<1>2. (KeepInv /\ TrafficInv) /\ [FirmwareNext]_allVars => (KeepInv /\ TrafficInv)'
  BY ServerPart, SequenceIsAny, KeepInductive, TrafficKept
<1>3. KeepInv /\ TrafficInv => AcceptedWasSent
  BY DEF TrafficInv, AcceptedWasSent
<1> QED
  BY <1>1, <1>2, <1>3, PTL DEF FirmwareSpec

\* Nor do the supply's frames between two polls and inside a callback, and the restarts
\* of both programs, make it run a request twice, answer one twice or out of turn.
THEOREM FirmwareServesInOrder ==
  ASSUME TrafficSeparates
  PROVE  FirmwareSpec => [](RanWereSent /\ RepliesAnswerRequests)
<1>1. FirmwareInit => KeepInv /\ OrderInv
  BY OrderInductive DEF FirmwareInit
<1>2. (KeepInv /\ OrderInv) /\ [FirmwareNext]_allVars => (KeepInv /\ OrderInv)'
  BY ServerPart, SequenceIsAny, OrderInductive
<1>3. KeepInv /\ OrderInv => RanWereSent /\ RepliesAnswerRequests
  BY OrderMeans
<1> QED
  BY <1>1, <1>2, <1>3, PTL DEF FirmwareSpec

\* Where no garbled message passes the checksum (AcceptedWasSent), whatever changes the supply is a
\* write request that was sent to this unit or to all, and only what it names
\* changes: no error, timeout, foreign message, read or restart ever does.
THEOREM OnlyWritesChangeHolds ==
  FirmwareSpec /\ []AcceptedWasSent => OnlyWritesChange
<1> DEFINE A == CommunicateStep /\ dev' # dev =>
                  \/ pc = "sync" /\ touched
                  \/ /\ caller = "callback"
                     /\ Fc(buf) = 15 /\ buf \in Range(heard) /\ ForUs(buf) /\ HasType(buf)
                     /\ owned =>
                          IF Handlers!DataType(buf) = Handlers!CURRENT
                          THEN dev' = [dev EXCEPT !.set = Handlers!Value(buf)]
                          ELSE dev' = [dev EXCEPT !.on = (Handlers!Value(buf) # 0)]
<1>1. FirmwareInv /\ AcceptedWasSent /\ [FirmwareNext]_allVars => [A]_allVars
  <2> SUFFICES ASSUME FirmwareInv, AcceptedWasSent, CommunicateStep, dev' # dev
               PROVE  A
    OBVIOUS
  <2>1. ChangedByWrite /\ (phase # "callback" => pc = "sync" /\ touched)
    BY ChangesAreWrites
  <2> QED
    BY <2>1 DEF ChangedByWrite, AcceptedWasSent
<1>2. FirmwareSpec /\ []AcceptedWasSent => [][A]_allVars
  BY <1>1, FirmwareAlways, PTL DEF FirmwareSpec
<1> QED
  BY <1>2 DEF OnlyWritesChange

\* So it is where the checksum detects what the bounds allow to happen to the traffic.
COROLLARY OnlyRequestsChange ==
  ASSUME ChecksumDetects
  PROVE  FirmwareSpec => OnlyWritesChange
BY AcceptedWasSentHolds, OnlyWritesChangeHolds, PTL

\* The same for every checksum and every fault, without saying who sent the request.
THEOREM ChangesAreWritesHolds ==
  FirmwareSpec => [][CommunicateStep /\ dev' # dev => ChangedByWrite]_allVars
<1>1. FirmwareInv /\ [FirmwareNext]_allVars
        => [CommunicateStep /\ dev' # dev => ChangedByWrite]_allVars
  BY ChangesAreWrites
<1> QED
  BY <1>1, FirmwareAlways, PTL DEF FirmwareSpec
-----------------------------------------------------------------------------
(***************************************************************************)
(* What the parts promise alone, they keep together.                       *)
(***************************************************************************)

\* The driver's promises hold in the firmware, whoever calls it and whatever a
\* client asks for.
SupplyPromises ==
  /\ Supply!WriteEnabledOnce
  /\ Supply!OwnedAgrees
  /\ Supply!ReportFresh
  /\ Supply!LocalTracks
  /\ Supply!WriteTakesEffect
  /\ Supply!SetCurrentReported

THEOREM FirmwareKeepsSupplyPromises == FirmwareSpec => []SupplyPromises
<1>1. ASSUME FirmwareInv
      PROVE  SupplyPromises
  <2>1. /\ SupplyProofs!WriteEnabledOnce /\ SupplyProofs!OwnedAgrees
        /\ SupplyProofs!ReportFresh /\ SupplyProofs!LocalTracks
        /\ SupplyProofs!WriteTakesEffect /\ SupplyProofs!SetCurrentReported
    BY <1>1, SupplyConstants, SupplyProofs!SafetyOfGives DEF FirmwareInv
  <2>2. /\ \A a : Supply!SetpointLevel(a) = SupplyProofs!SetpointLevel(a)
        /\ Supply!GetLastSetCurrent = SupplyProofs!GetLastSetCurrent
    BY Zenon DEF Supply!GetLastSetCurrent, SupplyProofs!GetLastSetCurrent, Supply!IsRemote,
       SupplyProofs!IsRemote, Supply!SetpointLevel, SupplyProofs!SetpointLevel,
       Supply!FullScale, SupplyProofs!FullScale, Supply!Exchanges, SupplyProofs!Exchanges
  <2>3. Supply!WriteEnabledOnce /\ Supply!OwnedAgrees /\ Supply!WriteTakesEffect
    BY <2>1, Zenon DEF Supply!WriteEnabledOnce, SupplyProofs!WriteEnabledOnce,
       Supply!OwnedAgrees, SupplyProofs!OwnedAgrees, Supply!WriteTakesEffect,
       SupplyProofs!WriteTakesEffect
  <2>4. Supply!ReportFresh /\ Supply!LocalTracks /\ Supply!SetCurrentReported
    BY <2>1, <2>2, Zenon DEF Supply!ReportFresh, SupplyProofs!ReportFresh,
       Supply!LocalTracks, SupplyProofs!LocalTracks, Supply!SetCurrentReported,
       SupplyProofs!SetCurrentReported, Supply!IsRemote, SupplyProofs!IsRemote,
       Supply!IsPowerCircuitOn, SupplyProofs!IsPowerCircuitOn
  <2> QED
    BY <2>3, <2>4 DEF SupplyPromises
<1> QED
  BY <1>1, FirmwareAlways, PTL

\* No message of another unit makes the firmware run a callback or answer.
THEOREM FirmwareServesForUs == FirmwareSpec => []ServedForUs
<1>1. FirmwareInv => ServedForUs
  BY DEF FirmwareInv, ServedInv
<1> QED
  BY <1>1, FirmwareAlways, PTL

\* Every response of the firmware repeats the unit and the function code of its
\* request, and no broadcast is answered by anything but an exception: the three
\* registers of handleReadData are all the server needs to know of the callbacks.
THEOREM FirmwareRepeatsRequests == FirmwareSpec => []RepliesRepeatRequests
<1>1. FirmwareInit => RepeatInv
  BY RepeatInductive DEF FirmwareInit
<1>2. RepeatInv /\ [FirmwareNext]_allVars => RepeatInv'
  BY RepeatInductive, ServerPart
<1>3. RepeatInv => RepliesRepeatRequests
  BY DEF RepeatInv
<1> QED
  BY <1>1, <1>2, <1>3, PTL DEF FirmwareSpec

\* No acknowledgement of the firmware is without its callback, and none is given
\* twice.
THEOREM FirmwareRepliesFollowRuns == FirmwareSpec => []RepliesFollowRuns
<1>1. FirmwareInit => FollowInv
  BY FollowInductive DEF FirmwareInit
<1>2. FollowInv /\ [FirmwareNext]_allVars => FollowInv'
  BY FollowInductive, ServerPart, SequenceIsAny
<1> QED
  BY <1>1, <1>2, FollowInvMeans, PTL DEF FirmwareSpec

\* The firmware drops no whole request either, though it leaves the bus alone while
\* it talks to the supply: what comes meanwhile waits in the UART, as far as it fits
\* (an overflow is one of the faults).
THEOREM FirmwareKeepsRequests == FirmwareSpec => RequestKept
<1>1. FirmwareInit => KeepInv
  BY KeepInductive DEF FirmwareInit
<1>2. KeepInv /\ [FirmwareNext]_allVars => KeepInv'
  BY KeepInductive, ServerPart, SequenceIsAny
<1>3. KeepInv /\ [FirmwareNext]_allVars =>
        [faults' = faults /\ restarts' = restarts =>
           \A frame \in Requests : InHand(frame) => InHand(frame)' \/ Settled(frame)]_vars
  BY RequestsKept, ServerPart, SequenceIsAny
<1> QED
  BY <1>1, <1>2, <1>3, PTL DEF FirmwareSpec, RequestKept
-----------------------------------------------------------------------------
(***************************************************************************)
(* A poll comes to its end.  Liveness is out of the provers' reach, but    *)
(* not that a measure of what is left of a poll goes down with every step. *)
(***************************************************************************)

\* A piece weighs more than all frames together.
LEMMA PieceOutweighs ==
  ASSUME NEW p \in Nat, NEW q \in Nat, q < p, NEW w \in Nat, NEW f \in Nat
  PROVE  q * (w + 4) + (w + 3) < p * (w + 4) + f
<1>1. (q + 1) * (w + 4) <= p * (w + 4)
  <2>1. ASSUME NEW a \in Nat, NEW b \in Nat, NEW c \in Nat, a <= b
        PROVE  a * c <= b * c
    BY <2>1
  <2> QED
    BY <2>1, q + 1 \in Nat, w + 4 \in Nat, q + 1 <= p
<1>2. (q + 1) * (w + 4) = q * (w + 4) + (w + 4)
  OBVIOUS
<1>3. q * (w + 4) \in Nat /\ p * (w + 4) \in Nat
  OBVIOUS
<1> DEFINE a == q * (w + 4)
           b == p * (w + 4)
<1> HIDE DEF a, b
<1>4. a + (w + 4) <= b /\ a \in Nat /\ b \in Nat
  BY <1>1, <1>2, <1>3 DEF a, b
<1>5. a + (w + 3) < b + f
  BY <1>4
<1> QED
  BY <1>5 DEF a, b

\* The phases of a poll are numbered from its end.
LEMMA PiecesCounted ==
  ASSUME phase \in Phases
  PROVE  PiecesLeft \in Nat
<1>1. phase \in {"unit", "returned", "flush", "resFooter"} => PiecesLeft \in Nat
  BY DEF PiecesLeft
<1>2. phase \in {"resData", "resFixed", "resException", "resCount"} => PiecesLeft \in Nat
  BY DEF PiecesLeft
<1>3. phase \in {"resFc", "resUnit", "callback", "footer"} => PiecesLeft \in Nat
  BY DEF PiecesLeft
<1>4. phase \in {"data", "fixed", "fc"} => PiecesLeft \in Nat
  BY DEF PiecesLeft
<1> QED
  BY <1>1, <1>2, <1>3, <1>4 DEF Phases

\* A step of the server is one phase further.
LEMMA PieceTaken ==
  ASSUME phase \in Phases, phase # "unit", ServerStep \/ Poll
  PROVE  PiecesLeft' \in Nat /\ PiecesLeft' < PiecesLeft
<1>1. \/ phase = "fc" /\ phase' \in {"fixed", "returned"}
      \/ phase = "fixed" /\ phase' \in {"data", "footer"}
      \/ phase = "data" /\ phase' = "footer"
      \/ phase = "footer" /\ phase' \in {"flush", "returned", "resUnit", "callback"}
      \/ phase = "resUnit" /\ phase' = "resFc"
      \/ phase = "resFc" /\ phase' \in {"resCount", "resFixed", "resException", "returned"}
      \/ phase = "resCount" /\ phase' = "resData"
      \/ phase \in {"resData", "resFixed", "resException"} /\ phase' = "resFooter"
      \/ phase = "resFooter" /\ phase' = "returned"
      \/ phase \notin {"unit", "callback", "returned"} /\ phase' = "returned"
      \/ phase = "returned" /\ phase' = "unit"
  BY DEF ServerStep, Poll, RecvUnit, RecvFc, RecvBody, RecvFooter, RecvFooterBad,
     RecvFooterIgnored, RecvFooterRefused, RecvFooterAccepted, RecvResUnit, RecvResFc,
     RecvResBody, RecvResFooter, Timeout, GiveUp, Reading, FlushFull, Return, Fail
<1> QED
  BY <1>1 DEF Phases, PiecesLeft

\* The frames that the loop in the driver may still exchange.
LEMMA FramesCounted ==
  ASSUME FirmwareInv
  PROVE  /\ Supply!Exchanges \in Nat /\ Supply!Exchanges >= 2
         /\ FramesLeft \in Nat
         /\ pc = "exchange" => done \in Nat /\ done < Supply!Exchanges
<1>1. Supply!Exchanges \in Nat /\ Supply!Exchanges >= 2
  BY SupplyAssumption DEF Supply!Exchanges
<1>2. pc = "exchange" => done \in Nat /\ done < Supply!Exchanges
  <2>1. Supply!Exchanges = SupplyProofs!Exchanges
    BY Zenon DEF Supply!Exchanges, SupplyProofs!Exchanges
  <2>2. done \in 0..SupplyProofs!Exchanges /\ (pc = "exchange" => done < SupplyProofs!Exchanges)
    BY DEF FirmwareInv, SupplyProofs!SafetyOf, SupplyProofs!TypesOf, SupplyProofs!Typed,
       SupplyProofs!LoopBound
  <2> QED
    BY <1>1, <2>1, <2>2
<1>3. pc \in {"idle", "exchange", "average", "sync"}
  BY DEF FirmwareInv, SupplyProofs!SafetyOf, SupplyProofs!TypesOf, SupplyProofs!Typed
<1> QED
  BY <1>1, <1>2, <1>3 DEF FramesLeft

\* A step of the driver is one frame, or the division, further.
LEMMA FrameTaken ==
  ASSUME FirmwareInv, CommunicateStep
  PROVE  FramesLeft' \in Int /\ FramesLeft' < FramesLeft
<1>1. caller # "none" /\ caller' = caller
  BY DEF FirmwareInv, OneThread, CommunicateStep, Supply!Communicate, Supply!Exchange,
     Supply!FinishAveraging, Supply!SyncExchange
<1>2. ASSUME NEW m \in 0..MaxIn, Supply!Exchange(m)
      PROVE  FramesLeft' \in Int /\ FramesLeft' < FramesLeft
  <2>1. /\ pc = "exchange" /\ done' = done + 1
        /\ pc' = IF done + 1 = Supply!Exchanges THEN "average" ELSE "exchange"
    BY <1>2 DEF Supply!Exchange
  <2> QED
    BY <1>1, <2>1, FramesCounted DEF FramesLeft
<1>3. CASE Supply!FinishAveraging
  BY <1>1, <1>3 DEF Supply!FinishAveraging, FramesLeft
<1>4. CASE Supply!SyncExchange
  BY <1>1, <1>4 DEF Supply!SyncExchange, FramesLeft
<1> QED
  BY <1>2, <1>3, <1>4 DEF CommunicateStep, Supply!Communicate

\* A call that begins uses up the one that might have begun.
LEMMA CallTaken ==
  ASSUME FirmwareInv, caller = "none", caller' # "none", pc' = "exchange", done' = 0
  PROVE  FramesLeft' \in Int /\ FramesLeft' < FramesLeft
BY FramesCounted DEF FramesLeft

\* One piece less, or the same pieces and one frame less, is nearer to the end.
LEMMA NearerByPiece ==
  ASSUME FirmwareInv, PiecesLeft' \in Nat, PiecesLeft' < PiecesLeft, caller' = "none"
  PROVE  StepsLeft' < StepsLeft
<1>1. PiecesLeft \in Nat
  BY PiecesCounted DEF FirmwareInv, ServedInv, Addressed
<1>2. FramesLeft' = Supply!Exchanges + 3
  BY DEF FramesLeft
<1>3. PiecesLeft' * (Supply!Exchanges + 4) + (Supply!Exchanges + 3)
        < PiecesLeft * (Supply!Exchanges + 4) + FramesLeft
  BY <1>1, FramesCounted, PieceOutweighs
<1> QED
  BY <1>2, <1>3 DEF StepsLeft

LEMMA NearerByFrame ==
  ASSUME FirmwareInv, phase' = phase, FramesLeft' < FramesLeft, FramesLeft' \in Int
  PROVE  StepsLeft' < StepsLeft
<1>1. PiecesLeft \in Nat /\ PiecesLeft' = PiecesLeft
  <2>1. PiecesLeft \in Nat
    BY PiecesCounted DEF FirmwareInv, ServedInv, Addressed
  <2>2. PiecesLeft' = PiecesLeft
    BY DEF PiecesLeft
  <2> QED
    BY <2>1, <2>2
<1>2. PiecesLeft * (Supply!Exchanges + 4) \in Nat
  BY <1>1, FramesCounted
<1> DEFINE a == PiecesLeft * (Supply!Exchanges + 4)
<1> HIDE DEF a
<1>3. a + FramesLeft' < a + FramesLeft
  BY <1>2, FramesCounted DEF a
<1> QED
  BY <1>1, <1>3 DEF StepsLeft, a

\* Every step of the controller inside a poll brings its end nearer.
LEMMA NearerByController ==
  ASSUME FirmwareInv, phase # "unit", Controller
  PROVE  StepsLeft' < StepsLeft
<1>1. phase \in Phases
  BY DEF FirmwareInv, ServedInv, Addressed
<1>2. CASE PollStep \/ PollAfterRefresh
  <2>1. (ServerStep \/ Poll) /\ caller' = "none"
    BY <1>2 DEF PollStep, PollAfterRefresh
  <2> QED
    BY <1>1, <2>1, PieceTaken, NearerByPiece
<1>3. ASSUME phase = "callback", caller' = "none", phase' = "returned"
      PROVE  StepsLeft' < StepsLeft
  <2>1. PiecesLeft = 8 /\ PiecesLeft' = 1
    BY <1>3 DEF PiecesLeft
  <2> QED
    BY <1>3, <2>1, NearerByPiece
<1>4. CASE CallbackReturns
  BY <1>3, <1>4 DEF CallbackReturns, Answer, Return
<1>5. ASSUME NEW code, Entering, Refuse(code)
      PROVE  StepsLeft' < StepsLeft
  BY <1>3, <1>5 DEF Entering, Refuse, Answer, Return
<1>6. ASSUME caller = "none", caller' # "none", pc' = "exchange", done' = 0, phase' = phase
      PROVE  StepsLeft' < StepsLeft
  BY <1>6, CallTaken, NearerByFrame
<1>7. /\ Supply!Refresh => pc' = "exchange" /\ done' = 0
      /\ \A value : Supply!SetStatusIsOn(value) => pc' = "exchange" /\ done' = 0
      /\ \A value : Supply!SetStatusCurrent(value) => pc' = "exchange" /\ done' = 0
  BY DEF Supply!Refresh, Supply!SetStatusIsOn, Supply!SetStatusCurrent,
     Supply!BeginCommunication
<1>8. ASSUME Entering, pc' = "exchange", done' = 0, caller' = "callback", UNCHANGED vars
      PROVE  StepsLeft' < StepsLeft
  BY <1>6, <1>8 DEF Entering, vars, serverVars
<1>9. CASE handleReadData
  BY <1>5, <1>7, <1>8, <1>9, ReadCases DEF Calling
<1>10. CASE handleWriteData
  BY <1>5, <1>7, <1>8, <1>10, WriteCases DEF Calling
<1>11. CASE RefreshAfterError
  BY <1>6, <1>7, <1>11 DEF RefreshAfterError, vars, serverVars
<1>12. CASE CommunicateStep
  <2>1. phase' = phase
    BY <1>12 DEF CommunicateStep, vars, serverVars
  <2> QED
    BY <1>12, <2>1, FrameTaken, NearerByFrame
<1> QED
  BY <1>2, <1>4, <1>9, <1>10, <1>11, <1>12 DEF Controller

\* The bus and the supply leave it where it is.
LEMMA WorldKeepsDistance ==
  ASSUME BusStep \/ SupplyStep
  PROVE  StepsLeft' = StepsLeft
<1>1. UNCHANGED <<phase, caller, pc, done>>
  <2>1. CASE BusStep
    BY <2>1 DEF BusStep, Bus, Send, Disturb, Overflow, StartAnew, Fault, serverVars, supplyVars
  <2>2. CASE SupplyStep
    BY <2>2
    DEF SupplyStep, Supply!Supply, Supply!PanelMode, Supply!PanelAdjust, Supply!Trip,
        Supply!TouchDevice, Supply!driverVars, vars, serverVars
  <2> QED
    BY <2>1, <2>2
<1>2. PiecesLeft' = PiecesLeft /\ FramesLeft' = FramesLeft
  BY <1>1 DEF PiecesLeft, FramesLeft
<1> QED
  BY <1>2 DEF StepsLeft

\* From any point of a poll the firmware is a bounded number of its own steps away
\* from the next one, for every number of exchanges, whatever comes over the bus and
\* whatever the supply does meanwhile.
THEOREM PollsEndHolds == FirmwareSpec => PollsEnd
<1> DEFINE A == phase # "unit" =>
                  \/ StepsLeft' < StepsLeft
                  \/ StepsLeft' = StepsLeft /\ (BusStep \/ SupplyStep)
                  \/ FirmwareRestart
<1>1. FirmwareInv /\ [FirmwareNext]_allVars => [A]_allVars
  BY NearerByController, WorldKeepsDistance DEF FirmwareNext
<1>2. FirmwareSpec => [][A]_allVars
  BY <1>1, FirmwareAlways, PTL DEF FirmwareSpec
<1> QED
  BY <1>2 DEF PollsEnd
-----------------------------------------------------------------------------
(***************************************************************************)
(* The firmware implements the server: the safety half of ImplementsServer.*)
(***************************************************************************)

\* What handleReadData may find in the power supply.
Reports ==
  [current: 0..MaxIn, voltage: {0}, isOn: BOOLEAN, polarity: {FALSE}, reset: {FALSE},
   remote: BOOLEAN, errors: {0}, polaritySet: {FALSE}, isOnSet: BOOLEAN, currentSet: Currents]

\* The callbacks of the server may do what those of the firmware do.
CallbacksAllowed ==
  \A msg \in Seq(Byte) :
    /\ {0, ILLEGAL_DATA_ADDRESS, ILLEGAL_DATA_VALUE} \subseteq Results(msg)
    /\ \A report \in Reports : Handlers!RegistersOf(report) \in Registers(msg)

LEMMA ReportFits ==
  ASSUME FirmwareInv
  PROVE  Report \in Reports
<1>1. /\ in.on \in BOOLEAN /\ in.remote \in BOOLEAN /\ Supply!ReadCurrent \in 0..MaxIn
  BY DriverPromises
<1>2. SupplyProofs!Typed(Currents)
  BY DEF FirmwareInv, SupplyProofs!SafetyOf, SupplyProofs!TypesOf
<1>3. out.on \in BOOLEAN /\ currentSet \in Currents /\ avrgCurrent \in 0..SupplyProofs!FullScale
  BY <1>2, Zenon DEF SupplyProofs!Typed, SupplyProofs!OutFramesOf
<1>4. Supply!SetpointLevel(avrgCurrent) \in Currents
  <2>1. SupplyProofs!SetpointLevel(avrgCurrent) \in 0..MaxOut
    BY <1>3, SupplyConstants, SupplyProofs!SetpointInRange
  <2>2. Supply!SetpointLevel(avrgCurrent) = SupplyProofs!SetpointLevel(avrgCurrent)
    BY Zenon DEF Supply!SetpointLevel, SupplyProofs!SetpointLevel, Supply!FullScale,
       SupplyProofs!FullScale, Supply!Exchanges, SupplyProofs!Exchanges
  <2> QED
    BY <2>1, <2>2 DEF Currents
<1>5. Supply!GetLastSetCurrent \in Currents
  BY <1>3, <1>4 DEF Supply!GetLastSetCurrent
<1>6. /\ Supply!IsPowerCircuitOn \in BOOLEAN /\ Supply!IsRemote \in BOOLEAN
      /\ Supply!GetIsOnSet \in BOOLEAN /\ FALSE \in {FALSE} /\ 0 \in {0}
  BY <1>1, <1>3 DEF Supply!IsPowerCircuitOn, Supply!IsRemote, Supply!GetIsOnSet
<1> QED
  BY <1>1, <1>5, <1>6, Zenon DEF Report, Reports

\* A callback of the firmware that returns is the callback of the server.
LEMMA CallbackAllowed ==
  ASSUME CallbacksAllowed, phase = "callback", buf \in Seq(Byte),
         NEW code \in {0, ILLEGAL_DATA_ADDRESS, ILLEGAL_DATA_VALUE}, NEW regs, Answer(code, regs),
         regs \in IF Fc(buf) = 4 /\ code = 0
                  THEN {Handlers!RegistersOf(report) : report \in Reports} ELSE {<<>>}
  PROVE  Callback
<1>1. code \in Results(buf)
  BY DEF CallbacksAllowed
<1>2. regs \in IF Fc(buf) = 4 /\ code = 0 THEN Registers(buf) ELSE {<<>>}
  BY DEF CallbacksAllowed
<1> QED
  BY <1>1, <1>2 DEF Callback

LEMMA RefusalAllowed ==
  ASSUME CallbacksAllowed, Entering, buf \in Seq(Byte),
         NEW code \in {ILLEGAL_DATA_ADDRESS, ILLEGAL_DATA_VALUE}, Refuse(code)
  PROVE  Callback
<1>1. code # 0
  BY DEF ILLEGAL_DATA_ADDRESS, ILLEGAL_DATA_VALUE
<1>2. phase = "callback" /\ Answer(code, <<>>)
  BY DEF Entering, Refuse
<1> QED
  BY <1>1, <1>2, CallbackAllowed

\* Whatever the supply does, what the firmware does on the bus is what the server
\* of NmbsServer does with callbacks that may return what the firmware's return.
\* That every request in a callback is answered in the end, the rest of
\* ImplementsServer, is model-checked.
THEOREM ServerStepsOnly ==
  ASSUME CallbacksAllowed
  PROVE  FirmwareSpec => Init /\ [][Next]_vars
<1>1. FirmwareInit => Init
  BY DEF FirmwareInit
<1>2. FirmwareInv /\ [FirmwareNext]_allVars => [Next]_vars
  <2> SUFFICES ASSUME FirmwareInv, [FirmwareNext]_allVars
               PROVE  [Next]_vars
    OBVIOUS
  <2>1. buf \in Seq(Byte)
    BY DEF FirmwareInv, ServedInv, Addressed
  <2>2. CASE UNCHANGED allVars
    BY <2>2 DEF allVars
  <2>3. CASE PollStep \/ PollAfterRefresh \/ BusStep \/ FirmwareRestart
    BY <2>3 DEF PollStep, PollAfterRefresh, BusStep, FirmwareRestart, ServerStep, Next
  <2>4. CASE CommunicateStep \/ RefreshAfterError \/ SupplyStep
    BY <2>4 DEF CommunicateStep, RefreshAfterError, SupplyStep
  <2>5. CASE handleReadData
    <3>1. CASE Refuse(ILLEGAL_DATA_ADDRESS)
      BY <2>1, <2>5, <3>1, ReadCases, RefusalAllowed DEF Next
    <3>2. CASE Calling(Supply!Refresh)
      BY <3>2 DEF Calling
    <3> QED
      BY <2>5, <3>1, <3>2, ReadCases
  <2>6. CASE handleWriteData
    <3>1. ASSUME NEW code \in {ILLEGAL_DATA_ADDRESS, ILLEGAL_DATA_VALUE}, Refuse(code)
          PROVE  Next
      BY <2>1, <2>6, <3>1, WriteCases, RefusalAllowed DEF Next
    <3>2. \/ \E code \in {ILLEGAL_DATA_ADDRESS, ILLEGAL_DATA_VALUE} : Refuse(code)
          \/ UNCHANGED vars
      BY <2>6, WriteCases DEF Calling
    <3> QED
      BY <3>1, <3>2
  <2>7. CASE CallbackReturns
    <3> DEFINE regs == IF Fc(buf) = 4 THEN Handlers!RegistersOf(Report) ELSE <<>>
    <3>1. Report \in Reports
      BY ReportFits
    <3>2. phase = "callback" /\ Answer(0, regs)
      BY <2>7 DEF CallbackReturns
    <3>3. regs \in IF Fc(buf) = 4 THEN {Handlers!RegistersOf(report) : report \in Reports}
                   ELSE {<<>>}
      BY <3>1
    <3> HIDE DEF regs
    <3>4. Callback
      BY <2>1, <3>2, <3>3, CallbackAllowed
    <3> QED
      BY <3>4 DEF Next
  <2> QED
    BY <2>2, <2>3, <2>4, <2>5, <2>6, <2>7 DEF FirmwareNext, Controller
<1> QED
  BY <1>1, <1>2, FirmwareAlways, PTL DEF FirmwareSpec
=============================================================================

----------------------------- MODULE ModbusServer -----------------------------
(***************************************************************************)
(* The whole firmware of the 200 A supply's controller: the loop of        *)
(* src/Main.cpp over waitAndHandleRequest, the Modbus server on the bus    *)
(* (NmbsServer), the callbacks of src/modbusServer/ModbusServer.cpp        *)
(* (ModbusHandlers), and the driver with its supply (PowerSupply200A).     *)
(*                                                                         *)
(* The controller has one thread: while it talks to the supply it does not *)
(* read the bus, and the other way round.  Both the bus and the supply go  *)
(* on by themselves, and so can step between any two of its steps.         *)
(***************************************************************************)
EXTENDS NmbsServer

CONSTANTS MaxIn, MaxOut, AvrgComponentCount, Scale,
  MaxEvents  \* bound: what the supply's panel and its protection do

ASSUME EventsAssumption == MaxEvents \in Nat

VARIABLES out, in, avrgCurrent, currentSet, pc, done, dev, touched, owned, copied, asked,
  caller,  \* who called safeCommunicationWithPS: the callback, the loop, or nobody
  events,  \* history: panel and protection events so far
  since    \* history: their number when the last callback was called

Supply   == INSTANCE PowerSupply200A
Handlers == INSTANCE ModbusHandlers

ASSUME SupplyAssumption ==
  /\ MaxIn \in Nat \ {0} /\ MaxOut \in Nat \ {0}
  /\ AvrgComponentCount \in Nat /\ Scale \in Nat \ {0}

\* A measurement fits its bits of the first register (psCurrentLen is 12).
ASSUME WidthAssumption == MaxIn < 2^Handlers!currentReadBits

supplyVars == <<out, in, avrgCurrent, currentSet, pc, done, dev, touched, owned, copied, asked>>
allVars    == <<vars, supplyVars, caller, events, since>>
-----------------------------------------------------------------------------
(***************************************************************************)
(* The callbacks.                                                          *)
(***************************************************************************)
Entering == phase = "callback" /\ caller = "none"

\* handleReadData and handleWriteData return an exception before they call the
\* power supply, or because it does not know the data type (setStatus).
Refuse(code) ==
  /\ Answer(code, <<>>)
  /\ UNCHANGED <<supplyVars, caller, events, since>>

\* The power supply is called, and what follows waits for its return.
Calling(step) ==
  /\ step
  /\ caller' = "callback"
  /\ since' = events
  /\ UNCHANGED <<vars, events>>

\* Faulty variant: the supply is not asked first.
handleReadDataFaulty ==
  /\ Entering
  /\ Fc(buf) = 4
  /\ IF Handlers!ReadRefused(buf)
     THEN Refuse(ILLEGAL_DATA_ADDRESS)
     ELSE Calling(UNCHANGED supplyVars)

handleReadData ==
  /\ Entering
  /\ Fc(buf) = 4
  /\ IF Handlers!ReadRefused(buf)
     THEN Refuse(ILLEGAL_DATA_ADDRESS)
     ELSE Calling(Supply!Refresh)

\* Faulty variant: the data types taken for one another.
handleWriteDataSwapped ==
  /\ Entering
  /\ Fc(buf) = 15
  /\ IF Handlers!WriteRefused(buf)
     THEN Refuse(ILLEGAL_DATA_ADDRESS)
     ELSE CASE Handlers!DataType(buf) = Handlers!CURRENT ->
                 Calling(Supply!SetStatusIsOn(Handlers!Value(buf)))
            [] Handlers!DataType(buf) = Handlers!IS_ON ->
                 Calling(Supply!SetStatusCurrent(Handlers!Value(buf)))
            [] OTHER -> Refuse(ILLEGAL_DATA_VALUE)

\* Faulty variant: a data type setStatus does not know is taken for IS_ON.
handleWriteDataLax ==
  /\ Entering
  /\ Fc(buf) = 15
  /\ IF Handlers!WriteRefused(buf)
     THEN Refuse(ILLEGAL_DATA_ADDRESS)
     ELSE IF Handlers!DataType(buf) = Handlers!CURRENT
     THEN Calling(Supply!SetStatusCurrent(Handlers!Value(buf)))
     ELSE Calling(Supply!SetStatusIsOn(Handlers!Value(buf)))

handleWriteData ==
  /\ Entering
  /\ Fc(buf) = 15
  /\ IF Handlers!WriteRefused(buf)
     THEN Refuse(ILLEGAL_DATA_ADDRESS)
     ELSE CASE Handlers!DataType(buf) = Handlers!IS_ON ->
                 Calling(Supply!SetStatusIsOn(Handlers!Value(buf)))
            [] Handlers!DataType(buf) = Handlers!CURRENT ->
                 Calling(Supply!SetStatusCurrent(Handlers!Value(buf)))
            [] OTHER -> Refuse(ILLEGAL_DATA_VALUE)

\* What the getters of the power supply return now.  Voltage, polarity and
\* errors are left out of the driver's model.
Report ==
  [current |-> Supply!ReadCurrent, voltage |-> 0, isOn |-> Supply!IsPowerCircuitOn,
   polarity |-> FALSE, reset |-> FALSE, remote |-> Supply!IsRemote, errors |-> 0,
   polaritySet |-> FALSE, isOnSet |-> Supply!GetIsOnSet,
   currentSet |-> Supply!GetLastSetCurrent]

\* Faulty variant: in local mode the request fails instead.
CallbackReturnsFaulty ==
  /\ phase = "callback"
  /\ caller = "callback"
  /\ pc = "idle"
  /\ IF Supply!IsRemote
     THEN Answer(0, IF Fc(buf) = 4 THEN Handlers!RegistersOf(Report) ELSE <<>>)
     ELSE Answer(4, <<>>)
  /\ caller' = "none"
  /\ UNCHANGED <<supplyVars, events, since>>

\* The end of a callback: the response is made of the state the driver is in.
CallbackReturns ==
  /\ phase = "callback"
  /\ caller = "callback"
  /\ pc = "idle"
  /\ Answer(0, IF Fc(buf) = 4 THEN Handlers!RegistersOf(Report) ELSE <<>>)
  /\ caller' = "none"
  /\ UNCHANGED <<supplyVars, events, since>>
-----------------------------------------------------------------------------
(***************************************************************************)
(* waitAndHandleRequest: nmbs_server_poll, and after an error the supply   *)
(* is talked to; a timeout of the first byte counts as an error here.      *)
(***************************************************************************)
\* Faulty variant: the next poll does not wait for the supply.
PollStepFaulty ==
  /\ ServerStep
  /\ UNCHANGED <<supplyVars, caller, events, since>>

PollStep ==
  /\ caller = "none"
  /\ ServerStep
  /\ phase = "returned" => result = "none"
  /\ UNCHANGED <<supplyVars, caller, events, since>>

\* Faulty variant: the timeout of the first byte is no error.
RefreshAfterErrorFaulty ==
  /\ phase = "returned"
  /\ result # "none"
  /\ caller = "none"
  /\ IF result = "firstByteTimeout"
     THEN /\ Poll
          /\ UNCHANGED <<supplyVars, caller, events, since>>
     ELSE /\ Supply!Refresh
          /\ caller' = "loop"
          /\ UNCHANGED <<vars, events, since>>

RefreshAfterError ==
  /\ phase = "returned"
  /\ result # "none"
  /\ caller = "none"
  /\ Supply!Refresh
  /\ caller' = "loop"
  /\ UNCHANGED <<vars, events, since>>

PollAfterRefresh ==
  /\ caller = "loop"
  /\ pc = "idle"
  /\ Poll
  /\ caller' = "none"
  /\ UNCHANGED <<supplyVars, events, since>>

CommunicateStep ==
  /\ Supply!Communicate
  /\ UNCHANGED <<vars, caller, events, since>>
-----------------------------------------------------------------------------
(***************************************************************************)
(* The world outside of the controller.                                    *)
(***************************************************************************)
BusStep ==
  /\ Bus
  /\ UNCHANGED <<supplyVars, caller, events, since>>

SupplyStep ==
  /\ events < MaxEvents
  /\ Supply!Supply
  /\ events' = events + 1
  /\ UNCHANGED <<vars, caller, since>>

\* The controller restarts, in the middle of a message or of a call of the supply
\* as well: server and driver are created anew, the bus and the supply go on.
FirmwareRestart ==
  /\ Restart
  /\ Supply!Reboot
  /\ caller' = "none"
  /\ UNCHANGED <<events, since>>
-----------------------------------------------------------------------------
FirmwareInit ==
  /\ Init
  /\ Supply!Init
  /\ caller = "none"
  /\ events = 0
  /\ since = 0

Controller ==
  \/ PollStep
  \/ handleReadData
  \/ handleWriteData
  \/ CommunicateStep
  \/ CallbackReturns
  \/ RefreshAfterError
  \/ PollAfterRefresh

FirmwareNext == Controller \/ BusStep \/ SupplyStep \/ FirmwareRestart

\* The loop in main never ends, and each of its steps comes to an end.
FirmwareSpec == FirmwareInit /\ [][FirmwareNext]_allVars /\ WF_allVars(Controller)
-----------------------------------------------------------------------------
(***************************************************************************)
(* Properties.                                                             *)
(***************************************************************************)

\* One thread: the supply is talked to for a callback while that request is
\* being handled, or for the loop between two polls, and at no other time.
OneThread ==
  /\ caller \in {"none", "callback", "loop"}
  /\ caller = "callback" => phase = "callback"
  /\ caller = "loop" => phase = "returned" /\ result # "none"
  /\ pc # "idle" => caller # "none"
  /\ events \in 0..MaxEvents /\ since \in 0..events

\* A response sent in this step, and no exception.
Sends(fc) == Len(replies') > Len(replies) /\ Last(replies').bytes[2] = fc

\* Was the supply left alone since the request reached its callback?
LeftAlone == since = events

BitOf(word, i) == (word \div 2^i) % 2 = 1

\* A read response tells the mode and the circuit as they are now, also after
\* they changed without the controller, provided the supply was left alone from
\* the moment the request was accepted (handleReadData calls the supply first).
\* It tells the set current that the supply works with as well, if that came from
\* this controller and is not one it measured.
ReadTellsTruth ==
  [][Sends(4) /\ LeftAlone =>
       LET bytes  == Last(replies').bytes
           status == Word(bytes, 4)
       IN  /\ BitOf(status, Handlers!currentReadBits) = dev.on
           /\ BitOf(status, Handlers!currentReadBits + 3) = dev.remote
           /\ owned /\ ~copied => <<bytes[8], bytes[9]>> = Bytes2(dev.set)]_allVars

\* The data types that this power supply has (setStatus, PowerSupply200A.hpp).
HasType(msg) == Handlers!DataType(msg) \in {Handlers!IS_ON, Handlers!CURRENT}

\* A write is acknowledged only if the supply has what it writes, and when the supply
\* has done it, if it is in remote mode and was left alone: what was decoded from
\* the coils is what it works with.
AcknowledgedIsDone ==
  [][Sends(15) =>
       /\ HasType(buf)
       /\ LeftAlone /\ dev.remote =>
            IF Handlers!DataType(buf) = Handlers!CURRENT
            THEN dev.set = Handlers!Value(buf)
            ELSE dev.on = (Handlers!Value(buf) # 0)]_allVars

\* What the supply is asked for came over the bus as it is: no tail of a message
\* that a restart cut in two, with the head of the next one, is taken for a request.
AcceptedWasSent == phase = "callback" => buf \in Range(heard)

\* A frame changes the supply only for a write request, one that was sent to this
\* unit or to all and names a data type the supply has: no error, timeout, foreign
\* message, read, refused write or restart ever does.
\* The one exception is the frame of local mode, when the key was turned under it.
\* And while the supply runs on this driver's frame, only what the request names
\* changes.
OnlyWritesChange ==
  [][CommunicateStep /\ dev' # dev =>
       \/ pc = "sync" /\ touched
       \/ /\ caller = "callback"
          /\ Fc(buf) = 15 /\ buf \in Range(heard) /\ ForUs(buf) /\ HasType(buf)
          /\ owned =>
               IF Handlers!DataType(buf) = Handlers!CURRENT
               THEN dev' = [dev EXCEPT !.set = Handlers!Value(buf)]
               ELSE dev' = [dev EXCEPT !.on = (Handlers!Value(buf) # 0)]]_allVars

\* How far a poll is from its end: the pieces it may still read, each weighing more
\* than a whole call of the supply, and the frames that call has left.
PiecesLeft ==
  CASE phase = "unit"         -> 0
    [] phase = "returned"     -> 1
    [] phase = "flush"        -> 2
    [] phase = "resFooter"    -> 3
    [] phase \in {"resData", "resFixed", "resException"} -> 4
    [] phase = "resCount"     -> 5
    [] phase = "resFc"        -> 6
    [] phase = "resUnit"      -> 7
    [] phase = "callback"     -> 8
    [] phase = "footer"       -> 9
    [] phase = "data"         -> 10
    [] phase = "fixed"        -> 11
    [] phase = "fc"           -> 12

FramesLeft ==
  IF caller = "none" THEN Supply!Exchanges + 3   \* a call may still begin
  ELSE CASE pc = "exchange" -> Supply!Exchanges + 2 - done
         [] pc = "average"  -> 2
         [] pc = "sync"     -> 1
         [] pc = "idle"     -> 0

StepsLeft == PiecesLeft * (Supply!Exchanges + 4) + FramesLeft

\* A poll, with its callback and the calls of the supply, comes to its end after a
\* bounded number of steps of the controller: each one brings the end nearer, and
\* neither the traffic on the bus nor what happens at the supply puts it off.
PollsEnd ==
  [][phase # "unit" =>
       \/ StepsLeft' < StepsLeft
       \/ StepsLeft' = StepsLeft /\ (BusStep \/ SupplyStep)
       \/ FirmwareRestart]_allVars

\* CMakeLists.txt:9 gives the supply a communication interval, 200 ms
\* (COMMUNICATION_WITH_PS_INTERVAL): the supply is talked to again and again, so
\* that in local mode the driver's frame goes on following the panel.
SupplyIsFollowed == []<>(pc = "exchange")

\* What the code does about it: the interval is the timeout of the first byte of a
\* poll, and every error of a poll, this one included, is followed by a talk to the
\* supply.  Unless polls go on ending without an error, for messages that reach no
\* supply, the supply is followed for ever.
FollowedUnlessServing ==
  \/ []<>(pc = "exchange")
  \/ []<>(phase = "returned" /\ result = "none")

\* Seen from the bus, the firmware is the server of NmbsServer with callbacks that
\* always return: whatever the supply does, every request that was accepted gets
\* the response it would get from that server.
ImplementsServer == Spec
=============================================================================

--------------------------- MODULE PowerSupply200A ---------------------------
(***************************************************************************)
(* The driver of the 200 A power supply, class PowerSupply of              *)
(* src/powerSupply/PowerSupply200A.hpp, together with the supply it talks  *)
(* to over SPI and the operator at the front panel of that supply.         *)
(*                                                                         *)
(* The driver keeps the frame it sends (psBufOut), the last frame it       *)
(* received (psBufIn), the average of the current measurements of the last *)
(* call of safeCommunicationWithPS, and the last current a client asked    *)
(* for.  One call of safeCommunicationWithPS exchanges several frames, and *)
(* the supply and its panel go on working between two of them: that is why *)
(* every exchange is a step of its own here.                               *)
(*                                                                         *)
(* What the source says about the supply, and the model takes from there:  *)
(*   - a frame carries a set current, an on/off bit and two "confirm       *)
(*     current write" bits, always equal (PowerSupply200AConsts.h:50-66,   *)
(*     setCurrentWrite);                                                   *)
(*   - the supply acts on the frame only when the confirm bits are on      *)
(*     ("write protection", PowerSupply200A.hpp:68) and it is in remote    *)
(*     mode;                                                               *)
(*   - the status the supply returns in an exchange is the one before it   *)
(*     acts on that frame, because both travel at the same time.           *)
(* Voltage, error bits and polarity are data the driver only passes on,    *)
(* and the model leaves them out.                                          *)
(***************************************************************************)
EXTENDS Integers

CONSTANTS
  MaxIn,               \* largest measured current, maxPossibleValue(psCurrentLen)
  MaxOut,              \* largest set current, maxPossibleValue(psOUTCurrentLen)
  AvrgComponentCount,  \* AVRG_COMPONENT_COUNT
  Scale                \* units of the float average per unit of the measured sum

ASSUME MaxInAssumption  == MaxIn \in Nat \ {0}
ASSUME MaxOutAssumption == MaxOut \in Nat \ {0}
ASSUME CountAssumption  == AvrgComponentCount \in Nat
ASSUME ScaleAssumption  == Scale \in Nat \ {0}

VARIABLES
  out,          \* psBufOut: set current, on/off bit, confirm bits
  in,           \* psBufIn: remote and on/off bits of the last exchange
  avrgCurrent,  \* the float of that name, in units of full scale / FullScale
  currentSet,   \* the last current a client asked for
  pc,           \* where safeCommunicationWithPS is; "idle" outside of it
  done,         \* frames exchanged so far by its averaging loop
  dev,          \* the supply: set current, on/off, remote/local
  touched,      \* history: panel, trip or reboot since the last call began
  owned,        \* history: the supply runs on a frame of this driver, untouched since
  copied,       \* history: out.current was measured in local mode, not asked for
  asked         \* history: what the last call was asked to write

driverVars  == <<out, in, avrgCurrent, currentSet, pc, done>>
historyVars == <<touched, owned, copied, asked>>
vars        == <<driverVars, dev, historyVars>>
-----------------------------------------------------------------------------
(***************************************************************************)
(* Operators of the driver.                                                *)
(***************************************************************************)

\* Faulty variant: one communication per call.
ExchangesFaulty == 1

\* Exchanges whose measurements are averaged: two calls and the loop from 2.
Exchanges == IF AvrgComponentCount > 2 THEN AvrgComponentCount ELSE 2

\* The average that stands for PS_MAX_CURRENT.
FullScale == Exchanges * (Scale * MaxIn)

\* Faulty variant: 1 << len without the - 1 of maxPossibleValue.
SetpointLevelFaulty(avrg) == (avrg * (MaxOut + 1)) \div FullScale

\* avrgCurrent as a setpoint: the float product truncated to an integer.
SetpointLevel(avrg) == (avrg * MaxOut) \div FullScale

\* avrgCurrent as a measurement.
ReadCurrent == avrgCurrent \div (Exchanges * Scale)

IsRemote == in.remote

IsPowerCircuitOn == in.on

GetIsOnSet == out.on

GetLastSetCurrent == IF IsRemote THEN currentSet ELSE SetpointLevel(avrgCurrent)

SetCurrentWrite(buf, st) == [buf EXCEPT !.confirm = st]

\* Faulty variants: setCurrentWrite(1) forgotten.
SetPowerCircuitFaulty(buf, st) == [buf EXCEPT !.on = st]
SetCurrentFaulty(buf, val) == [buf EXCEPT !.current = val]

SetPowerCircuit(buf, st) == [SetCurrentWrite(buf, TRUE) EXCEPT !.on = st]

SetCurrent(buf, val) == [SetCurrentWrite(buf, TRUE) EXCEPT !.current = val]

\* What the division by the number of components can leave in the float: the
\* exact sum, or a neighbour of it.  Nothing and full scale are exact.
Rounded(sum) ==
  IF sum \in {0, FullScale} THEN {sum} ELSE {sum - 1, sum, sum + 1}
-----------------------------------------------------------------------------
(***************************************************************************)
(* The supply: what it answers to a frame, and how it acts on it.          *)
(***************************************************************************)

Status == [remote |-> dev.remote, on |-> dev.on]

Accepts == out.confirm /\ dev.remote

AfterFrame ==
  IF Accepts THEN [dev EXCEPT !.set = out.current, !.on = out.on] ELSE dev

\* Faulty variant: setCurrentWrite(0) forgotten.
ExchangeFrameFaulty ==
  /\ in' = Status
  /\ dev' = AfterFrame
  /\ out' = out
  /\ owned' = (owned \/ Accepts)

\* comunicateWithPS: the frames cross, then the driver turns its confirm
\* bits off.
ExchangeFrame ==
  /\ in' = Status
  /\ dev' = AfterFrame
  /\ out' = SetCurrentWrite(out, FALSE)
  /\ owned' = (owned \/ Accepts)
-----------------------------------------------------------------------------
(***************************************************************************)
(* The driver's state at power-on, and the supply's: anything at all.      *)
(***************************************************************************)

Devices   == [set: 0..MaxOut, on: BOOLEAN, remote: BOOLEAN]
OutFrames == [current: 0..MaxOut, on: BOOLEAN, confirm: BOOLEAN]
InFrames  == [remote: BOOLEAN, on: BOOLEAN]

ConstructedOut == [current |-> 0, on |-> FALSE, confirm |-> FALSE]
ConstructedIn  == [remote |-> FALSE, on |-> FALSE]

Init ==
  /\ out = ConstructedOut
  /\ in = ConstructedIn
  /\ avrgCurrent = 0
  /\ currentSet = 0
  /\ pc = "idle"
  /\ done = 0
  /\ dev \in Devices
  /\ touched = TRUE
  /\ owned = FALSE
  /\ copied = FALSE
  /\ asked = "none"
-----------------------------------------------------------------------------
(***************************************************************************)
(* Steps of the driver.                                                    *)
(***************************************************************************)

\* The head of safeCommunicationWithPS, for a call asked to write `what`.
BeginCommunication(what) ==
  /\ pc = "idle"
  /\ pc' = "exchange"
  /\ done' = 0
  /\ avrgCurrent' = 0
  /\ asked' = what
  /\ touched' = FALSE
  /\ UNCHANGED <<in, dev, owned>>

\* safeCommunicationWithPS alone: for a read request, or after an error.
Refresh ==
  /\ BeginCommunication("none")
  /\ UNCHANGED <<out, currentSet, copied>>

\* setStatus(0, value), then safeCommunicationWithPS.
SetStatusIsOn(value) ==
  /\ BeginCommunication(IF value # 0 THEN "on" ELSE "off")
  /\ out' = SetPowerCircuit(out, value # 0)
  /\ UNCHANGED <<currentSet, copied>>

\* Faulty variant: currentSet is not remembered.
SetStatusCurrentFaulty(value) ==
  /\ BeginCommunication("current")
  /\ out' = SetCurrent(out, value)
  /\ copied' = FALSE
  /\ UNCHANGED currentSet

\* setStatus(3, value), then safeCommunicationWithPS.
SetStatusCurrent(value) ==
  /\ BeginCommunication("current")
  /\ currentSet' = value
  /\ out' = SetCurrent(out, value)
  /\ copied' = FALSE

\* Faulty variant: the average is begun anew when the mode has changed.
ExchangeAnew(measured) ==
  /\ pc = "exchange"
  /\ ExchangeFrame
  /\ IF dev.remote = in.remote
     THEN /\ avrgCurrent' = avrgCurrent + measured * Scale
          /\ done' = done + 1
     ELSE avrgCurrent' = 0 /\ done' = 0
  /\ pc' = IF done' = Exchanges THEN "average" ELSE "exchange"
  /\ UNCHANGED <<currentSet, touched, copied, asked>>

\* One round of the averaging loop: comunicateWithPS, then += freadCurrent().
Exchange(measured) ==
  /\ pc = "exchange"
  /\ ExchangeFrame
  /\ avrgCurrent' = avrgCurrent + measured * Scale
  /\ done' = done + 1
  /\ pc' = IF done + 1 = Exchanges THEN "average" ELSE "exchange"
  /\ UNCHANGED <<currentSet, touched, copied, asked>>

\* Faulty variants: the frame follows the supply in remote mode too; the on/off
\* bit does not follow it.
FinishAveragingAlways ==
  /\ pc = "average"
  /\ avrgCurrent' \in Rounded(avrgCurrent)
  /\ pc' = "sync"
  /\ out' = SetCurrent(SetPowerCircuit(out, IsPowerCircuitOn),
                       SetpointLevel(avrgCurrent'))
  /\ copied' = TRUE
  /\ UNCHANGED <<in, currentSet, done, dev, touched, owned, asked>>
FinishAveragingNoCircuit ==
  /\ pc = "average"
  /\ avrgCurrent' \in Rounded(avrgCurrent)
  /\ IF IsRemote
     THEN /\ pc' = "idle"
          /\ UNCHANGED <<out, copied>>
     ELSE /\ pc' = "sync"
          /\ out' = SetCurrent(out, SetpointLevel(avrgCurrent'))
          /\ copied' = TRUE
  /\ UNCHANGED <<in, currentSet, done, dev, touched, owned, asked>>

\* The division, and in local mode the frame is made to follow the supply.
FinishAveraging ==
  /\ pc = "average"
  /\ avrgCurrent' \in Rounded(avrgCurrent)
  /\ IF IsRemote
     THEN /\ pc' = "idle"
          /\ UNCHANGED <<out, copied>>
     ELSE /\ pc' = "sync"
          /\ out' = SetCurrent(SetPowerCircuit(out, IsPowerCircuitOn),
                               SetpointLevel(avrgCurrent'))
          /\ copied' = TRUE
  /\ UNCHANGED <<in, currentSet, done, dev, touched, owned, asked>>

\* The last frame of a call in local mode; what it measures is not used.
SyncExchange ==
  /\ pc = "sync"
  /\ ExchangeFrame
  /\ pc' = "idle"
  /\ UNCHANGED <<avrgCurrent, currentSet, done, touched, copied, asked>>

\* The controller restarts: a new PowerSupply object, the supply goes on.
Reboot ==
  /\ out' = ConstructedOut
  /\ in' = ConstructedIn
  /\ avrgCurrent' = 0
  /\ currentSet' = 0
  /\ pc' = "idle"
  /\ done' = 0
  /\ touched' = TRUE
  /\ owned' = FALSE
  /\ copied' = FALSE
  /\ asked' = "none"
  /\ UNCHANGED dev
-----------------------------------------------------------------------------
(***************************************************************************)
(* The supply's own steps, at any moment between two exchanges.            *)
(***************************************************************************)

TouchDevice ==
  /\ touched' = TRUE
  /\ owned' = FALSE
  /\ UNCHANGED <<driverVars, copied, asked>>

\* The operator turns the remote/local key.
PanelMode ==
  /\ dev' = [dev EXCEPT !.remote = ~dev.remote]
  /\ TouchDevice

\* In local mode the panel sets the current and switches the circuit.
PanelAdjust ==
  /\ ~dev.remote
  /\ dev' \in Devices
  /\ dev'.remote = FALSE
  /\ dev' # dev
  /\ TouchDevice

\* An external or collective error switches the circuit off.
Trip ==
  /\ dev.on
  /\ dev' = [dev EXCEPT !.on = FALSE]
  /\ TouchDevice
-----------------------------------------------------------------------------
Call ==
  \/ Refresh
  \/ \E value \in 0..MaxOut : SetStatusIsOn(value) \/ SetStatusCurrent(value)

Communicate ==
  \/ \E measured \in 0..MaxIn : Exchange(measured)
  \/ FinishAveraging
  \/ SyncExchange

Supply == PanelMode \/ PanelAdjust \/ Trip

Next == Call \/ Communicate \/ Reboot \/ Supply

Spec == Init /\ [][Next]_vars /\ WF_vars(Communicate)
-----------------------------------------------------------------------------
(***************************************************************************)
(* Properties.                                                             *)
(***************************************************************************)

\* Types: the currents stay within the width of the frame's fields, the average
\* within full scale, the loop within its number of exchanges.
TypeOK ==
  /\ out \in OutFrames
  /\ in \in InFrames
  /\ avrgCurrent \in 0..FullScale
  /\ currentSet \in 0..MaxOut
  /\ pc \in {"idle", "exchange", "average", "sync"}
  /\ done \in 0..Exchanges
  /\ dev \in Devices
  /\ touched \in BOOLEAN
  /\ owned \in BOOLEAN
  /\ copied \in BOOLEAN
  /\ asked \in {"none", "on", "off", "current"}

\* Writing is enabled in at most one frame per request, the first one of the
\* loop, and in the frame that follows the supply in local mode: all the
\* others are write protected (PowerSupply200A.hpp:68, setCurrentWrite(0)).
WriteEnabledOnce ==
  out.confirm => pc = "sync" \/ (pc = "exchange" /\ done = 0)

\* As long as nobody touches a supply in remote mode after it accepted a
\* frame, it runs on exactly what the driver's frame still says: psBufOut is
\* a true copy, so a later write of one parameter repeats the other one.
OwnedAgrees ==
  owned /\ ~out.confirm => dev.set = out.current /\ dev.on = out.on

\* When a call returns and the supply was left alone during it, the status
\* bits handed to the client are those of the supply after the write, not the
\* ones before it: a status lags its frame, and the loop makes up for it.
ReportFresh ==
  pc = "idle" /\ ~touched => IsRemote = dev.remote /\ IsPowerCircuitOn = dev.on

\* When a call returns in local mode, the frame repeats the supply: the same
\* on/off, and the current that was measured.  A switch to remote mode then
\* starts from what the panel had set (safeCommunicationWithPS, lines 82-86).
LocalTracks ==
  pc = "idle" /\ ~touched /\ ~dev.remote =>
    /\ out.on = dev.on
    /\ out.current = SetpointLevel(avrgCurrent)
    /\ GetLastSetCurrent = out.current

\* A write to a supply that is and stays in remote mode has been carried out
\* by the time the call returns, whatever the frame held before.
WriteTakesEffect ==
  pc = "idle" /\ ~touched /\ dev.remote =>
    /\ asked = "current" => dev.set = currentSet
    /\ asked \in {"on", "off"} => dev.on = (asked = "on")

\* The set current reported in remote mode is the one the supply works with,
\* unless the driver's frame holds a current it measured in local mode.
SetCurrentReported ==
  pc = "idle" /\ ~touched /\ owned /\ ~copied => GetLastSetCurrent = dev.set

\* While the supply runs on this driver's frame, an exchange changes only the
\* parameter its request was about: never the current for an on/off request,
\* never the circuit for a current request, nothing at all for a read.
OnlyWhatWasAsked ==
  [][owned /\ owned' /\ ~touched' =>
       /\ dev'.set # dev.set => asked = "current"
       /\ dev'.on # dev.on => asked \in {"on", "off"}]_vars

\* A circuit that is open, for instance because the protection of the supply opened
\* it, is closed by no later frame of a loop and by no read or refresh alone, though
\* psBufOut keeps the old on/off bit (line 180) and only the confirm bits stop a
\* frame from repeating it.  Two frames may close it: the first one of a write, and
\* the frame of local mode (lines 82-86), during a read as well, if the circuit was
\* closed and the key at local in the exchange before and somebody opened the one
\* and turned the other since.
ClosedByWriteOrSync ==
  [][Communicate /\ ~dev.on /\ dev'.on =>
       \/ pc = "exchange" /\ done = 0 /\ asked \in {"on", "current"}
       \/ pc = "sync" /\ touched /\ in.on /\ ~in.remote]_vars

\* "there won't be any unexpected change in set current" (lines 68-69): a
\* frame changes the supply's set current only for a current request.
NoUnexpectedSetChange ==
  [][Communicate => (dev'.set # dev.set => asked = "current")]_vars

\* The same claim about the frame sent in local mode (lines 82-86): it only
\* brings the frame in line with the supply and changes nothing.
SyncChangesNothing ==
  [][SyncExchange => dev' = dev]_vars
=============================================================================

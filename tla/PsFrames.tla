------------------------------- MODULE PsFrames -------------------------------
(***************************************************************************)
(* The driver of the 200 A supply with its two buffers as the bits they    *)
(* are (PsBits), run by the firmware or by the interactive test program of *)
(* src/testPS.cpp, which also uses the setters the firmware does not.      *)
(*                                                                         *)
(* For the firmware this module implements PowerSupply200A: the frame and  *)
(* the status that module speaks of are what the supply decodes from       *)
(* psBufOut and what the driver decodes from psBufIn, at their full width. *)
(* What happens at the supply and does not touch the buffers is taken from *)
(* that module.                                                            *)
(***************************************************************************)
EXTENDS PsBits

CONSTANTS
  AvrgComponentCount, Scale,
  Readings,   \* what the supply's meters and error lines may read
  Setpoints,  \* the set currents that are asked for, or set at the panel
  Amperes,    \* the currents that are typed in as a float, whole ones
  MaxTyped    \* bound: commands typed into the test program

MaxIn  == maxPossibleValue(psCurrentLen)
MaxOut == maxPossibleValue(psOUTCurrentLen)

\* What the bits of the status frame can tell.
ReadingRecords ==
  [current: 0..MaxIn, voltage: 0..maxPossibleValue(psVoltageLen),
   colective: BOOLEAN, external: BOOLEAN, polarisation1: BOOLEAN, polarisation2: BOOLEAN]

ASSUME CountAssumption     == AvrgComponentCount \in Nat
ASSUME ScaleAssumption     == Scale \in Nat \ {0}
ASSUME ReadingsAssumption  == Readings \subseteq ReadingRecords
ASSUME SetpointsAssumption == Setpoints \subseteq 0..MaxOut
ASSUME AmperesAssumption   == Amperes \subseteq Int
ASSUME TypedAssumption     == MaxTyped \in Nat

VARIABLES
  psBufOut, psBufIn,
  avrgCurrent, currentSet, pc, done, dev, touched, owned, copied, asked,
  program,  \* what is flashed: the firmware, or the test program
  sent,     \* history: the reading, mode and circuit the supply sent last
  written,  \* history: what was written to each field of psBufOut last
  typed     \* history: commands typed in so far

driverVars == <<psBufOut, psBufIn, avrgCurrent, currentSet, pc, done>>
vars == <<driverVars, dev, touched, owned, copied, asked, program, sent, written, typed>>

\* The frame as the supply decodes it, and the status as the driver does.
OutView ==
  [current |-> CurrentArrived(Register(psBufOut)),
   on      |-> Arrived(Register(psBufOut), psOUTPowerCircuitPos),
   confirm |-> /\ Arrived(Register(psBufOut), psOUTConfirmCurrentWrite1Pos)
               /\ Arrived(Register(psBufOut), psOUTConfirmCurrentWrite2Pos)]

isRemote         == getBit(psBufIn, psStatusRemoteControlPos)
isPowerCircuitOn == getBit(psBufIn, psStatusPowerCircuitPos)

Driver == INSTANCE PowerSupply200A WITH
  out <- OutView, in <- [remote |-> isRemote, on |-> isPowerCircuitOn]
-----------------------------------------------------------------------------
readVoltage  == readUint(psBufIn, psVoltagePos, psVoltageLen)
readPolarity == /\ getBit(psBufIn, psStatusPolarisation1Pos)
                /\ getBit(psBufIn, psStatusPolarisation2Pos)
readErrors   == 2 * Bit(getBit(psBufIn, psStatusErrorExternalPos))
                  + Bit(getBit(psBufIn, psStatusErrorColectivePos))

readCurrentRaw(buf) == readUint(buf, psCurrentPos, psCurrentLen)

\* Faulty variant: writing stays enabled after the frame.
comunicateWithPSFaulty(reading) ==
  /\ psBufIn' = StatusFrame(reading, dev.remote, dev.on)
  /\ dev' = Driver!AfterFrame
  /\ owned' = (owned \/ Driver!Accepts)
  /\ UNCHANGED psBufOut
  /\ sent' = [reading |-> reading, remote |-> dev.remote, on |-> dev.on]

\* comunicateWithPS: both frames at once, then writing is disabled.
comunicateWithPS(reading) ==
  /\ psBufIn' = StatusFrame(reading, dev.remote, dev.on)
  /\ dev' = Driver!AfterFrame
  /\ owned' = (owned \/ Driver!Accepts)
  /\ psBufOut' = setCurrentWrite(psBufOut, FALSE)
  /\ sent' = [reading |-> reading, remote |-> dev.remote, on |-> dev.on]
-----------------------------------------------------------------------------
NothingWritten ==
  [current |-> 0, on |-> FALSE, reset |-> FALSE, electronicReset |-> FALSE,
   green |-> FALSE, red |-> FALSE]

NothingSent ==
  [reading |-> [current |-> 0, voltage |-> 0, colective |-> FALSE, external |-> FALSE,
                polarisation1 |-> FALSE, polarisation2 |-> FALSE],
   remote |-> FALSE, on |-> FALSE]

\* The buffers of a new PowerSupply object.
ZeroOut == [p \in OutBits |-> FALSE]
ZeroIn  == [p \in InBits |-> FALSE]

\* Where a program begins: main of the firmware waits for a request, the test
\* program talks to the supply first.
Beginning(prog) == IF prog = "test" THEN "start" ELSE "idle"

Init ==
  /\ psBufOut = ZeroOut
  /\ psBufIn = ZeroIn
  /\ avrgCurrent = 0
  /\ currentSet = 0
  /\ done = 0
  /\ program \in {"firmware", "test"}
  /\ pc = Beginning(program)
  /\ dev \in [set: Setpoints, on: BOOLEAN, remote: BOOLEAN]
  /\ touched = TRUE
  /\ owned = FALSE
  /\ copied = FALSE
  /\ asked = "none"
  /\ sent = NothingSent
  /\ written = NothingWritten
  /\ typed = 0
-----------------------------------------------------------------------------
(***************************************************************************)
(* Calls of the firmware.                                                  *)
(***************************************************************************)
Calls(what) ==
  /\ program = "firmware"
  /\ UNCHANGED psBufIn
  /\ Driver!BeginCommunication(what)
  /\ UNCHANGED <<program, sent, typed>>

Refresh ==
  /\ Calls("none")
  /\ UNCHANGED <<psBufOut, currentSet, copied, written>>

SetStatusIsOn(value) ==
  /\ Calls(IF value # 0 THEN "on" ELSE "off")
  /\ psBufOut' = setPowerCircuit(psBufOut, value # 0)
  /\ written' = [written EXCEPT !.on = (value # 0)]
  /\ UNCHANGED <<currentSet, copied>>

SetStatusCurrent(value) ==
  /\ Calls("current")
  /\ currentSet' = value
  /\ psBufOut' = setCurrent(psBufOut, value)
  /\ copied' = FALSE
  /\ written' = [written EXCEPT !.current = value]
-----------------------------------------------------------------------------
(***************************************************************************)
(* The test program: after every communication it writes back the circuit  *)
(* bit it read, does what is typed in, and communicates again.             *)
(***************************************************************************)
TestCalls ==
  /\ program = "test"
  /\ pc' = "exchange"
  /\ done' = 0
  /\ avrgCurrent' = 0
  /\ UNCHANGED <<psBufIn, currentSet, dev, touched, owned, copied, asked, program, sent>>

TestStarts ==
  /\ pc = "start"
  /\ TestCalls
  /\ UNCHANGED <<psBufOut, written, typed>>

\* setCurrent(float): the set current and whether it is written at all.
PS_MAX_CURRENT == 200
InRange(crr)   == crr \in 0..PS_MAX_CURRENT
Converted(crr) == (crr * MaxOut) \div PS_MAX_CURRENT

\* A command, done to the frame that holds the circuit bit already.
TestCommand(buf, w) ==
  \/ \E val \in Setpoints :
       /\ psBufOut' = setCurrent(buf, val)
       /\ written' = [w EXCEPT !.current = val]
  \/ \E crr \in Amperes :
       IF InRange(crr)
       THEN /\ psBufOut' = setCurrent(buf, Converted(crr))
            /\ written' = [w EXCEPT !.current = Converted(crr)]
       ELSE psBufOut' = buf /\ written' = w
  \/ \E st \in BOOLEAN :
       \/ /\ psBufOut' = setPowerCircuit(buf, st)
          /\ written' = [w EXCEPT !.on = st]
       \/ /\ psBufOut' = setReset(buf, st)
          /\ written' = [w EXCEPT !.reset = st]
       \/ /\ psBufOut' = setElectronicReset(buf, st)
          /\ written' = [w EXCEPT !.electronicReset = st]
       \/ /\ psBufOut' = setLedGreen(buf, st)
          /\ written' = [w EXCEPT !.green = st]
       \/ /\ psBufOut' = setLedRed(buf, st)
          /\ written' = [w EXCEPT !.red = st]

TestTurn ==
  LET buf == setPowerCircuit(psBufOut, isPowerCircuitOn)
      w   == [written EXCEPT !.on = isPowerCircuitOn]
  IN  /\ pc = "idle"
      /\ TestCalls
      /\ \/ psBufOut' = buf /\ written' = w /\ typed' = typed
         \/ typed < MaxTyped /\ TestCommand(buf, w) /\ typed' = typed + 1
-----------------------------------------------------------------------------
(***************************************************************************)
(* safeCommunicationWithPS.                                                *)
(***************************************************************************)
Exchange(reading) ==
  /\ pc = "exchange"
  /\ comunicateWithPS(reading)
  /\ avrgCurrent' = avrgCurrent + readCurrentRaw(psBufIn') * Scale
  /\ done' = done + 1
  /\ pc' = IF done + 1 = Driver!Exchanges THEN "average" ELSE "exchange"
  /\ UNCHANGED <<currentSet, touched, copied, asked, program, written, typed>>

FinishAveraging ==
  /\ pc = "average"
  /\ avrgCurrent' \in Driver!Rounded(avrgCurrent)
  /\ LET level == Driver!SetpointLevel(avrgCurrent')
     IN  IF isRemote
         THEN /\ pc' = "idle"
              /\ UNCHANGED <<psBufOut, copied, written>>
         ELSE /\ pc' = "sync"
              /\ psBufOut' = setCurrent(setPowerCircuit(psBufOut, isPowerCircuitOn), level)
              /\ copied' = TRUE
              /\ written' = [written EXCEPT !.on = isPowerCircuitOn, !.current = level]
  /\ UNCHANGED <<psBufIn, currentSet, done, dev, touched, owned, asked, program, sent, typed>>

SyncExchange(reading) ==
  /\ pc = "sync"
  /\ comunicateWithPS(reading)
  /\ pc' = "idle"
  /\ UNCHANGED <<avrgCurrent, currentSet, done, touched, copied, asked, program, written, typed>>

Reboot ==
  /\ psBufOut' = ZeroOut
  /\ psBufIn' = ZeroIn
  /\ avrgCurrent' = 0
  /\ currentSet' = 0
  /\ done' = 0
  /\ pc' = Beginning(program)
  /\ touched' = TRUE
  /\ owned' = FALSE
  /\ copied' = FALSE
  /\ asked' = "none"
  /\ sent' = NothingSent
  /\ written' = NothingWritten
  /\ UNCHANGED <<dev, program, typed>>
-----------------------------------------------------------------------------
\* The panel and the protection, as in PowerSupply200A.
SupplyStep ==
  /\ UNCHANGED <<driverVars, program, sent, written, typed>>
  /\ \/ Driver!PanelMode
     \/ \E set \in Setpoints, on \in BOOLEAN :
          /\ dev' = [dev EXCEPT !.set = set, !.on = on]
          /\ dev' # dev
          /\ ~dev.remote
          /\ Driver!TouchDevice
     \/ Driver!Trip

Call ==
  \/ Refresh
  \/ \E value \in Setpoints : SetStatusIsOn(value) \/ SetStatusCurrent(value)

Communicate ==
  \/ \E reading \in Readings : Exchange(reading) \/ SyncExchange(reading)
  \/ FinishAveraging

Next == Call \/ TestStarts \/ TestTurn \/ Communicate \/ Reboot \/ SupplyStep

Spec == Init /\ [][Next]_vars /\ WF_vars(Communicate)
-----------------------------------------------------------------------------
(***************************************************************************)
(* Properties.                                                             *)
(***************************************************************************)

\* The set current the supply decodes is the one that was written last, to the
\* last bit, whatever was written to the other fields since: setUint, its reversal
\* byte by byte and the words that go out three times put each bit where the
\* supply looks for it.
CurrentAsWritten == CurrentArrived(Register(psBufOut)) = written.current

\* And so is each control bit; both confirm bits are always equal, so that no
\* supply can take one write for half enabled.
ControlAsWritten ==
  LET reg == Register(psBufOut)
  IN  /\ Arrived(reg, psOUTPowerCircuitPos) = written.on
      /\ Arrived(reg, psOUTPsResetPos) = written.reset
      /\ Arrived(reg, psOUTElectronicResetPos) = written.electronicReset
      /\ Arrived(reg, greenLed) = written.green
      /\ Arrived(reg, redLed) = written.red
      /\ Arrived(reg, psOUTConfirmCurrentWrite1Pos)
           = Arrived(reg, psOUTConfirmCurrentWrite2Pos)

\* "unused always 0" (PowerSupply200AConsts.h:55, 61): no write of another field
\* reaches the unused bits of the frame, and under the firmware the reset bits,
\* the one "for testing" and the one "unused", and the LEDs stay 0 as well.
UnusedBits   == {16, 19, 22} \cup 26..31
TestOnlyBits == {psOUTPsResetPos, psOUTElectronicResetPos, greenLed, redLed}

UnusedStayZero ==
  /\ \A p \in UnusedBits : ~psBufOut[p]
  /\ program = "firmware" => \A p \in TestOnlyBits : ~psBufOut[p]

\* What the callbacks report is what the supply sent in the last exchange: its
\* voltage to the last bit, each error in its place, the polarity only if both
\* lines say so, its mode and circuit.
ReportAsSent ==
  /\ readVoltage = sent.reading.voltage
  /\ readErrors = 2 * Bit(sent.reading.external) + Bit(sent.reading.colective)
  /\ readPolarity = (sent.reading.polarisation1 /\ sent.reading.polarisation2)
  /\ isRemote = sent.remote /\ isPowerCircuitOn = sent.on
  /\ readCurrentRaw(psBufIn) = sent.reading.current

\* What the bits do to a supply that nobody touches: under the firmware only the
\* first frame of a write changes it (never a read, a refresh, a later frame or the
\* frame of local mode), and where the supply ran on the driver's frame before, it
\* changes in what the write was about and in nothing else.
FirmwareWritesOnly ==
  [][program = "firmware" /\ ~touched' /\ dev' # dev =>
       /\ pc = "exchange" /\ done = 0 /\ asked # "none"
       /\ owned /\ asked = "current" => dev' = [dev EXCEPT !.set = currentSet]
       /\ owned /\ asked # "current" => dev' = [dev EXCEPT !.on = (asked = "on")]]_vars

\* Under the firmware every step here is one of PowerSupply200A: what was shown of
\* the frame as a record holds of its bits.  The steps are named with the inputs of
\* this module, which are among those of that one, and Exchange with the reading
\* that was sent.
DriverStep ==
  \/ Driver!Refresh
  \/ \E value \in Setpoints : Driver!SetStatusIsOn(value) \/ Driver!SetStatusCurrent(value)
  \/ Driver!Exchange(sent'.reading.current)
  \/ Driver!FinishAveraging
  \/ Driver!SyncExchange
  \/ Driver!PanelMode
  \/ Driver!PanelAdjust
  \/ Driver!Trip
  \/ Driver!Reboot

ImplementsDriver ==
  /\ program = "firmware" => Driver!Init
  /\ [][program = "firmware" => DriverStep]_vars
=============================================================================

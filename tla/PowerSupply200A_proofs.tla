------------------------ MODULE PowerSupply200A_proofs ------------------------
(***************************************************************************)
(* Proofs about the driver of the 200 A supply, for every width of the     *)
(* measured and of the set current and every number of averaged readings.  *)
(***************************************************************************)
EXTENDS PowerSupply200A, TLAPS

\* The parameters, as the proofs use them.
Parameters ==
  /\ MaxIn \in Nat \ {0}
  /\ MaxOut \in Nat \ {0}
  /\ AvrgComponentCount \in Nat
  /\ Scale \in Nat \ {0}

\* What one measurement can add to the average.
Step == Scale * MaxIn

LEMMA ParametersHold == Parameters
BY MaxInAssumption, MaxOutAssumption, CountAssumption, ScaleAssumption
   DEF Parameters

\* A product of positive naturals is a positive natural.
LEMMA ProductPositive ==
  ASSUME NEW a \in Nat \ {0}, NEW b \in Nat \ {0}
  PROVE  a * b \in Nat \ {0}
OBVIOUS

\* A product grows with its first factor.
LEMMA ProductMonotone ==
  ASSUME NEW a \in Nat, NEW b \in Nat, NEW c \in Nat, a <= b
  PROVE  a * c <= b * c
OBVIOUS

\* The part of a scale never exceeds the scale: setpoints and measurements
\* computed from an average within full scale fit their fields.
LEMMA PartOfScale ==
  ASSUME NEW b \in Nat \ {0}, NEW a \in 0..b, NEW m \in Nat
  PROVE  (a * m) \div b \in 0..m
<1>1. a * m <= b * m
  BY ProductMonotone
<1>2. a * m \in Nat
  OBVIOUS
<1> DEFINE q == (a * m) \div b
<1>3. q \in Nat /\ q * b <= a * m
  BY <1>2
<1>4. q * b <= m * b
  BY <1>1, <1>3
<1>5. q <= m
  BY <1>3, <1>4
<1> QED
  BY <1>3, <1>5

\* The constants of the average.
LEMMA ScaleFacts ==
  /\ Exchanges \in Nat
  /\ Exchanges >= 2
  /\ Step \in Nat \ {0}
  /\ FullScale = Exchanges * Step
  /\ FullScale \in Nat \ {0}
<1>1. Exchanges \in Nat /\ Exchanges >= 2
  BY ParametersHold DEF Parameters, Exchanges
<1>2. Step \in Nat \ {0}
  BY ParametersHold, ProductPositive DEF Parameters, Step
<1>3. FullScale = Exchanges * Step
  BY DEF FullScale, Step
<1> QED
  BY <1>1, <1>2, <1>3, ProductPositive

\* getLastSetCurrent and the frame never leave the width of the set current.
LEMMA SetpointInRange ==
  ASSUME NEW a \in 0..FullScale
  PROVE  SetpointLevel(a) \in 0..MaxOut
BY ScaleFacts, ParametersHold, PartOfScale DEF SetpointLevel, Parameters
-----------------------------------------------------------------------------
(***************************************************************************)
(* Type correctness.  The average stays within full scale because the loop *)
(* adds at most one Step per exchange and exchanges less than Exchanges    *)
(* frames before each addition: TypeOK alone does not say so, LoopBound    *)
(* does.                                                                   *)
(***************************************************************************)
LoopBound == pc = "exchange" => done < Exchanges /\ avrgCurrent <= done * Step

\* The same with room for callers that ask for more than the field holds: V is
\* what may be asked for, and what the frame's field says then.
Wide(V)        == 0..MaxOut \subseteq V
OutFramesOf(V) == [current: V, on: BOOLEAN, confirm: BOOLEAN]
DevicesOf(V)   == [set: V, on: BOOLEAN, remote: BOOLEAN]
CallOf(V)      == Refresh \/ \E value \in V : SetStatusIsOn(value) \/ SetStatusCurrent(value)
NextOf(V)      == CallOf(V) \/ Communicate \/ Reboot \/ Supply

Typed(V) ==
  /\ out \in OutFramesOf(V)
  /\ in \in InFrames
  /\ avrgCurrent \in 0..FullScale
  /\ currentSet \in V
  /\ pc \in {"idle", "exchange", "average", "sync"}
  /\ done \in 0..Exchanges
  /\ dev \in DevicesOf(V)
  /\ touched \in BOOLEAN
  /\ owned \in BOOLEAN
  /\ copied \in BOOLEAN
  /\ asked \in {"none", "on", "off", "current"}

TypesOf(V) == Typed(V) /\ LoopBound

\* Devices and requests within the width are devices and requests of V.
LEMMA Wider ==
  ASSUME NEW V, Wide(V)
  PROVE  /\ \A d \in Devices : d \in DevicesOf(V)
         /\ \A v \in 0..MaxOut : v \in V
         /\ 0 \in V
<1>1. \A v \in 0..MaxOut : v \in V
  BY DEF Wide
<1>2. 0 \in 0..MaxOut
  BY ParametersHold DEF Parameters
<1> QED
  BY <1>1, <1>2, Zenon DEF Devices, DevicesOf

\* With what fits the field, these are the types and the steps of the driver.
LEMMA ExactWidth ==
  /\ Wide(0..MaxOut)
  /\ Typed(0..MaxOut) => TypeOK
  /\ NextOf(0..MaxOut) <=> Next
<1>1. OutFramesOf(0..MaxOut) = OutFrames /\ DevicesOf(0..MaxOut) = Devices
  BY DEF OutFramesOf, OutFrames, DevicesOf, Devices
<1> QED
  BY <1>1 DEF Wide, Typed, TypeOK, NextOf, Next, CallOf, Call

\* A measurement added to a sum of n measurements makes one of n + 1.
LEMMA MeasurementAdds ==
  ASSUME NEW sum \in Nat, NEW n \in Nat, n < Exchanges, sum <= n * Step, NEW m \in 0..MaxIn
  PROVE  /\ sum + m * Scale \in 0..FullScale
         /\ sum + m * Scale <= (n + 1) * Step
         /\ n + 1 \in 0..Exchanges
<1>1. m * Scale \in Nat /\ m * Scale <= Step
  <2>1. m * Scale <= MaxIn * Scale
    BY ParametersHold, ProductMonotone DEF Parameters
  <2>2. MaxIn * Scale = Step
    BY ParametersHold DEF Parameters, Step
  <2>3. m * Scale \in Nat
    BY ParametersHold DEF Parameters
  <2> QED
    BY <2>1, <2>2, <2>3
<1>2. n + 1 <= Exchanges
  BY ScaleFacts
<1>3. n * Step + Step = (n + 1) * Step
  BY ScaleFacts
<1>4. n * Step \in Nat
  BY ScaleFacts
<1>5. sum + m * Scale <= (n + 1) * Step
  BY <1>1, <1>3, <1>4, ScaleFacts
<1>6. (n + 1) * Step <= Exchanges * Step
  BY <1>2, ScaleFacts, ProductMonotone
<1>7. sum + m * Scale \in Nat
  BY <1>1
<1>8. (n + 1) * Step \in Nat
  BY ScaleFacts
<1> QED
  BY <1>2, <1>5, <1>6, <1>7, <1>8, ScaleFacts

\* What one more measurement leaves in the average.
LEMMA OneMoreMeasurement ==
  ASSUME NEW V, Wide(V), TypesOf(V), pc = "exchange", NEW m \in 0..MaxIn
  PROVE  /\ avrgCurrent + m * Scale \in 0..FullScale
         /\ avrgCurrent + m * Scale <= (done + 1) * Step
         /\ done + 1 \in 0..Exchanges
<1>1. avrgCurrent \in Nat /\ avrgCurrent <= done * Step
  BY DEF TypesOf, Typed, LoopBound
<1>2. done \in Nat /\ done < Exchanges
  BY ScaleFacts DEF TypesOf, Typed, LoopBound
<1> QED
  BY <1>1, <1>2, MeasurementAdds

\* What the division by the number of components leaves in the average.
LEMMA RoundedInRange ==
  ASSUME NEW sum \in 0..FullScale
  PROVE  Rounded(sum) \subseteq 0..FullScale
BY ScaleFacts DEF Rounded

\* The frame and the status of a new PowerSupply object.
LEMMA ConstructedTypes ==
  ASSUME NEW V, Wide(V)
  PROVE  /\ ConstructedOut \in OutFramesOf(V)
         /\ ConstructedIn \in InFrames
         /\ 0 \in 0..FullScale
         /\ 0 \in V
         /\ 0 \in 0..Exchanges
<1>1. 0 \in V
  BY Wider
<1>2. ConstructedOut \in OutFramesOf(V) /\ ConstructedIn \in InFrames
  BY <1>1, Zenon DEF ConstructedOut, ConstructedIn, OutFramesOf, InFrames
<1> QED
  BY <1>1, <1>2, ScaleFacts

\* The fields of a frame after its on/off bit is written.
LEMMA OnField ==
  ASSUME NEW V, Wide(V), NEW buf \in OutFramesOf(V), NEW st \in BOOLEAN
  PROVE  /\ [buf EXCEPT !.on = st] \in OutFramesOf(V)
         /\ [buf EXCEPT !.on = st].current = buf.current
         /\ [buf EXCEPT !.on = st].on = st
         /\ [buf EXCEPT !.on = st].confirm = buf.confirm
BY Zenon DEF OutFramesOf

\* The fields of a frame after its set current is written.
LEMMA CurrentField ==
  ASSUME NEW V, Wide(V), NEW buf \in OutFramesOf(V), NEW val \in V
  PROVE  /\ [buf EXCEPT !.current = val] \in OutFramesOf(V)
         /\ [buf EXCEPT !.current = val].current = val
         /\ [buf EXCEPT !.current = val].on = buf.on
         /\ [buf EXCEPT !.current = val].confirm = buf.confirm
BY Zenon DEF OutFramesOf

\* setCurrentWrite writes the confirm bits and nothing else.
LEMMA SetCurrentWriteFields ==
  ASSUME NEW V, Wide(V), NEW buf \in OutFramesOf(V), NEW st \in BOOLEAN
  PROVE  /\ SetCurrentWrite(buf, st) \in OutFramesOf(V)
         /\ SetCurrentWrite(buf, st).current = buf.current
         /\ SetCurrentWrite(buf, st).on = buf.on
         /\ SetCurrentWrite(buf, st).confirm = st
BY Zenon DEF SetCurrentWrite, OutFramesOf

\* setPowerCircuit writes the on/off bit and enables writing.
LEMMA SetPowerCircuitFields ==
  ASSUME NEW V, Wide(V), NEW buf \in OutFramesOf(V), NEW st \in BOOLEAN
  PROVE  /\ SetPowerCircuit(buf, st) \in OutFramesOf(V)
         /\ SetPowerCircuit(buf, st).current = buf.current
         /\ SetPowerCircuit(buf, st).on = st
         /\ SetPowerCircuit(buf, st).confirm = TRUE
<1> DEFINE enabled == SetCurrentWrite(buf, TRUE)
<1>1. /\ enabled \in OutFramesOf(V) /\ enabled.confirm = TRUE
      /\ enabled.current = buf.current /\ enabled.on = buf.on
  BY SetCurrentWriteFields
<1>2. SetPowerCircuit(buf, st) = [enabled EXCEPT !.on = st]
  BY DEF SetPowerCircuit
<1> HIDE DEF enabled
<1> QED
  <2>1. /\ [enabled EXCEPT !.on = st] \in OutFramesOf(V)
        /\ [enabled EXCEPT !.on = st].current = enabled.current
        /\ [enabled EXCEPT !.on = st].on = st
        /\ [enabled EXCEPT !.on = st].confirm = enabled.confirm
    BY <1>1, OnField
  <2> QED
    BY <1>1, <1>2, <2>1

\* setCurrent writes the set current and enables writing.
LEMMA SetCurrentFields ==
  ASSUME NEW V, Wide(V), NEW buf \in OutFramesOf(V), NEW val \in V
  PROVE  /\ SetCurrent(buf, val) \in OutFramesOf(V)
         /\ SetCurrent(buf, val).current = val
         /\ SetCurrent(buf, val).on = buf.on
         /\ SetCurrent(buf, val).confirm = TRUE
<1> DEFINE enabled == SetCurrentWrite(buf, TRUE)
<1>1. /\ enabled \in OutFramesOf(V) /\ enabled.confirm = TRUE
      /\ enabled.current = buf.current /\ enabled.on = buf.on
  BY SetCurrentWriteFields
<1>2. SetCurrent(buf, val) = [enabled EXCEPT !.current = val]
  BY DEF SetCurrent
<1> HIDE DEF enabled
<1> QED
  <2>1. /\ [enabled EXCEPT !.current = val] \in OutFramesOf(V)
        /\ [enabled EXCEPT !.current = val].current = val
        /\ [enabled EXCEPT !.current = val].on = enabled.on
        /\ [enabled EXCEPT !.current = val].confirm = enabled.confirm
    BY <1>1, CurrentField
  <2> QED
    BY <1>1, <1>2, <2>1

\* A frame sent by the driver leaves a supply, and a status of it.
LEMMA ExchangeTypes ==
  ASSUME NEW V, Wide(V), Typed(V)
  PROVE  Status \in InFrames /\ AfterFrame \in DevicesOf(V)
<1>1. Status \in InFrames
  BY Zenon DEF Typed, Status, DevicesOf, InFrames
<1>2. out.current \in V /\ out.on \in BOOLEAN
  BY Zenon DEF Typed, OutFramesOf
<1>3. [dev EXCEPT !.set = out.current, !.on = out.on] \in DevicesOf(V)
  BY <1>2, Zenon DEF Typed, DevicesOf
<1> QED
  BY <1>1, <1>3 DEF AfterFrame, Typed

\* The head of safeCommunicationWithPS starts an empty loop.
LEMMA BeginTypes ==
  ASSUME NEW V, Wide(V), Typed(V), NEW what \in {"none", "on", "off", "current"},
         BeginCommunication(what)
  PROVE  /\ in' \in InFrames /\ avrgCurrent' \in 0..FullScale
         /\ pc' = "exchange" /\ done' \in 0..Exchanges /\ dev' \in DevicesOf(V)
         /\ touched' \in BOOLEAN /\ owned' \in BOOLEAN
         /\ asked' \in {"none", "on", "off", "current"}
         /\ LoopBound'
<1>1. 0 <= 0 * Step /\ 0 < Exchanges
  BY ScaleFacts
<1>2. LoopBound'
  BY <1>1 DEF BeginCommunication, LoopBound, Step
<1>3. UNCHANGED <<in, dev, owned>>
  BY DEF BeginCommunication
<1> QED
  BY <1>2, <1>3, ConstructedTypes DEF BeginCommunication, Typed

\* The initial states and every step keep the types and the bound of the loop.
LEMMA TypeInductive ==
  ASSUME NEW V, Wide(V)
  PROVE  /\ Init => TypesOf(V)
         /\ TypesOf(V) /\ [NextOf(V)]_vars => TypesOf(V)'
<1>1. Init => TypesOf(V)
  BY ConstructedTypes, Wider DEF Init, TypesOf, Typed, LoopBound
<1>2. ASSUME TypesOf(V), [NextOf(V)]_vars
      PROVE  TypesOf(V)'
  <2> USE <1>2 DEF TypesOf
  <2>1. CASE Refresh
    BY <2>1, BeginTypes DEF Refresh, Typed
  <2>2. ASSUME NEW value \in V, SetStatusIsOn(value)
        PROVE  TypesOf(V)'
    <3>1. out' \in OutFramesOf(V)
      BY <2>2, SetPowerCircuitFields DEF SetStatusIsOn, Typed
    <3> QED
      BY <2>2, <3>1, BeginTypes DEF SetStatusIsOn, Typed
  <2>3. ASSUME NEW value \in V, SetStatusCurrent(value)
        PROVE  TypesOf(V)'
    <3>1. out' \in OutFramesOf(V)
      BY <2>3, SetCurrentFields DEF SetStatusCurrent, Typed
    <3> QED
      BY <2>3, <3>1, BeginTypes, ConstructedTypes DEF SetStatusCurrent, Typed
  <2>4. ASSUME NEW m \in 0..MaxIn, Exchange(m)
        PROVE  TypesOf(V)'
    <3>1. pc = "exchange"
      BY <2>4 DEF Exchange
    <3>2. avrgCurrent' \in 0..FullScale /\ done' \in 0..Exchanges
      BY <2>4, <3>1, OneMoreMeasurement DEF Exchange
    <3>3. out' \in OutFramesOf(V) /\ in' \in InFrames /\ dev' \in DevicesOf(V)
      BY <2>4, ExchangeTypes, SetCurrentWriteFields
      DEF Typed, Exchange, ExchangeFrame
    <3>4. Typed(V)'
      BY <2>4, <3>2, <3>3, Zenon DEF Typed, Exchange, ExchangeFrame
    <3>5. LoopBound'
      <4>1. avrgCurrent' <= done' * Step
        BY <2>4, <3>1, OneMoreMeasurement DEF Exchange, Step
      <4>2. pc' = "exchange" => done' < Exchanges
        BY <2>4, <3>2, ScaleFacts DEF Exchange, Typed
      <4> QED
        BY <4>1, <4>2 DEF LoopBound
    <3> QED
      BY <3>4, <3>5
  <2>5. CASE FinishAveraging
    <3>1. avrgCurrent' \in 0..FullScale
      BY <2>5, RoundedInRange DEF FinishAveraging, Typed
    <3>2. SetpointLevel(avrgCurrent') \in 0..MaxOut
      BY <3>1, SetpointInRange
    <3>3. IsPowerCircuitOn \in BOOLEAN
      BY Zenon DEF IsPowerCircuitOn, Typed, InFrames
    <3>4. out' \in OutFramesOf(V)
      <4>1. SetPowerCircuit(out, IsPowerCircuitOn) \in OutFramesOf(V)
        BY <3>3, SetPowerCircuitFields DEF Typed
      <4>2. SetCurrent(SetPowerCircuit(out, IsPowerCircuitOn),
                       SetpointLevel(avrgCurrent')) \in OutFramesOf(V)
        BY <3>2, <4>1, Wider, SetCurrentFields
      <4> QED
        BY <2>5, <4>2 DEF FinishAveraging, Typed
    <3> QED
      BY <2>5, <3>1, <3>4 DEF FinishAveraging, Typed, LoopBound
  <2>6. CASE SyncExchange
    <3>1. out' \in OutFramesOf(V) /\ in' \in InFrames /\ dev' \in DevicesOf(V)
      BY <2>6, ExchangeTypes, SetCurrentWriteFields
      DEF Typed, SyncExchange, ExchangeFrame
    <3> QED
      BY <2>6, <3>1, Zenon DEF SyncExchange, ExchangeFrame, Typed, LoopBound
  <2>7. CASE Reboot
    BY <2>7, ConstructedTypes DEF Reboot, Typed, LoopBound
  <2>8. CASE PanelMode
    <3>1. dev' \in DevicesOf(V)
      BY <2>8, Zenon DEF PanelMode, Typed, DevicesOf
    <3> QED
      BY <2>8, <3>1 DEF PanelMode, TouchDevice, driverVars, Typed, LoopBound
  <2>9. CASE PanelAdjust
    BY <2>9, Wider DEF PanelAdjust, TouchDevice, driverVars, Typed, LoopBound
  <2>10. CASE Trip
    <3>1. dev' \in DevicesOf(V)
      BY <2>10, Zenon DEF Trip, Typed, DevicesOf
    <3> QED
      BY <2>10, <3>1 DEF Trip, TouchDevice, driverVars, Typed, LoopBound
  <2>11. CASE UNCHANGED vars
    BY <2>11 DEF vars, driverVars, historyVars, Typed, LoopBound
  <2> QED
    BY <2>1, <2>2, <2>3, <2>4, <2>5, <2>6, <2>7, <2>8, <2>9, <2>10, <2>11
    DEF NextOf, CallOf, Communicate, Supply
<1> QED
  BY <1>1, <1>2

\* The types hold in every behaviour of the driver: no current the driver
\* writes or reports exceeds its field, and the loop exchanges as many frames
\* as it averages.
THEOREM TypeCorrect == Spec => []TypeOK
<1> DEFINE Types == TypesOf(0..MaxOut)
<1>1. Init => Types
  BY TypeInductive, ExactWidth
<1>2. Types /\ [Next]_vars => Types'
  BY TypeInductive, ExactWidth
<1>3. Types => TypeOK
  BY ExactWidth DEF TypesOf
<1> HIDE DEF Types
<1> QED
  BY <1>1, <1>2, <1>3, PTL DEF Spec
-----------------------------------------------------------------------------
(***************************************************************************)
(* The inductive invariant behind the safety properties.  None of them is  *)
(* inductive by itself: what the client is told when a call returns depends *)
(* on what every earlier exchange of the call left in the two buffers.     *)
(***************************************************************************)

\* The request's frame has not been sent yet.
Pending == pc = "exchange" /\ done = 0

\* The request's frame has been sent, its status may not be back yet.
Sent == (pc = "exchange" /\ done > 0) \/ pc = "average"

\* The status of the supply after the request's frame has come back.
Settled == (pc = "exchange" /\ done > 1) \/ pc \in {"average", "sync", "idle"}

\* A supply that runs on the driver's frame is in remote mode, and the loop
\* will find it so: the frame of local mode is never prepared for it.
OwnedRemote ==
  owned => dev.remote /\ pc # "sync" /\ (Sent => in.remote)

\* A supply left alone shows its mode after one exchange and its circuit after
\* two, because the first status is older than the request.
StatusFresh ==
  ~touched =>
    /\ Sent => in.remote = dev.remote
    /\ Settled => in = Status

\* The frame prepared in local mode repeats the supply.
SyncPrepared ==
  pc = "sync" =>
    /\ ~in.remote
    /\ out.on = in.on
    /\ out.current = SetpointLevel(avrgCurrent)

\* A request waits in the frame with writing enabled, then it is carried out.
RequestCarried ==
  /\ asked = "current" => (Pending => out.confirm /\ out.current = currentSet)
  /\ asked \in {"on", "off"} => (Pending => out.confirm /\ out.on = (asked = "on"))
  /\ ~touched /\ dev.remote /\ ~Pending =>
       /\ asked = "current" => dev.set = currentSet
       /\ asked \in {"on", "off"} => dev.on = (asked = "on")

\* What a waiting request is not about, the frame repeats from the supply.
OtherFieldKept ==
  owned /\ Pending =>
    /\ asked # "current" => out.current = dev.set
    /\ asked \notin {"on", "off"} => out.on = dev.on

\* A frame that was not measured holds the last current asked for.
FrameAsked == ~copied => out.current = currentSet

\* A call that asks for nothing starts with writing disabled.
ReadsAreProtected == Pending /\ asked = "none" => ~out.confirm

SafetyOf(V) ==
  /\ TypesOf(V)
  /\ WriteEnabledOnce
  /\ OwnedAgrees
  /\ LocalTracks
  /\ OwnedRemote
  /\ StatusFresh
  /\ SyncPrepared
  /\ RequestCarried
  /\ OtherFieldKept
  /\ FrameAsked
  /\ ReadsAreProtected

\* What a frame does to the supply, and what it brings back.
LEMMA FrameEffect ==
  ASSUME NEW V, Wide(V), Typed(V), ExchangeFrame
  PROVE  /\ in'.remote = dev.remote /\ in'.on = dev.on
         /\ dev'.remote = dev.remote
         /\ Accepts => dev'.set = out.current /\ dev'.on = out.on
         /\ ~Accepts => dev' = dev
         /\ out'.current = out.current /\ out'.on = out.on /\ out'.confirm = FALSE
         /\ owned' = (owned \/ Accepts)
         /\ ~Accepts => in' = Status'
<1>1. /\ Status.remote = dev.remote /\ Status.on = dev.on
  BY Zenon DEF Status
<1>2. /\ [dev EXCEPT !.set = out.current, !.on = out.on].remote = dev.remote
      /\ [dev EXCEPT !.set = out.current, !.on = out.on].set = out.current
      /\ [dev EXCEPT !.set = out.current, !.on = out.on].on = out.on
  BY Zenon DEF Typed, DevicesOf
<1>3. /\ Accepts => AfterFrame = [dev EXCEPT !.set = out.current, !.on = out.on]
      /\ ~Accepts => AfterFrame = dev
  BY DEF AfterFrame
<1>4. out \in OutFramesOf(V) /\ FALSE \in BOOLEAN
  BY DEF Typed
<1>5. /\ out'.current = out.current /\ out'.on = out.on /\ out'.confirm = FALSE
  BY <1>4, SetCurrentWriteFields DEF ExchangeFrame
<1>6. in' = Status /\ dev' = AfterFrame /\ owned' = (owned \/ Accepts)
  BY DEF ExchangeFrame
<1>7. dev' = dev => Status' = Status
  BY Zenon DEF Status
<1> QED
  BY <1>1, <1>2, <1>3, <1>5, <1>6, <1>7, Zenon

\* A new PowerSupply object promises nothing yet.
LEMMA ConstructedSafe ==
  ASSUME NEW V, Wide(V), TypesOf(V), out = ConstructedOut, currentSet = 0, pc = "idle",
         touched = TRUE, owned = FALSE, asked = "none"
  PROVE  SafetyOf(V)
<1>1. out.current = 0 /\ out.confirm = FALSE
  BY Zenon DEF ConstructedOut
<1> QED
  BY <1>1
  DEF SafetyOf, WriteEnabledOnce, OwnedAgrees, LocalTracks, OwnedRemote,
      StatusFresh, SyncPrepared, RequestCarried, OtherFieldKept, FrameAsked,
      ReadsAreProtected, Pending

\* Starting a call: the request, if there is one, waits in the frame.
LEMMA CallKeepsSafe ==
  ASSUME NEW V, Wide(V), SafetyOf(V), TypesOf(V)', CallOf(V)
  PROVE  SafetyOf(V)'
<1>1. /\ pc' = "exchange" /\ done' = 0 /\ touched' = FALSE /\ pc = "idle"
      /\ UNCHANGED <<in, dev, owned>>
  BY DEF CallOf, Refresh, SetStatusIsOn, SetStatusCurrent, BeginCommunication
<1>2. out \in OutFramesOf(V) /\ TRUE \in BOOLEAN
  BY DEF SafetyOf, TypesOf, Typed
<1>3. /\ RequestCarried'
      /\ FrameAsked'
      /\ ReadsAreProtected'
      /\ out'.confirm \/ out' = out
  <2>1. CASE Refresh
    BY <2>1, <1>1
    DEF Refresh, BeginCommunication, SafetyOf, RequestCarried, FrameAsked,
        ReadsAreProtected, WriteEnabledOnce, Pending
  <2>2. ASSUME NEW value \in V, SetStatusIsOn(value)
        PROVE  RequestCarried' /\ FrameAsked' /\ ReadsAreProtected' /\ out'.confirm
    <3>1. (value # 0) \in BOOLEAN
      OBVIOUS
    <3>2. /\ out'.current = out.current /\ out'.on = (value # 0)
          /\ out'.confirm = TRUE
      BY <2>2, <1>2, <3>1, SetPowerCircuitFields DEF SetStatusIsOn
    <3>3. /\ asked' = IF value # 0 THEN "on" ELSE "off"
          /\ UNCHANGED <<currentSet, copied>>
      BY <2>2 DEF SetStatusIsOn, BeginCommunication
    <3> QED
      BY <3>2, <3>3, <1>1
      DEF SafetyOf, RequestCarried, FrameAsked, ReadsAreProtected, Pending
  <2>3. ASSUME NEW value \in V, SetStatusCurrent(value)
        PROVE  RequestCarried' /\ FrameAsked' /\ ReadsAreProtected' /\ out'.confirm
    <3>1. out'.current = value /\ out'.confirm = TRUE
      BY <2>3, <1>2, SetCurrentFields DEF SetStatusCurrent
    <3>2. asked' = "current" /\ currentSet' = value
      BY <2>3 DEF SetStatusCurrent, BeginCommunication
    <3> QED
      BY <3>1, <3>2, <1>1 DEF RequestCarried, FrameAsked, ReadsAreProtected, Pending
  <2> QED
    BY <2>1, <2>2, <2>3 DEF CallOf
<1>4. OwnedAgrees'
  BY <1>1, <1>3 DEF SafetyOf, OwnedAgrees
<1>5. OtherFieldKept'
  <2>1. owned => dev.set = out.current /\ dev.on = out.on
    BY <1>1 DEF SafetyOf, WriteEnabledOnce, OwnedAgrees
  <2>2. CASE Refresh
    BY <2>1, <2>2, <1>1 DEF Refresh, OtherFieldKept
  <2>3. ASSUME NEW value \in V, SetStatusIsOn(value)
        PROVE  OtherFieldKept'
    <3>1. (value # 0) \in BOOLEAN
      OBVIOUS
    <3>2. out'.current = out.current
      BY <2>3, <1>2, <3>1, SetPowerCircuitFields DEF SetStatusIsOn
    <3>3. asked' \in {"on", "off"}
      BY <2>3 DEF SetStatusIsOn, BeginCommunication
    <3> QED
      BY <2>1, <3>2, <3>3, <1>1 DEF OtherFieldKept
  <2>4. ASSUME NEW value \in V, SetStatusCurrent(value)
        PROVE  OtherFieldKept'
    <3>1. out'.on = out.on
      BY <2>4, <1>2, SetCurrentFields DEF SetStatusCurrent
    <3>2. asked' = "current"
      BY <2>4 DEF SetStatusCurrent, BeginCommunication
    <3> QED
      BY <2>1, <3>1, <3>2, <1>1 DEF OtherFieldKept
  <2> QED
    BY <2>2, <2>3, <2>4 DEF CallOf
<1>6. /\ WriteEnabledOnce' /\ LocalTracks' /\ OwnedRemote' /\ StatusFresh'
      /\ SyncPrepared'
  BY <1>1
  DEF SafetyOf, WriteEnabledOnce, LocalTracks, OwnedRemote, StatusFresh,
      SyncPrepared, Sent, Settled
<1> QED
  BY <1>3, <1>4, <1>5, <1>6 DEF SafetyOf

\* One round of the averaging loop.
LEMMA ExchangeKeepsSafe ==
  ASSUME NEW V, Wide(V), SafetyOf(V), TypesOf(V)', NEW m \in 0..MaxIn, Exchange(m)
  PROVE  SafetyOf(V)'
<1>1. Typed(V) /\ ExchangeFrame /\ pc = "exchange" /\ done \in Nat
  BY DEF SafetyOf, TypesOf, Typed, Exchange
<1>2. /\ done' = done + 1
      /\ pc' = "exchange" \/ pc' = "average"
      /\ pc' = "average" => done + 1 = Exchanges
      /\ UNCHANGED <<currentSet, touched, copied, asked>>
  BY DEF Exchange
<1>3. ~Pending' /\ Sent'
  BY <1>1, <1>2 DEF Pending, Sent
<1>4. Settled' => done > 0
  BY <1>1, <1>2, ScaleFacts DEF Settled
<1>5. done > 0 => ~Accepts
  BY <1>1 DEF SafetyOf, WriteEnabledOnce, Accepts
<1>6. WriteEnabledOnce'
  BY <1>1, FrameEffect DEF WriteEnabledOnce
<1>7. OwnedAgrees'
  BY <1>1, FrameEffect DEF SafetyOf, OwnedAgrees, OwnedRemote, Accepts
<1>8. LocalTracks' /\ SyncPrepared'
  BY <1>2 DEF LocalTracks, SyncPrepared
<1>9. OwnedRemote'
  BY <1>1, <1>2, FrameEffect DEF SafetyOf, OwnedRemote, Accepts
<1>10. StatusFresh'
  BY <1>1, <1>4, <1>5, FrameEffect DEF StatusFresh
<1>11. RequestCarried'
  <2>1. CASE done = 0
    BY <2>1, <1>1, <1>2, <1>3, FrameEffect
    DEF SafetyOf, RequestCarried, Pending, Accepts
  <2>2. CASE done > 0
    <3>1. dev' = dev
      BY <2>2, <1>1, <1>5 DEF ExchangeFrame, AfterFrame
    <3>2. ~Pending /\ ~Pending' /\ UNCHANGED <<currentSet, touched, asked>>
      BY <2>2, <1>2, <1>3 DEF Pending
    <3> QED
      BY <3>1, <3>2 DEF SafetyOf, RequestCarried
  <2> QED
    BY <2>1, <2>2, <1>1
<1>12. FrameAsked'
  BY <1>1, <1>2, FrameEffect DEF SafetyOf, FrameAsked
<1>13. OtherFieldKept' /\ ReadsAreProtected'
  BY <1>3 DEF OtherFieldKept, ReadsAreProtected
<1> QED
  BY <1>6, <1>7, <1>8, <1>9, <1>10, <1>11, <1>12, <1>13 DEF SafetyOf

\* The end of the loop, and the frame prepared for a supply in local mode.
LEMMA FinishAveragingKeepsSafe ==
  ASSUME NEW V, Wide(V), SafetyOf(V), TypesOf(V)', FinishAveraging
  PROVE  SafetyOf(V)'
<1>1. /\ pc = "average"
      /\ UNCHANGED <<in, currentSet, done, dev, touched, owned, asked>>
  BY DEF FinishAveraging
<1>2. ~Pending /\ ~Pending' /\ Sent /\ Settled /\ ~out.confirm
  BY <1>1 DEF SafetyOf, WriteEnabledOnce, FinishAveraging, Pending, Sent, Settled
<1>3. StatusFresh' /\ RequestCarried' /\ OtherFieldKept' /\ ReadsAreProtected'
  BY <1>1, <1>2
  DEF SafetyOf, StatusFresh, RequestCarried, OtherFieldKept, ReadsAreProtected,
      Status, FinishAveraging, Sent
<1>4. CASE in.remote
  <2>1. pc' = "idle" /\ UNCHANGED <<out, copied>>
    BY <1>4 DEF FinishAveraging, IsRemote
  <2>2. ~touched => dev.remote
    BY <1>2, <1>4 DEF SafetyOf, StatusFresh
  <2> QED
    BY <1>1, <1>2, <1>3, <2>1, <2>2
    DEF SafetyOf, WriteEnabledOnce, OwnedAgrees, LocalTracks, OwnedRemote,
        SyncPrepared, FrameAsked, Sent
<1>5. CASE ~in.remote
  <2>1. pc' = "sync" /\ copied' = TRUE
    BY <1>5 DEF FinishAveraging, IsRemote
  <2>2. ~owned
    BY <1>2, <1>5 DEF SafetyOf, OwnedRemote
  <2>3. /\ out'.confirm = TRUE /\ out'.on = in.on
        /\ out'.current = SetpointLevel(avrgCurrent)'
    <3>1. out \in OutFramesOf(V) /\ in.on \in BOOLEAN
      BY Zenon DEF SafetyOf, TypesOf, Typed, InFrames
    <3>2. SetpointLevel(avrgCurrent') \in 0..MaxOut
      BY SetpointInRange DEF TypesOf, Typed
    <3>3. out' = SetCurrent(SetPowerCircuit(out, in.on), SetpointLevel(avrgCurrent'))
      BY <1>5 DEF FinishAveraging, IsRemote, IsPowerCircuitOn
    <3> DEFINE mid == SetPowerCircuit(out, in.on)
    <3>4. mid \in OutFramesOf(V) /\ mid.on = in.on
      BY <3>1, SetPowerCircuitFields
    <3> HIDE DEF mid
    <3>5. out' = SetCurrent(mid, SetpointLevel(avrgCurrent'))
      BY <3>3 DEF mid
    <3>6. SetpointLevel(avrgCurrent') \in V
      BY <3>2, Wider
    <3> QED
      BY <3>4, <3>5, <3>6, SetCurrentFields
  <2> QED
    BY <1>1, <1>3, <1>5, <2>1, <2>2, <2>3
    DEF SafetyOf, WriteEnabledOnce, OwnedAgrees, LocalTracks, OwnedRemote,
        SyncPrepared, FrameAsked
<1> QED
  BY <1>4, <1>5

\* The frame sent in local mode.
LEMMA SyncExchangeKeepsSafe ==
  ASSUME NEW V, Wide(V), SafetyOf(V), TypesOf(V)', SyncExchange
  PROVE  SafetyOf(V)'
<1>1. Typed(V) /\ ExchangeFrame /\ pc = "sync" /\ pc' = "idle"
  BY DEF SafetyOf, TypesOf, SyncExchange
<1>2. UNCHANGED <<avrgCurrent, currentSet, done, touched, copied, asked>>
  BY DEF SyncExchange
<1>3. ~touched => ~dev.remote /\ ~Accepts /\ out.on = dev.on
  BY <1>1 DEF SafetyOf, StatusFresh, SyncPrepared, Settled, Status, Accepts
<1>4. WriteEnabledOnce' /\ SyncPrepared'
  BY <1>1, FrameEffect DEF WriteEnabledOnce, SyncPrepared
<1>5. OwnedAgrees' /\ OwnedRemote'
  BY <1>1, FrameEffect DEF SafetyOf, OwnedAgrees, OwnedRemote, Accepts, Sent
<1>6. LocalTracks'
  BY <1>1, <1>2, <1>3, FrameEffect
  DEF SafetyOf, LocalTracks, SyncPrepared, GetLastSetCurrent, IsRemote
<1>7. StatusFresh'
  BY <1>1, <1>2, <1>3, FrameEffect DEF StatusFresh, Sent
<1>8. RequestCarried'
  BY <1>1, <1>2, <1>3, FrameEffect DEF RequestCarried, Pending
<1>9. FrameAsked'
  BY <1>1, <1>2, FrameEffect DEF SafetyOf, FrameAsked
<1>10. OtherFieldKept' /\ ReadsAreProtected'
  BY <1>1 DEF OtherFieldKept, ReadsAreProtected, Pending
<1> QED
  BY <1>4, <1>5, <1>6, <1>7, <1>8, <1>9, <1>10 DEF SafetyOf

\* The panel, a trip or a restart of the controller.
LEMMA OutsideKeepsSafe ==
  ASSUME NEW V, Wide(V), SafetyOf(V), TypesOf(V)', Supply \/ Reboot
  PROVE  SafetyOf(V)'
<1>1. CASE Supply
  <2>1. touched' = TRUE /\ owned' = FALSE
    BY <1>1 DEF Supply, PanelMode, PanelAdjust, Trip, TouchDevice
  <2>2. UNCHANGED <<driverVars, copied, asked>>
    BY <1>1 DEF Supply, PanelMode, PanelAdjust, Trip, TouchDevice
  <2>3. UNCHANGED <<out, in, avrgCurrent, currentSet, pc, done>>
    BY <2>2 DEF driverVars
  <2> QED
    BY <2>1, <2>2, <2>3
    DEF SafetyOf, WriteEnabledOnce, OwnedAgrees, LocalTracks, OwnedRemote,
        StatusFresh, SyncPrepared, RequestCarried, OtherFieldKept, FrameAsked,
      ReadsAreProtected, Pending, Sent
<1>2. CASE Reboot
  <2>1. /\ out' = ConstructedOut /\ currentSet' = 0 /\ pc' = "idle"
        /\ touched' = TRUE /\ owned' = FALSE /\ asked' = "none"
    BY <1>2 DEF Reboot
  <2>2. out'.current = 0 /\ out'.confirm = FALSE
    BY <2>1, Zenon DEF ConstructedOut
  <2> QED
    BY <2>1, <2>2
    DEF SafetyOf, WriteEnabledOnce, OwnedAgrees, LocalTracks, OwnedRemote,
        StatusFresh, SyncPrepared, RequestCarried, OtherFieldKept, FrameAsked,
      ReadsAreProtected, Pending
<1> QED
  BY <1>1, <1>2

\* SafetyOf holds initially and every step keeps it.
LEMMA SafetyOfInductive ==
  ASSUME NEW V, Wide(V)
  PROVE  /\ Init => SafetyOf(V)
         /\ SafetyOf(V) /\ [NextOf(V)]_vars => SafetyOf(V)'
<1>1. Init => SafetyOf(V)
  BY TypeInductive, ConstructedSafe DEF Init
<1>2. ASSUME SafetyOf(V), [NextOf(V)]_vars
      PROVE  SafetyOf(V)'
  <2>1. TypesOf(V)'
    BY <1>2, TypeInductive DEF SafetyOf
  <2>2. CASE CallOf(V)
    BY <1>2, <2>1, <2>2, CallKeepsSafe
  <2>3. ASSUME NEW m \in 0..MaxIn, Exchange(m)
        PROVE  SafetyOf(V)'
    BY <1>2, <2>1, <2>3, ExchangeKeepsSafe
  <2>4. CASE FinishAveraging
    BY <1>2, <2>1, <2>4, FinishAveragingKeepsSafe
  <2>5. CASE SyncExchange
    BY <1>2, <2>1, <2>5, SyncExchangeKeepsSafe
  <2>6. CASE Supply \/ Reboot
    BY <1>2, <2>1, <2>6, OutsideKeepsSafe
  <2>7. CASE UNCHANGED vars
    <3>1. UNCHANGED <<out, in, avrgCurrent, currentSet, pc, done, dev,
                      touched, owned, copied, asked>>
      BY <2>7 DEF vars, driverVars, historyVars
    <3> QED
      BY <1>2, <2>1, <3>1
      DEF SafetyOf, WriteEnabledOnce, OwnedAgrees, LocalTracks, OwnedRemote,
          StatusFresh, SyncPrepared, RequestCarried, OtherFieldKept, FrameAsked,
      ReadsAreProtected, Pending, Sent,
          Settled, Status, GetLastSetCurrent, IsRemote
  <2> QED
    BY <1>2, <2>2, <2>3, <2>4, <2>5, <2>6, <2>7 DEF NextOf, Communicate
<1> QED
  BY <1>1, <1>2

\* The invariant of a driver that is asked for what its field holds.
SafetyInv == SafetyOf(0..MaxOut)

LEMMA SafetyInductive ==
  /\ Init => SafetyInv
  /\ SafetyInv /\ [Next]_vars => SafetyInv'
BY SafetyOfInductive, ExactWidth DEF SafetyInv
-----------------------------------------------------------------------------
(***************************************************************************)
(* The safety properties, for every behaviour of the driver, its supply    *)
(* and its panel.                                                          *)
(***************************************************************************)

\* Every reachable state satisfies the inductive invariant.
LEMMA AlwaysSafe == Spec => []SafetyInv
BY SafetyInductive, PTL DEF Spec

\* What the inductive invariant says of a state, for a reader of the driver.
LEMMA SafetyOfGives ==
  ASSUME NEW V, SafetyOf(V)
  PROVE  /\ WriteEnabledOnce /\ OwnedAgrees /\ ReportFresh
         /\ LocalTracks /\ WriteTakesEffect /\ SetCurrentReported
<1>1. ReportFresh
  <2> SUFFICES ASSUME pc = "idle", ~touched
               PROVE  in.remote = dev.remote /\ in.on = dev.on
    BY DEF ReportFresh, IsRemote, IsPowerCircuitOn
  <2>1. in = Status
    BY DEF SafetyOf, StatusFresh, Settled
  <2>2. Status.remote = dev.remote /\ Status.on = dev.on
    BY Zenon DEF Status
  <2> QED
    BY <2>1, <2>2
<1>2. WriteTakesEffect
  BY DEF SafetyOf, RequestCarried, WriteTakesEffect, Pending
<1>3. SetCurrentReported
  <2> SUFFICES ASSUME pc = "idle", ~touched, owned, ~copied
               PROVE  GetLastSetCurrent = dev.set
    BY DEF SetCurrentReported
  <2>1. in = Status /\ dev.remote
    BY DEF SafetyOf, StatusFresh, Settled, OwnedRemote
  <2>2. Status.remote = dev.remote
    BY Zenon DEF Status
  <2>3. ~out.confirm
    BY DEF SafetyOf, WriteEnabledOnce
  <2>4. dev.set = currentSet
    BY <2>3 DEF SafetyOf, OwnedAgrees, FrameAsked
  <2> QED
    BY <2>1, <2>2, <2>4 DEF GetLastSetCurrent, IsRemote
<1> QED
  BY <1>1, <1>2, <1>3 DEF SafetyOf

LEMMA SafetyGives ==
  SafetyInv => /\ WriteEnabledOnce /\ OwnedAgrees /\ ReportFresh
               /\ LocalTracks /\ WriteTakesEffect /\ SetCurrentReported
BY SafetyOfGives DEF SafetyInv

\* Writing is enabled in the first frame of a request and in the frame of
\* local mode only: comunicateWithPS turns it off after every frame.
THEOREM WriteEnabledOnceHolds == Spec => []WriteEnabledOnce
BY SafetyGives, AlwaysSafe, PTL

\* A supply in remote mode that nobody touched since it accepted a frame runs
\* on what psBufOut says.
THEOREM OwnedAgreesHolds == Spec => []OwnedAgrees
BY SafetyGives, AlwaysSafe, PTL

\* After a call that nobody disturbed, the status bits handed to the client
\* are the supply's, the effect of the call's own write included.
THEOREM ReportFreshHolds == Spec => []ReportFresh
BY SafetyGives, AlwaysSafe, PTL

\* In local mode the frame repeats the supply when a call returns.
THEOREM LocalTracksHolds == Spec => []LocalTracks
BY SafetyGives, AlwaysSafe, PTL

\* A write to a supply in remote mode is carried out when the call returns.
THEOREM WriteTakesEffectHolds == Spec => []WriteTakesEffect
BY SafetyGives, AlwaysSafe, PTL

\* The set current a client reads in remote mode is the supply's, as long as
\* the frame was not filled with a measurement of local mode.
THEOREM SetCurrentReportedHolds == Spec => []SetCurrentReported
BY SafetyGives, AlwaysSafe, PTL

\* A step changes what the call was asked about, in an undisturbed supply.
LEMMA OnlyAskedStep ==
  ASSUME NEW V, Wide(V), SafetyOf(V), NextOf(V), owned, owned', ~touched'
  PROVE  /\ dev'.set # dev.set => asked = "current"
         /\ dev'.on # dev.on => asked \in {"on", "off"}
<1>1. CASE CallOf(V)
  BY <1>1 DEF CallOf, Refresh, SetStatusIsOn, SetStatusCurrent, BeginCommunication
<1>2. ASSUME NEW m \in 0..MaxIn, Exchange(m)
      PROVE  /\ dev'.set # dev.set => asked = "current"
             /\ dev'.on # dev.on => asked \in {"on", "off"}
  <2>1. Typed(V) /\ ExchangeFrame /\ pc = "exchange"
    BY <1>2 DEF Exchange, SafetyOf, TypesOf
  <2>2. CASE Accepts
    <3>1. Pending
      BY <2>1, <2>2 DEF SafetyOf, WriteEnabledOnce, Accepts, Pending
    <3> QED
      BY <2>1, <2>2, <3>1, FrameEffect DEF SafetyOf, OtherFieldKept
  <2>3. CASE ~Accepts
    BY <2>1, <2>3, FrameEffect
  <2> QED
    BY <2>2, <2>3
<1>3. CASE FinishAveraging
  BY <1>3 DEF FinishAveraging
<1>4. CASE SyncExchange
  BY <1>4 DEF SyncExchange, SafetyOf, OwnedRemote
<1>5. CASE Supply \/ Reboot
  BY <1>5 DEF Supply, PanelMode, PanelAdjust, Trip, TouchDevice, Reboot
<1> QED
  BY <1>1, <1>2, <1>3, <1>4, <1>5 DEF NextOf, Communicate

\* While the supply runs on the driver's frame, a call changes nothing but the
\* parameter its request is about.
THEOREM OnlyWhatWasAskedHolds == Spec => OnlyWhatWasAsked
<1> DEFINE A == owned /\ owned' /\ ~touched' =>
                  /\ dev'.set # dev.set => asked = "current"
                  /\ dev'.on # dev.on => asked \in {"on", "off"}
<1>1. SafetyInv /\ [Next]_vars => [A]_vars
  BY OnlyAskedStep, ExactWidth DEF SafetyInv
<1>2. Spec => [][A]_vars
  BY <1>1, AlwaysSafe, PTL DEF Spec
<1> QED
  BY <1>2 DEF OnlyWhatWasAsked

\* A frame of the loop that changes the supply is the first one of a write, and
\* carries that write and, into a supply that runs on the driver's frame,
\* nothing else.
LEMMA FrameWrites ==
  ASSUME NEW V, Wide(V), SafetyOf(V), NEW m, Exchange(m), dev' # dev
  PROVE  /\ done = 0 /\ asked # "none"
         /\ owned /\ asked = "current" => dev' = [dev EXCEPT !.set = currentSet]
         /\ owned /\ asked # "current" => dev' = [dev EXCEPT !.on = (asked = "on")]
<1>1. Typed(V) /\ ExchangeFrame /\ pc = "exchange"
  BY DEF Exchange, SafetyOf, TypesOf
<1>2. Accepts /\ dev' = [dev EXCEPT !.set = out.current, !.on = out.on]
  BY <1>1 DEF ExchangeFrame, AfterFrame
<1>3. Pending /\ done = 0
  BY <1>1, <1>2 DEF SafetyOf, WriteEnabledOnce, Accepts, Pending
<1>4. asked # "none"
  BY <1>2, <1>3 DEF SafetyOf, ReadsAreProtected, Accepts
<1>5. ASSUME owned, asked = "current"
      PROVE  dev' = [dev EXCEPT !.set = currentSet]
  <2>1. out.current = currentSet /\ out.on = dev.on
    BY <1>3, <1>5 DEF SafetyOf, RequestCarried, OtherFieldKept
  <2>2. dev \in DevicesOf(V)
    BY <1>1 DEF Typed
  <2> QED
    BY <1>2, <2>1, <2>2, Zenon DEF DevicesOf
<1>6. ASSUME owned, asked # "current"
      PROVE  dev' = [dev EXCEPT !.on = (asked = "on")]
  <2>1. asked \in {"on", "off"}
    BY <1>1, <1>4, <1>6 DEF Typed
  <2>2. out.current = dev.set /\ out.on = (asked = "on")
    BY <1>3, <1>6, <2>1 DEF SafetyOf, RequestCarried, OtherFieldKept
  <2>3. dev \in DevicesOf(V)
    BY <1>1 DEF Typed
  <2> QED
    BY <1>2, <2>2, <2>3, Zenon DEF DevicesOf
<1> QED
  BY <1>3, <1>4, <1>5, <1>6

\* The frame of local mode changes nothing unless somebody turned the key.
LEMMA SyncNeedsTouch ==
  ASSUME NEW V, SafetyOf(V), SyncExchange, dev' # dev
  PROVE  touched
<1>1. Accepts /\ pc = "sync"
  BY DEF SyncExchange, ExchangeFrame, AfterFrame
<1>2. ~touched => ~dev.remote
  <2>1. ~touched => in = Status
    BY <1>1 DEF SafetyOf, StatusFresh, Settled
  <2>2. Status.remote = dev.remote
    BY Zenon DEF Status
  <2> QED
    BY <1>1, <2>1, <2>2 DEF SafetyOf, SyncPrepared
<1> QED
  BY <1>1, <1>2 DEF Accepts

\* What becomes of a supply that nobody touches: only the first frame of a write
\* changes it, and a supply that runs on the driver's frame only as was asked.
LEMMA UntouchedChange ==
  ASSUME NEW V, Wide(V), SafetyOf(V), NextOf(V), ~touched', dev' # dev
  PROVE  /\ pc = "exchange" /\ done = 0 /\ asked # "none"
         /\ owned /\ asked = "current" => dev' = [dev EXCEPT !.set = currentSet]
         /\ owned /\ asked # "current" => dev' = [dev EXCEPT !.on = (asked = "on")]
<1>1. ~CallOf(V) /\ ~Reboot /\ ~Supply /\ ~FinishAveraging
  BY DEF CallOf, Refresh, SetStatusIsOn, SetStatusCurrent, BeginCommunication,
     FinishAveraging, Reboot, Supply, PanelMode, PanelAdjust, Trip, TouchDevice
<1>2. ~SyncExchange
  <2>1. SyncExchange => touched' = touched
    BY DEF SyncExchange
  <2> QED
    BY <2>1, SyncNeedsTouch
<1>3. PICK m \in 0..MaxIn : Exchange(m)
  BY <1>1, <1>2 DEF NextOf, Communicate
<1>4. pc = "exchange"
  BY <1>3 DEF Exchange
<1> QED
  BY <1>3, <1>4, FrameWrites

\* The same of a driver whose callers ask for what the supply can set.
LEMMA SafeChange ==
  ASSUME SafetyInv, Next, ~touched', dev' # dev
  PROVE  /\ pc = "exchange" /\ done = 0 /\ asked # "none"
         /\ owned /\ asked = "current" => dev' = [dev EXCEPT !.set = currentSet]
         /\ owned /\ asked # "current" => dev' = [dev EXCEPT !.on = (asked = "on")]
BY UntouchedChange, ExactWidth DEF SafetyInv

\* What is reported as a measurement fits the measured current.
LEMMA ReadingInRange ==
  ASSUME NEW V, SafetyOf(V)
  PROVE  ReadCurrent \in 0..MaxIn
<1>1. avrgCurrent \in 0..FullScale
  BY DEF SafetyOf, TypesOf, Typed
<1>2. Exchanges * Scale \in Nat \ {0}
  BY ScaleFacts, ParametersHold, ProductPositive DEF Parameters
<1>3. FullScale = MaxIn * (Exchanges * Scale)
  <2>1. Exchanges \in Nat /\ Scale \in Nat /\ MaxIn \in Nat
    BY ScaleFacts, ParametersHold DEF Parameters
  <2> QED
    BY <2>1 DEF FullScale
<1> DEFINE b == Exchanges * Scale
<1> HIDE DEF b
<1>4. b \in Nat \ {0} /\ FullScale = MaxIn * b /\ ReadCurrent = avrgCurrent \div b
  BY <1>2, <1>3 DEF b, ReadCurrent
<1>5. MaxIn \in Nat /\ avrgCurrent \in Nat /\ avrgCurrent <= MaxIn * b
  BY <1>1, <1>4, ParametersHold, ScaleFacts DEF Parameters
<1>6. /\ avrgCurrent \div b \in Nat
      /\ b * (avrgCurrent \div b) <= avrgCurrent
  BY <1>4, <1>5
<1> DEFINE q == avrgCurrent \div b
<1> HIDE DEF q
<1>7. q \in Nat /\ b * q <= MaxIn * b
  BY <1>4, <1>5, <1>6 DEF q
<1>8. q <= MaxIn
  <2> SUFFICES ASSUME q >= MaxIn + 1 PROVE FALSE
    BY <1>5, <1>7
  <2>1. (MaxIn + 1) * b <= q * b
    BY <1>4, <1>5, <1>7, ProductMonotone
  <2>2. (MaxIn + 1) * b = MaxIn * b + b /\ q * b = b * q
    BY <1>4, <1>5, <1>7
  <2>3. MaxIn * b \in Nat
    BY <1>4, <1>5
  <2> QED
    BY <1>4, <1>7, <2>1, <2>2, <2>3
<1> QED
  BY <1>4, <1>7, <1>8, <1>5 DEF q

\* A frame of the loop that closes a circuit carries a write.
LEMMA LoopCloses ==
  ASSUME NEW V, Wide(V), SafetyOf(V), NEW m, Exchange(m), ~dev.on, dev'.on
  PROVE  pc = "exchange" /\ done = 0 /\ asked \in {"on", "current"}
<1>1. pc = "exchange" /\ Typed(V) /\ ExchangeFrame
  BY DEF Exchange, SafetyOf, TypesOf
<1>2. Accepts /\ out.on
  BY <1>1, FrameEffect
<1>3. Pending
  BY <1>1, <1>2 DEF SafetyOf, WriteEnabledOnce, Accepts, Pending
<1>4. asked # "none" /\ asked # "off"
  BY <1>2, <1>3 DEF SafetyOf, ReadsAreProtected, RequestCarried, Accepts
<1> QED
  BY <1>1, <1>3, <1>4 DEF Typed, Pending

\* The frame of local mode closes a circuit if it repeats one that was seen closed
\* by a driver that still takes the supply to be in local mode.
LEMMA SyncCloses ==
  ASSUME NEW V, Wide(V), SafetyOf(V), SyncExchange, ~dev.on, dev'.on
  PROVE  pc = "sync" /\ touched /\ in.on /\ ~in.remote
<1>1. pc = "sync" /\ Typed(V) /\ ExchangeFrame
  BY DEF SyncExchange, SafetyOf, TypesOf
<1>2. out.on
  BY <1>1, FrameEffect
<1>3. in.on /\ ~in.remote
  BY <1>1, <1>2 DEF SafetyOf, SyncPrepared
<1>4. touched
  BY SyncNeedsTouch
<1> QED
  BY <1>1, <1>3, <1>4

\* The same of any frame of a call.
LEMMA ClosesStep ==
  ASSUME NEW V, Wide(V), SafetyOf(V), Communicate, ~dev.on, dev'.on
  PROVE  \/ pc = "exchange" /\ done = 0 /\ asked \in {"on", "current"}
         \/ pc = "sync" /\ touched /\ in.on /\ ~in.remote
<1>1. CASE \E m \in 0..MaxIn : Exchange(m)
  BY <1>1, LoopCloses
<1>2. CASE FinishAveraging
  BY <1>2 DEF FinishAveraging
<1>3. CASE SyncExchange
  BY <1>3, SyncCloses
<1> QED
  BY <1>1, <1>2, <1>3 DEF Communicate

\* An open circuit is closed by the first frame of a write, or by the frame of local
\* mode when the supply was touched and the key turned since its status was read.
THEOREM ClosedByWriteOrSyncHolds == Spec => ClosedByWriteOrSync
<1> DEFINE A == Communicate /\ ~dev.on /\ dev'.on =>
                  \/ pc = "exchange" /\ done = 0 /\ asked \in {"on", "current"}
                  \/ pc = "sync" /\ touched /\ in.on /\ ~in.remote
<1>1. SafetyInv /\ [Next]_vars => [A]_vars
  BY ClosesStep, ExactWidth DEF SafetyInv
<1>2. Spec => [][A]_vars
  BY <1>1, AlwaysSafe, PTL DEF Spec
<1> QED
  BY <1>2 DEF ClosedByWriteOrSync
=============================================================================

---------------------------- MODULE PsFrames_proofs ----------------------------
(***************************************************************************)
(* Proofs about the bits of the frame to the supply, for every reading of  *)
(* the supply, every set current and every number of exchanges.            *)
(***************************************************************************)
EXTENDS PsFrames, PsBits_proofs, TLAPS

(***************************************************************************)
(* The setters.  The bits the firmware never writes are those that no      *)
(* setter of its own reaches.                                              *)
(***************************************************************************)
Untouched == UnusedBits \cup TestOnlyBits

\* setCurrentWrite writes the confirm bits and no other.
LEMMA ConfirmKeeps ==
  ASSUME NEW buf, IsOut(buf), NEW st
  PROVE  /\ IsOut(setCurrentWrite(buf, st))
         /\ AgreeAt(setCurrentWrite(buf, st), buf, Untouched)
<1> DEFINE first == setBit(buf, psOUTConfirmCurrentWrite1Pos, st)
<1>1. IsOut(first) /\ AgreeAt(first, buf, OutBits \ {21})
  BY SetBitAt DEF OutBits, psOUTConfirmCurrentWrite1Pos
<1> HIDE DEF first
<1>2. /\ IsOut(setBit(first, 23, st))
      /\ AgreeAt(setBit(first, 23, st), first, OutBits \ {23})
  BY <1>1, SetBitAt DEF OutBits
<1>3. setCurrentWrite(buf, st) = setBit(first, 23, st)
  BY DEF setCurrentWrite, first, psOUTConfirmCurrentWrite2Pos
<1>4. Untouched \subseteq OutBits \ {21, 23}
  BY DEF Untouched, UnusedBits, TestOnlyBits, OutBits, psOUTPsResetPos,
         psOUTElectronicResetPos, greenLed, redLed
<1> QED
  BY <1>1, <1>2, <1>3, <1>4 DEF AgreeAt

\* setCurrent writes the set current and the confirm bits.
LEMMA CurrentKeeps ==
  ASSUME NEW buf, IsOut(buf), NEW val
  PROVE  /\ IsOut(setCurrent(buf, val))
         /\ AgreeAt(setCurrent(buf, val), buf, Untouched)
<1> DEFINE enabled == setCurrentWrite(buf, TRUE)
<1>1. IsOut(enabled) /\ AgreeAt(enabled, buf, Untouched)
  BY ConfirmKeeps
<1>2. setCurrent(buf, val) = setUint(enabled, val, psOUTCurrentPos, psOUTCurrentLen)
  BY DEF setCurrent
<1> HIDE DEF enabled
<1>3. /\ IsOut(setCurrent(buf, val))
      /\ AgreeAt(setCurrent(buf, val), enabled, 16..31)
  BY <1>1, <1>2, SetUintOutside
<1>4. Untouched \subseteq 16..31
  BY DEF Untouched, UnusedBits, TestOnlyBits, psOUTPsResetPos,
         psOUTElectronicResetPos, greenLed, redLed
<1> QED
  BY <1>1, <1>3, <1>4 DEF AgreeAt

\* setPowerCircuit writes the on/off bit and the confirm bits.
LEMMA CircuitKeeps ==
  ASSUME NEW buf, IsOut(buf), NEW st
  PROVE  /\ IsOut(setPowerCircuit(buf, st))
         /\ AgreeAt(setPowerCircuit(buf, st), buf, Untouched)
<1> DEFINE enabled == setCurrentWrite(buf, TRUE)
<1>1. IsOut(enabled) /\ AgreeAt(enabled, buf, Untouched)
  BY ConfirmKeeps
<1>2. setPowerCircuit(buf, st) = setBit(enabled, 17, st)
  BY DEF setPowerCircuit, psOUTPowerCircuitPos
<1> HIDE DEF enabled
<1>3. /\ IsOut(setPowerCircuit(buf, st))
      /\ AgreeAt(setPowerCircuit(buf, st), enabled, OutBits \ {17})
  BY <1>1, <1>2, SetBitAt DEF OutBits
<1>4. Untouched \subseteq OutBits \ {17}
  BY DEF Untouched, UnusedBits, TestOnlyBits, OutBits, psOUTPsResetPos,
         psOUTElectronicResetPos, greenLed, redLed
<1> QED
  BY <1>1, <1>3, <1>4 DEF AgreeAt

\* A setter of the test program writes its own bit, and perhaps the confirm bits.
LEMMA TestSettersKeep ==
  ASSUME NEW buf, IsOut(buf), NEW st, NEW after,
         after \in {setReset(buf, st), setElectronicReset(buf, st),
                    setLedGreen(buf, st), setLedRed(buf, st)}
  PROVE  IsOut(after) /\ AgreeAt(after, buf, UnusedBits)
<1> DEFINE enabled == setCurrentWrite(buf, TRUE)
<1>1. IsOut(enabled) /\ AgreeAt(enabled, buf, UnusedBits)
  BY ConfirmKeeps DEF AgreeAt, Untouched
<1>2. \/ after = setBit(enabled, 18, st) \/ after = setBit(enabled, 20, st)
      \/ after = setBit(buf, 24, st) \/ after = setBit(buf, 25, st)
  BY DEF setReset, setElectronicReset, setLedGreen, setLedRed, psOUTPsResetPos,
         psOUTElectronicResetPos, greenLed, redLed
<1> HIDE DEF enabled
<1>3. UnusedBits \subseteq OutBits \ {18, 20, 24, 25}
  BY DEF UnusedBits, OutBits
<1>4. \A b, pos : IsOut(b) /\ pos \in {18, 20, 24, 25} =>
        IsOut(setBit(b, pos, st)) /\ AgreeAt(setBit(b, pos, st), b, UnusedBits)
  <2> SUFFICES ASSUME NEW b, NEW pos \in {18, 20, 24, 25}, IsOut(b)
               PROVE  IsOut(setBit(b, pos, st)) /\ AgreeAt(setBit(b, pos, st), b, UnusedBits)
    OBVIOUS
  <2>1. pos \in OutBits
    BY DEF OutBits
  <2>2. IsOut(setBit(b, pos, st)) /\ AgreeAt(setBit(b, pos, st), b, OutBits \ {pos})
    BY <2>1, SetBitAt
  <2> QED
    BY <2>2, <1>3 DEF AgreeAt
<1> QED
  BY <1>1, <1>2, <1>4 DEF AgreeAt
-----------------------------------------------------------------------------
(***************************************************************************)
(* The unused bits.                                                        *)
(***************************************************************************)
BitsInv == IsOut(psBufOut) /\ UnusedStayZero

\* A step whose frame agrees with the one before at the bits nobody writes.
LEMMA AgreeingStep ==
  ASSUME BitsInv, IsOut(psBufOut'), program' = program,
         AgreeAt(psBufOut', psBufOut, UnusedBits),
         program = "firmware" => AgreeAt(psBufOut', psBufOut, Untouched)
  PROVE  BitsInv'
BY DEF BitsInv, UnusedStayZero, AgreeAt, Untouched, UnusedBits, TestOnlyBits

\* The bits nobody writes are zero in a new object and stay zero.
LEMMA BitsInductive ==
  /\ Init => BitsInv
  /\ BitsInv /\ [Next]_vars => BitsInv'
<1>1. IsOut(ZeroOut) /\ \A p \in Untouched : ~ZeroOut[p]
  BY DEF IsOut, ZeroOut, OutBits, Untouched, UnusedBits, TestOnlyBits,
         psOUTPsResetPos, psOUTElectronicResetPos, greenLed, redLed
<1>2. Init => BitsInv
  BY <1>1 DEF Init, BitsInv, UnusedStayZero, Untouched
<1>3. ASSUME BitsInv, [Next]_vars
      PROVE  BitsInv'
  <2>1. IsOut(psBufOut)
    BY <1>3 DEF BitsInv
  <2>2. ASSUME program' = program, IsOut(psBufOut'), AgreeAt(psBufOut', psBufOut, Untouched)
        PROVE  BitsInv'
    BY <1>3, <2>2, AgreeingStep DEF AgreeAt, Untouched
  <2>3. ASSUME UNCHANGED <<psBufOut, program>>
        PROVE  BitsInv'
    BY <2>1, <2>2, <2>3 DEF AgreeAt
  <2>4. CASE Refresh
    BY <2>3, <2>4 DEF Refresh, Calls
  <2>5. ASSUME NEW value, SetStatusIsOn(value)
        PROVE  BitsInv'
    <3>1. psBufOut' = setPowerCircuit(psBufOut, value # 0) /\ program' = program
      BY <2>5 DEF SetStatusIsOn, Calls
    <3> QED
      BY <3>1, <2>1, <2>2, CircuitKeeps
  <2>6. ASSUME NEW value, SetStatusCurrent(value)
        PROVE  BitsInv'
    <3>1. psBufOut' = setCurrent(psBufOut, value) /\ program' = program
      BY <2>6 DEF SetStatusCurrent, Calls
    <3> QED
      BY <3>1, <2>1, <2>2, CurrentKeeps
  <2>7. CASE TestStarts
    BY <2>3, <2>7 DEF TestStarts, TestCalls
  <2>8. CASE TestTurn
    <3> DEFINE buf == setPowerCircuit(psBufOut, isPowerCircuitOn)
    <3>1. IsOut(buf) /\ AgreeAt(buf, psBufOut, UnusedBits)
      BY <2>1, CircuitKeeps DEF AgreeAt, Untouched
    <3>2. program = "test" /\ program' = program
      BY <2>8 DEF TestTurn, TestCalls
    <3>3. \/ psBufOut' = buf
          \/ TestCommand(buf, [written EXCEPT !.on = isPowerCircuitOn])
      BY <2>8 DEF TestTurn
    <3> HIDE DEF buf
    <3>4. \/ psBufOut' = buf
          \/ \E val : psBufOut' = setCurrent(buf, val)
          \/ \E st : psBufOut' = setPowerCircuit(buf, st)
          \/ \E st : psBufOut' \in {setReset(buf, st), setElectronicReset(buf, st),
                                    setLedGreen(buf, st), setLedRed(buf, st)}
      BY <3>3 DEF TestCommand
    <3>5. IsOut(psBufOut') /\ AgreeAt(psBufOut', buf, UnusedBits)
      <4>1. CASE psBufOut' = buf
        BY <4>1, <3>1 DEF AgreeAt
      <4>2. ASSUME NEW val, psBufOut' = setCurrent(buf, val)
            PROVE  IsOut(psBufOut') /\ AgreeAt(psBufOut', buf, UnusedBits)
        BY <4>2, <3>1, CurrentKeeps DEF AgreeAt, Untouched
      <4>3. ASSUME NEW st, psBufOut' = setPowerCircuit(buf, st)
            PROVE  IsOut(psBufOut') /\ AgreeAt(psBufOut', buf, UnusedBits)
        BY <4>3, <3>1, CircuitKeeps DEF AgreeAt, Untouched
      <4>4. ASSUME NEW st,
                   psBufOut' \in {setReset(buf, st), setElectronicReset(buf, st),
                                  setLedGreen(buf, st), setLedRed(buf, st)}
            PROVE  IsOut(psBufOut') /\ AgreeAt(psBufOut', buf, UnusedBits)
        BY <4>4, <3>1, TestSettersKeep
      <4> QED
        BY <3>4, <4>1, <4>2, <4>3, <4>4
    <3> QED
      BY <1>3, <3>1, <3>2, <3>5, AgreeingStep DEF AgreeAt
  <2>9. ASSUME NEW reading, Exchange(reading) \/ SyncExchange(reading)
        PROVE  BitsInv'
    <3>1. psBufOut' = setCurrentWrite(psBufOut, FALSE) /\ program' = program
      BY <2>9 DEF Exchange, SyncExchange, comunicateWithPS
    <3> QED
      BY <3>1, <2>1, <2>2, ConfirmKeeps
  <2>10. CASE FinishAveraging
    <3>1. program' = program
      BY <2>10 DEF FinishAveraging
    <3>2. \/ psBufOut' = psBufOut
          \/ \E level : psBufOut' = setCurrent(setPowerCircuit(psBufOut, isPowerCircuitOn), level)
      BY <2>10 DEF FinishAveraging
    <3>3. ASSUME NEW level,
                 psBufOut' = setCurrent(setPowerCircuit(psBufOut, isPowerCircuitOn), level)
          PROVE  BitsInv'
      <4> DEFINE mid == setPowerCircuit(psBufOut, isPowerCircuitOn)
      <4>1. IsOut(mid) /\ AgreeAt(mid, psBufOut, Untouched)
        BY <2>1, CircuitKeeps
      <4>2. psBufOut' = setCurrent(mid, level)
        BY <3>3
      <4> HIDE DEF mid
      <4>3. IsOut(psBufOut') /\ AgreeAt(psBufOut', mid, Untouched)
        BY <4>1, <4>2, CurrentKeeps
      <4> QED
        BY <4>1, <4>3, <3>1, <2>2 DEF AgreeAt
    <3> QED
      BY <3>1, <3>2, <3>3, <2>3
  <2>11. CASE Reboot
    BY <2>11, <1>1 DEF Reboot, BitsInv, UnusedStayZero, Untouched
  <2>12. CASE SupplyStep
    BY <2>3, <2>12 DEF SupplyStep, driverVars
  <2>13. CASE UNCHANGED vars
    BY <2>3, <2>13 DEF vars, driverVars
  <2> QED
    BY <1>3, <2>4, <2>5, <2>6, <2>7, <2>8, <2>9, <2>10, <2>11, <2>12, <2>13
    DEF Next, Call, Communicate
<1> QED
  BY <1>2, <1>3

\* "unused always 0": whatever is written to the frame, by the firmware or by the
\* test program, its unused bits stay zero, and under the firmware the reset bits
\* and the LEDs too.
THEOREM UnusedStayZeroHolds == Spec => []UnusedStayZero
<1>1. BitsInv => UnusedStayZero
  BY DEF BitsInv
<1> QED
  BY <1>1, BitsInductive, PTL DEF Spec
-----------------------------------------------------------------------------
(***************************************************************************)
(* The fields.  Each setter, applied to a frame that matches what was      *)
(* written, leaves one that matches what is written then: no setter        *)
(* disturbs the field of another.                                          *)
(***************************************************************************)

Fields == {"current", "on", "reset", "electronicReset", "green", "red"}

IsWritten(w) == DOMAIN w = Fields

Matches(buf, w) ==
  /\ IsOut(buf) /\ IsWritten(w)
  /\ buf[17] = w.on /\ buf[18] = w.reset /\ buf[20] = w.electronicReset
  /\ buf[24] = w.green /\ buf[25] = w.red
  /\ buf[21] = buf[23]
  /\ \A k \in 0..psOUTCurrentLen - 1 : Register(buf)[k] = BitOf(w.current, k)

\* Writing a bit outside of the first two bytes keeps the bits of the set current.
LEMMA SetBitKeepsCurrent ==
  ASSUME NEW buf, IsOut(buf), NEW pos \in 16..31, NEW st
  PROVE  \A k \in 0..psOUTCurrentLen - 1 : Register(setBit(buf, pos, st))[k] = Register(buf)[k]
<1>1. pos \in OutBits /\ 0..15 \subseteq OutBits \ {pos}
  BY DEF OutBits
<1>2. AgreeAt(setBit(buf, pos, st), buf, 0..15)
  BY <1>1, SetBitAt DEF AgreeAt
<1> QED
  BY <1>2, CurrentBytes

\* setCurrentWrite keeps the match and makes both confirm bits what it is told.
LEMMA ConfirmMatches ==
  ASSUME NEW buf, NEW w, Matches(buf, w), NEW st
  PROVE  Matches(setCurrentWrite(buf, st), w)
<1> DEFINE first == setBit(buf, 21, st)
<1>1. {17, 18, 20, 21, 23, 24, 25} \subseteq OutBits
  BY DEF OutBits
<1>2. /\ IsOut(first) /\ first[21] = st
      /\ \A p \in OutBits : p # 21 => first[p] = buf[p]
  BY <1>1, SetBitValue DEF Matches
<1> HIDE DEF first
<1>3. /\ IsOut(setBit(first, 23, st)) /\ setBit(first, 23, st)[23] = st
      /\ \A p \in OutBits : p # 23 => setBit(first, 23, st)[p] = first[p]
  BY <1>1, <1>2, SetBitValue
<1>4. setCurrentWrite(buf, st) = setBit(first, 23, st)
  BY DEF setCurrentWrite, first, psOUTConfirmCurrentWrite1Pos, psOUTConfirmCurrentWrite2Pos
<1>5. \A k \in 0..psOUTCurrentLen - 1 : Register(setBit(first, 23, st))[k] = Register(buf)[k]
  <2>1. \A k \in 0..psOUTCurrentLen - 1 : Register(first)[k] = Register(buf)[k]
    BY SetBitKeepsCurrent DEF first, Matches
  <2>2. \A k \in 0..psOUTCurrentLen - 1 : Register(setBit(first, 23, st))[k] = Register(first)[k]
    BY <1>2, SetBitKeepsCurrent
  <2> QED
    BY <2>1, <2>2
<1>6. \A k \in 0..psOUTCurrentLen - 1 : Register(setCurrentWrite(buf, st))[k] = BitOf(w.current, k)
  BY <1>4, <1>5 DEF Matches
<1> QED
  BY <1>1, <1>2, <1>3, <1>4, <1>6 DEF Matches

\* The fields of the history record after one of them is written.
LEMMA WrittenFields ==
  ASSUME NEW w, IsWritten(w), NEW f \in Fields, NEW v
  PROVE  /\ IsWritten([w EXCEPT ![f] = v])
         /\ [w EXCEPT ![f] = v][f] = v
         /\ \A g \in Fields \ {f} : [w EXCEPT ![f] = v][g] = w[g]
BY DEF IsWritten

\* setCurrent keeps every control bit, whatever value it writes.
LEMMA CurrentMatches ==
  ASSUME NEW buf, NEW w, Matches(buf, w), NEW val
  PROVE  Matches(setCurrent(buf, val), [w EXCEPT !.current = val])
<1> DEFINE enabled == setCurrentWrite(buf, TRUE)
<1>1. Matches(enabled, w)
  BY ConfirmMatches
<1>2. setCurrent(buf, val) = setUint(enabled, val, psOUTCurrentPos, psOUTCurrentLen)
  BY DEF setCurrent
<1> HIDE DEF enabled
<1>3. IsOut(setCurrent(buf, val)) /\ AgreeAt(setCurrent(buf, val), enabled, 16..31)
  BY <1>1, <1>2, SetUintOutside DEF Matches
<1>4. {17, 18, 20, 21, 23, 24, 25} \subseteq 16..31
  OBVIOUS
<1>5. \A k \in 0..psOUTCurrentLen - 1 : Register(setCurrent(buf, val))[k] = BitOf(val, k)
  BY <1>1, <1>2, CurrentOnWire DEF Matches
<1> DEFINE after == [w EXCEPT !.current = val]
<1>6. /\ IsWritten(after) /\ after.current = val
      /\ after.on = w.on /\ after.reset = w.reset /\ after.electronicReset = w.electronicReset
      /\ after.green = w.green /\ after.red = w.red
  BY WrittenFields DEF Matches, Fields
<1> HIDE DEF after
<1> DEFINE buf2 == setCurrent(buf, val)
<1>7. \A p \in {17, 18, 20, 21, 23, 24, 25} : buf2[p] = enabled[p]
  BY <1>3, <1>4 DEF AgreeAt
<1>8. IsOut(buf2) /\ \A k \in 0..psOUTCurrentLen - 1 : Register(buf2)[k] = BitOf(after.current, k)
  BY <1>3, <1>5, <1>6
<1> HIDE DEF buf2
<1>9. Matches(buf2, after)
  BY <1>1, <1>6, <1>7, <1>8 DEF Matches
<1> QED
  BY <1>9 DEF buf2, after

\* Each one-bit setter writes its own bit.
LEMMA BitMatches ==
  ASSUME NEW buf, NEW w, Matches(buf, w), NEW st
  PROVE  /\ Matches(setPowerCircuit(buf, st), [w EXCEPT !.on = st])
         /\ Matches(setReset(buf, st), [w EXCEPT !.reset = st])
         /\ Matches(setElectronicReset(buf, st), [w EXCEPT !.electronicReset = st])
         /\ Matches(setLedGreen(buf, st), [w EXCEPT !.green = st])
         /\ Matches(setLedRed(buf, st), [w EXCEPT !.red = st])
<1> DEFINE enabled == setCurrentWrite(buf, TRUE)
<1>1. Matches(enabled, w)
  BY ConfirmMatches
<1>2. /\ setPowerCircuit(buf, st) = setBit(enabled, 17, st)
      /\ setReset(buf, st) = setBit(enabled, 18, st)
      /\ setElectronicReset(buf, st) = setBit(enabled, 20, st)
      /\ setLedGreen(buf, st) = setBit(buf, 24, st)
      /\ setLedRed(buf, st) = setBit(buf, 25, st)
  BY DEF setPowerCircuit, setReset, setElectronicReset, setLedGreen, setLedRed,
         psOUTPowerCircuitPos, psOUTPsResetPos, psOUTElectronicResetPos, greenLed, redLed
<1> HIDE DEF enabled
<1>3. {17, 18, 20, 21, 23, 24, 25} \subseteq OutBits
  BY DEF OutBits
<1>4. ASSUME NEW b, Matches(b, w), NEW pos \in {17, 18, 20, 24, 25}
      PROVE  /\ IsOut(setBit(b, pos, st)) /\ setBit(b, pos, st)[pos] = st
             /\ \A p \in {17, 18, 20, 21, 23, 24, 25} : p # pos => setBit(b, pos, st)[p] = b[p]
             /\ \A k \in 0..psOUTCurrentLen - 1 :
                  Register(setBit(b, pos, st))[k] = BitOf(w.current, k)
  <2>1. pos \in OutBits /\ pos \in 16..31
    BY <1>3
  <2>2. \A k \in 0..psOUTCurrentLen - 1 : Register(setBit(b, pos, st))[k] = Register(b)[k]
    BY <1>4, <2>1, SetBitKeepsCurrent DEF Matches
  <2> QED
    BY <1>3, <1>4, <2>1, <2>2, SetBitValue DEF Matches
<1>5. Matches(setBit(enabled, 17, st), [w EXCEPT !.on = st])
  <2>1. IsWritten(w)
    BY DEF Matches
  <2> QED
    BY <1>1, <1>4, <2>1, WrittenFields DEF Matches, Fields
<1>6. Matches(setBit(enabled, 18, st), [w EXCEPT !.reset = st])
  <2>1. IsWritten(w)
    BY DEF Matches
  <2> QED
    BY <1>1, <1>4, <2>1, WrittenFields DEF Matches, Fields
<1>7. Matches(setBit(enabled, 20, st), [w EXCEPT !.electronicReset = st])
  <2>1. IsWritten(w)
    BY DEF Matches
  <2> QED
    BY <1>1, <1>4, <2>1, WrittenFields DEF Matches, Fields
<1>8. Matches(setBit(buf, 24, st), [w EXCEPT !.green = st])
  <2>1. IsWritten(w)
    BY DEF Matches
  <2> QED
    BY <1>1, <1>4, <2>1, WrittenFields DEF Matches, Fields
<1>9. Matches(setBit(buf, 25, st), [w EXCEPT !.red = st])
  <2>1. IsWritten(w)
    BY DEF Matches
  <2> QED
    BY <1>1, <1>4, <2>1, WrittenFields DEF Matches, Fields
<1> QED
  BY <1>2, <1>5, <1>6, <1>7, <1>8, <1>9
-----------------------------------------------------------------------------
FrameMatches == Matches(psBufOut, written)

\* The frame matches what was written to it in a new object, and every step of the
\* firmware, of the test program and of the supply keeps that.
LEMMA MatchInductive ==
  /\ Init => FrameMatches
  /\ FrameMatches /\ [Next]_vars => FrameMatches'
<1>1. Matches(ZeroOut, NothingWritten)
  <2>1. ASSUME NEW k \in 0..psOUTCurrentLen - 1
        PROVE  Register(ZeroOut)[k] = BitOf(0, k)
    <3>1. /\ ZeroOut[8 * outIndex((Words - 4) + (k \div 8)) + (7 - (k % 8))] = FALSE
          /\ k \in OutBits
      BY DEF psOUTCurrentLen, outIndex, Words, ZeroOut, OutBits
    <3>2. psOUTCurrentLen \in Nat
      BY DEF psOUTCurrentLen
    <3>3. BitOf(0, k) = FALSE
      BY <3>2, ZeroBits, FieldWeights
    <3> QED
      BY <3>1, <3>3 DEF Register
  <2> QED
    BY <2>1 DEF Matches, IsOut, IsWritten, ZeroOut, OutBits, NothingWritten, Fields
<1>2. Init => FrameMatches
  BY <1>1 DEF Init, FrameMatches
<1>3. ASSUME FrameMatches, [Next]_vars
      PROVE  FrameMatches'
  <2>1. Matches(psBufOut, written)
    BY <1>3 DEF FrameMatches
  <2>2. ASSUME UNCHANGED <<psBufOut, written>>
        PROVE  FrameMatches'
    BY <2>1, <2>2 DEF FrameMatches
  <2>3. CASE Refresh
    BY <2>2, <2>3 DEF Refresh
  <2>4. ASSUME NEW value, SetStatusIsOn(value)
        PROVE  FrameMatches'
    BY <2>1, <2>4, BitMatches DEF SetStatusIsOn, FrameMatches
  <2>5. ASSUME NEW value, SetStatusCurrent(value)
        PROVE  FrameMatches'
    BY <2>1, <2>5, CurrentMatches DEF SetStatusCurrent, FrameMatches
  <2>6. CASE TestStarts
    BY <2>2, <2>6 DEF TestStarts
  <2>7. CASE TestTurn
    <3> DEFINE buf == setPowerCircuit(psBufOut, isPowerCircuitOn)
               w   == [written EXCEPT !.on = isPowerCircuitOn]
    <3>1. Matches(buf, w)
      BY <2>1, BitMatches
    <3>2. (psBufOut' = buf /\ written' = w) \/ TestCommand(buf, w)
      BY <2>7 DEF TestTurn
    <3> HIDE DEF buf, w
    <3>3. CASE psBufOut' = buf /\ written' = w
      BY <3>1, <3>3 DEF FrameMatches
    <3>4. CASE TestCommand(buf, w)
      <4>1. \/ psBufOut' = buf /\ written' = w
            \/ \E val : /\ psBufOut' = setCurrent(buf, val)
                       /\ written' = [w EXCEPT !.current = val]
            \/ \E st : \/ /\ psBufOut' = setPowerCircuit(buf, st)
                         /\ written' = [w EXCEPT !.on = st]
                      \/ /\ psBufOut' = setReset(buf, st)
                         /\ written' = [w EXCEPT !.reset = st]
                      \/ /\ psBufOut' = setElectronicReset(buf, st)
                         /\ written' = [w EXCEPT !.electronicReset = st]
                      \/ /\ psBufOut' = setLedGreen(buf, st)
                         /\ written' = [w EXCEPT !.green = st]
                      \/ /\ psBufOut' = setLedRed(buf, st)
                         /\ written' = [w EXCEPT !.red = st]
        BY <3>4, Zenon DEF TestCommand
      <4>2. Matches(psBufOut', written')
        <5>1. CASE psBufOut' = buf /\ written' = w
          BY <3>1, <5>1
        <5>2. ASSUME NEW val, psBufOut' = setCurrent(buf, val),
                     written' = [w EXCEPT !.current = val]
              PROVE  Matches(psBufOut', written')
          BY <3>1, <5>2, CurrentMatches
        <5>3. ASSUME NEW st
              PROVE  /\ Matches(setPowerCircuit(buf, st), [w EXCEPT !.on = st])
                     /\ Matches(setReset(buf, st), [w EXCEPT !.reset = st])
                     /\ Matches(setElectronicReset(buf, st), [w EXCEPT !.electronicReset = st])
                     /\ Matches(setLedGreen(buf, st), [w EXCEPT !.green = st])
                     /\ Matches(setLedRed(buf, st), [w EXCEPT !.red = st])
          BY <3>1, BitMatches
        <5> QED
          BY <4>1, <5>1, <5>2, <5>3, Zenon
      <4> QED
        BY <4>2 DEF FrameMatches
    <3> QED
      BY <3>2, <3>3, <3>4
  <2>8. ASSUME NEW reading, Exchange(reading) \/ SyncExchange(reading)
        PROVE  FrameMatches'
    <3>1. psBufOut' = setCurrentWrite(psBufOut, FALSE) /\ written' = written
      BY <2>8 DEF Exchange, SyncExchange, comunicateWithPS
    <3> QED
      BY <2>1, <3>1, ConfirmMatches DEF FrameMatches
  <2>9. CASE FinishAveraging
    <3> DEFINE level == Driver!SetpointLevel(avrgCurrent')
               mid   == setPowerCircuit(psBufOut, isPowerCircuitOn)
    <3>1. CASE isRemote
      BY <2>2, <2>9, <3>1 DEF FinishAveraging
    <3>2. CASE ~isRemote
      <4>1. /\ psBufOut' = setCurrent(mid, level)
            /\ written' = [written EXCEPT !.on = isPowerCircuitOn, !.current = level]
        BY <2>9, <3>2 DEF FinishAveraging
      <4>2. Matches(mid, [written EXCEPT !.on = isPowerCircuitOn])
        BY <2>1, BitMatches
      <4> HIDE DEF mid, level
      <4>3. Matches(psBufOut', [[written EXCEPT !.on = isPowerCircuitOn] EXCEPT !.current = level])
        BY <4>1, <4>2, CurrentMatches
      <4>4. written' = [[written EXCEPT !.on = isPowerCircuitOn] EXCEPT !.current = level]
        BY <4>1
      <4> QED
        BY <4>3, <4>4 DEF FrameMatches
    <3> QED
      BY <3>1, <3>2
  <2>10. CASE Reboot
    BY <1>1, <2>10 DEF Reboot, FrameMatches
  <2>11. CASE SupplyStep
    BY <2>2, <2>11 DEF SupplyStep, driverVars
  <2>12. CASE UNCHANGED vars
    BY <2>2, <2>12 DEF vars, driverVars
  <2> QED
    BY <1>3, <2>3, <2>4, <2>5, <2>6, <2>7, <2>8, <2>9, <2>10, <2>11, <2>12
    DEF Next, Call, Communicate
<1> QED
  BY <1>2, <1>3

\* What the supply decodes of the control bits is what the driver wrote to each of
\* them last, and the two confirm bits never differ.
THEOREM ControlAsWrittenHolds == Spec => []ControlAsWritten
<1>1. FrameMatches => ControlAsWritten
  BY ArrivedAt
  DEF FrameMatches, Matches, ControlAsWritten, psOUTPowerCircuitPos, psOUTPsResetPos,
      psOUTElectronicResetPos, greenLed, redLed, psOUTConfirmCurrentWrite1Pos,
      psOUTConfirmCurrentWrite2Pos
<1> QED
  BY <1>1, MatchInductive, PTL DEF Spec
-----------------------------------------------------------------------------
(***************************************************************************)
(* Ranges: what is written fits its field, what is read is what was sent,  *)
(* and the average stays within full scale.  The arithmetic of the average *)
(* is that of the abstract driver, seen through the two frames.            *)
(***************************************************************************)
Abstract == INSTANCE PowerSupply200A_proofs WITH
  out <- OutView, in <- [remote |-> isRemote, on |-> isPowerCircuitOn]

\* The widths of the fields, and what a number that fits one satisfies.
LEMMA Widths ==
  /\ MaxIn \in Nat \ {0} /\ MaxOut \in Nat \ {0}
  /\ AvrgComponentCount \in Nat /\ Scale \in Nat \ {0}
  /\ \A n \in 0..MaxOut : n \in Nat /\ n < 2^psOUTCurrentLen
  /\ \A n \in 0..MaxIn : n \in Nat /\ n < 4096
  /\ \A n \in 0..maxPossibleValue(psVoltageLen) : n \in Nat /\ n < 4096
  /\ 0 \in 0..MaxIn /\ 0 \in 0..MaxOut /\ 0 \in 0..maxPossibleValue(psVoltageLen)
<1>1. MaxIn = 4095 /\ MaxOut = 65535 /\ maxPossibleValue(psVoltageLen) = 4095
  BY DEF MaxIn, MaxOut, maxPossibleValue, psCurrentLen, psOUTCurrentLen, psVoltageLen
<1>2. 2^psOUTCurrentLen = 65536
  BY DEF psOUTCurrentLen
<1> DEFINE MaxVoltage == maxPossibleValue(psVoltageLen)
<1> HIDE DEF MaxVoltage
<1>3. MaxIn = 4095 /\ MaxOut = 65535 /\ MaxVoltage = 4095
  BY <1>1 DEF MaxVoltage
<1>4. \A n \in 0..MaxOut : n \in Nat /\ n < 2^psOUTCurrentLen
  BY <1>2, <1>3
<1>5. /\ \A n \in 0..MaxIn : n \in Nat /\ n < 4096
      /\ \A n \in 0..MaxVoltage : n \in Nat /\ n < 4096
      /\ 0 \in 0..MaxIn /\ 0 \in 0..MaxOut /\ 0 \in 0..MaxVoltage
  BY <1>3
<1>6. MaxIn \in Nat \ {0} /\ MaxOut \in Nat \ {0}
  BY <1>3
<1> QED
  BY <1>4, <1>5, <1>6, CountAssumption, ScaleAssumption, Zenon DEF MaxVoltage

\* The parameters of the average are those of the abstract driver.
LEMMA AverageParameters ==
  /\ Driver!Exchanges \in Nat /\ Driver!Exchanges >= 2 /\ Driver!FullScale \in Nat
  /\ 0 \in 0..Driver!FullScale
  /\ \A sum \in 0..Driver!FullScale : Driver!Rounded(sum) \subseteq 0..Driver!FullScale
  /\ \A avrg \in 0..Driver!FullScale : Driver!SetpointLevel(avrg) \in 0..MaxOut
<1>1. /\ Abstract!Exchanges = Driver!Exchanges /\ Abstract!FullScale = Driver!FullScale
      /\ \A a : Abstract!Rounded(a) = Driver!Rounded(a)
      /\ \A a : Abstract!SetpointLevel(a) = Driver!SetpointLevel(a)
  BY DEF Abstract!Exchanges, Driver!Exchanges, Abstract!FullScale, Driver!FullScale,
         Abstract!Rounded, Driver!Rounded, Abstract!SetpointLevel, Driver!SetpointLevel
<1>2. /\ Abstract!Exchanges \in Nat /\ Abstract!Exchanges >= 2
      /\ Abstract!FullScale \in Nat \ {0}
  BY Widths, Abstract!ScaleFacts
<1>3. \A sum \in 0..Abstract!FullScale : Abstract!Rounded(sum) \subseteq 0..Abstract!FullScale
  BY Widths, Abstract!RoundedInRange
<1>4. \A avrg \in 0..Abstract!FullScale : Abstract!SetpointLevel(avrg) \in 0..MaxOut
  BY Widths, Abstract!SetpointInRange
<1> QED
  BY <1>1, <1>2, <1>3, <1>4

SentRecords == [reading: ReadingRecords, remote: BOOLEAN, on: BOOLEAN]

WrittenInv == written.current \in 0..MaxOut /\ written.on \in BOOLEAN

SentInv == sent \in SentRecords /\ psBufIn = StatusFrame(sent.reading, sent.remote, sent.on)

AverageInv ==
  /\ avrgCurrent \in 0..Driver!FullScale
  /\ done \in 0..Driver!Exchanges
  /\ pc = "exchange" => done < Driver!Exchanges /\ avrgCurrent <= done * Abstract!Step

RangeInv == WrittenInv /\ SentInv /\ AverageInv /\ dev \in Driver!Devices

FrameInv == FrameMatches /\ RangeInv

\* The frame as the supply decodes it.
ViewAt(buf, w) == [current |-> w.current, on |-> w.on, confirm |-> buf[21] /\ buf[23]]

LEMMA FrameDecoded ==
  ASSUME NEW buf, NEW w, Matches(buf, w), w.current \in 0..MaxOut
  PROVE  /\ CurrentArrived(Register(buf)) = w.current
         /\ Arrived(Register(buf), psOUTPowerCircuitPos) = w.on
         /\ Arrived(Register(buf), psOUTConfirmCurrentWrite1Pos) = buf[21]
         /\ Arrived(Register(buf), psOUTConfirmCurrentWrite2Pos) = buf[23]
<1>1. CurrentArrived(Register(buf)) = w.current
  BY Widths, CurrentOfBits DEF Matches
<1> QED
  BY <1>1, ArrivedAt DEF Matches, psOUTPowerCircuitPos, psOUTConfirmCurrentWrite1Pos,
     psOUTConfirmCurrentWrite2Pos

LEMMA ViewOf ==
  /\ FrameMatches /\ WrittenInv => OutView = ViewAt(psBufOut, written)
  /\ FrameMatches' /\ WrittenInv' => OutView' = ViewAt(psBufOut', written')
BY FrameDecoded DEF OutView, ViewAt, FrameMatches, WrittenInv

\* The status as the driver decodes it.
LEMMA StatusDecoded ==
  ASSUME NEW s \in SentRecords, NEW buf, buf = StatusFrame(s.reading, s.remote, s.on)
  PROVE  /\ readUint(buf, psCurrentPos, psCurrentLen) = s.reading.current
         /\ readUint(buf, psVoltagePos, psVoltageLen) = s.reading.voltage
         /\ getBit(buf, psStatusErrorColectivePos) = s.reading.colective
         /\ getBit(buf, psStatusErrorExternalPos) = s.reading.external
         /\ getBit(buf, psStatusRemoteControlPos) = s.remote
         /\ getBit(buf, psStatusPowerCircuitPos) = s.on
         /\ getBit(buf, psStatusPolarisation1Pos) = s.reading.polarisation1
         /\ getBit(buf, psStatusPolarisation2Pos) = s.reading.polarisation2
<1> DEFINE r == s.reading
<1>1. r \in ReadingRecords /\ s.remote \in BOOLEAN /\ s.on \in BOOLEAN
  BY Zenon DEF SentRecords
<1> HIDE DEF r
<1>2. /\ r.colective \in BOOLEAN /\ r.external \in BOOLEAN
      /\ r.polarisation1 \in BOOLEAN /\ r.polarisation2 \in BOOLEAN
      /\ r.current \in 0..MaxIn /\ r.voltage \in 0..maxPossibleValue(psVoltageLen)
  BY <1>1, Zenon DEF ReadingRecords
<1>3. /\ r.current \in Nat /\ r.current < 4096
      /\ r.voltage \in Nat /\ r.voltage < 4096
  BY <1>2, Widths
<1>4. buf = StatusFrame(r, s.remote, s.on)
  BY DEF r
<1>5. /\ readUint(buf, psCurrentPos, psCurrentLen) = r.current
      /\ readUint(buf, psVoltagePos, psVoltageLen) = r.voltage
  BY <1>1, <1>2, <1>3, <1>4, StatusFrameRead
<1>6. /\ getBit(buf, psStatusErrorColectivePos) = r.colective
      /\ getBit(buf, psStatusErrorExternalPos) = r.external
      /\ getBit(buf, psStatusRemoteControlPos) = s.remote
      /\ getBit(buf, psStatusPowerCircuitPos) = s.on
      /\ getBit(buf, psStatusPolarisation1Pos) = r.polarisation1
      /\ getBit(buf, psStatusPolarisation2Pos) = r.polarisation2
  BY <1>1, <1>2, <1>4, StatusFrameBits
<1> QED
  BY <1>5, <1>6 DEF r

\* What one exchange reads and leaves at the supply.
LEMMA ExchangeRanges ==
  ASSUME FrameInv, NEW reading \in Readings, comunicateWithPS(reading)
  PROVE  /\ SentInv' /\ dev' \in Driver!Devices
         /\ sent'.reading = reading /\ reading.current \in 0..MaxIn
         /\ readCurrentRaw(psBufIn') = reading.current
<1> DEFINE now == [reading |-> reading, remote |-> dev.remote, on |-> dev.on]
<1>1. reading \in ReadingRecords /\ reading.current \in 0..MaxIn
  BY ReadingsAssumption, Zenon DEF ReadingRecords
<1>2. dev \in Driver!Devices /\ dev.remote \in BOOLEAN /\ dev.on \in BOOLEAN
  BY DEF FrameInv, RangeInv, Driver!Devices
<1>3. now \in SentRecords
  BY <1>1, <1>2, Zenon DEF SentRecords
<1>4. sent' = now /\ psBufIn' = StatusFrame(now.reading, now.remote, now.on)
  BY DEF comunicateWithPS
<1>5. dev' \in Driver!Devices
  <2>1. OutView.current \in 0..MaxOut /\ OutView.on \in BOOLEAN
    BY ViewOf DEF FrameInv, RangeInv, WrittenInv, ViewAt
  <2>2. dev' = dev \/ dev' = [dev EXCEPT !.set = OutView.current, !.on = OutView.on]
    BY DEF comunicateWithPS, Driver!AfterFrame
  <2> QED
    BY <1>2, <2>1, <2>2 DEF Driver!Devices
<1>6. readCurrentRaw(psBufIn') = now.reading.current
  <2> HIDE DEF now
  <2> QED
    BY <1>3, <1>4, StatusDecoded DEF readCurrentRaw
<1> QED
  BY <1>1, <1>3, <1>4, <1>5, <1>6 DEF SentInv

\* The circuit bit the driver reads is a bit.
LEMMA CircuitRead ==
  ASSUME SentInv
  PROVE  isPowerCircuitOn \in BOOLEAN
<1>1. isPowerCircuitOn = sent.on
  BY StatusDecoded DEF SentInv, isPowerCircuitOn
<1> QED
  BY <1>1, Zenon DEF SentInv, SentRecords

\* A current typed in as a float is converted to one that fits the field.
LEMMA ConvertedInRange ==
  ASSUME NEW crr, InRange(crr)
  PROVE  Converted(crr) \in 0..MaxOut
<1>1. crr \in 0..200
  BY DEF InRange, PS_MAX_CURRENT
<1>2. (crr * MaxOut) \div 200 \in 0..MaxOut
  BY <1>1, Widths, Abstract!PartOfScale
<1> QED
  BY <1>2 DEF Converted, PS_MAX_CURRENT

WrittenFits(w) == IsWritten(w) /\ w.current \in 0..MaxOut /\ w.on \in BOOLEAN

\* Writing a value that fits keeps what was written in range.
LEMMA WrittenKept ==
  ASSUME NEW w, WrittenFits(w)
  PROVE  /\ \A v \in 0..MaxOut : WrittenFits([w EXCEPT !.current = v])
         /\ \A st \in BOOLEAN : /\ WrittenFits([w EXCEPT !.on = st])
                                /\ WrittenFits([w EXCEPT !.reset = st])
                                /\ WrittenFits([w EXCEPT !.electronicReset = st])
                                /\ WrittenFits([w EXCEPT !.green = st])
                                /\ WrittenFits([w EXCEPT !.red = st])
<1>1. IsWritten(w)
  BY DEF WrittenFits
<1>2. ASSUME NEW v \in 0..MaxOut
      PROVE  WrittenFits([w EXCEPT !.current = v])
  BY <1>1, WrittenFields DEF WrittenFits, Fields
<1>3. ASSUME NEW st \in BOOLEAN
      PROVE  WrittenFits([w EXCEPT !.on = st])
  BY <1>1, WrittenFields DEF WrittenFits, Fields
<1>4. ASSUME NEW f \in Fields \ {"current", "on"}, NEW st
      PROVE  WrittenFits([w EXCEPT ![f] = st])
  <2>1. {"current", "on"} \subseteq Fields \ {f}
    BY DEF Fields
  <2>2. /\ IsWritten([w EXCEPT ![f] = st])
        /\ [w EXCEPT ![f] = st]["current"] = w["current"]
        /\ [w EXCEPT ![f] = st]["on"] = w["on"]
    BY <1>1, <2>1, WrittenFields
  <2> QED
    BY <2>2 DEF WrittenFits
<1>5. ASSUME NEW st
      PROVE  /\ WrittenFits([w EXCEPT !.reset = st])
             /\ WrittenFits([w EXCEPT !.electronicReset = st])
             /\ WrittenFits([w EXCEPT !.green = st])
             /\ WrittenFits([w EXCEPT !.red = st])
  <2>1. {"reset", "electronicReset", "green", "red"} \subseteq Fields \ {"current", "on"}
    BY DEF Fields
  <2> QED
    BY <1>4, <2>1
<1> QED
  BY <1>2, <1>3, <1>5

\* What a turn of the test program writes fits its fields.
LEMMA TestTurnWritten ==
  ASSUME FrameInv, TestTurn
  PROVE  WrittenFits(written')
<1> DEFINE buf == setPowerCircuit(psBufOut, isPowerCircuitOn)
           w   == [written EXCEPT !.on = isPowerCircuitOn]
<1>1. WrittenFits(written)
  BY DEF FrameInv, FrameMatches, Matches, RangeInv, WrittenInv, WrittenFits
<1>2. WrittenFits(w)
  BY <1>1, CircuitRead, WrittenKept DEF FrameInv, RangeInv
<1>3. written' = w \/ TestCommand(buf, w)
  BY DEF TestTurn
<1> HIDE DEF buf, w
<1>4. CASE TestCommand(buf, w)
  <2>1. \/ written' = w
        \/ \E val \in Setpoints : written' = [w EXCEPT !.current = val]
        \/ \E crr \in Amperes : InRange(crr) /\ written' = [w EXCEPT !.current = Converted(crr)]
        \/ \E st \in BOOLEAN : written' \in {[w EXCEPT !.on = st], [w EXCEPT !.reset = st],
                                             [w EXCEPT !.electronicReset = st],
                                             [w EXCEPT !.green = st], [w EXCEPT !.red = st]}
    BY <1>4, Zenon DEF TestCommand
  <2>2. \A val \in Setpoints : val \in 0..MaxOut
    BY SetpointsAssumption
  <2>3. \A val \in 0..MaxOut : WrittenFits([w EXCEPT !.current = val])
    BY <1>2, WrittenKept
  <2>4. \A st \in BOOLEAN : /\ WrittenFits([w EXCEPT !.on = st])
                           /\ WrittenFits([w EXCEPT !.reset = st])
                           /\ WrittenFits([w EXCEPT !.electronicReset = st])
                           /\ WrittenFits([w EXCEPT !.green = st])
                           /\ WrittenFits([w EXCEPT !.red = st])
    BY <1>2, WrittenKept
  <2> QED
    BY <1>2, <2>1, <2>2, <2>3, <2>4, ConvertedInRange, Zenon
<1> QED
  BY <1>2, <1>3, <1>4

\* One more measurement keeps the average within full scale.
LEMMA AverageGrows ==
  ASSUME NEW sum \in Nat, NEW n \in Nat, n < Driver!Exchanges, sum <= n * Abstract!Step,
         NEW m \in 0..MaxIn
  PROVE  /\ sum + m * Scale \in 0..Driver!FullScale
         /\ sum + m * Scale <= (n + 1) * Abstract!Step
         /\ n + 1 \in 0..Driver!Exchanges
<1>1. Abstract!Exchanges = Driver!Exchanges /\ Abstract!FullScale = Driver!FullScale
  BY DEF Abstract!Exchanges, Driver!Exchanges, Abstract!FullScale, Driver!FullScale
<1>2. n < Abstract!Exchanges
  BY <1>1
<1>3. /\ sum + m * Scale \in 0..Abstract!FullScale
      /\ sum + m * Scale <= (n + 1) * Abstract!Step
      /\ n + 1 \in 0..Abstract!Exchanges
  BY <1>2, Widths, Abstract!MeasurementAdds
<1> QED
  BY <1>1, <1>3

\* The average at the head of safeCommunicationWithPS.
LEMMA AverageBegins ==
  ASSUME pc' # "exchange" \/ done' = 0, avrgCurrent' = 0, done' = 0
  PROVE  AverageInv'
<1>1. Abstract!Step \in Nat
  BY Widths, Abstract!ScaleFacts
<1>2. 0 * Abstract!Step = 0
  BY <1>1
<1> QED
  BY <1>1, <1>2, AverageParameters DEF AverageInv

\* The ranges hold in the initial state and every step keeps them.
LEMMA RangeInductive ==
  /\ Init => RangeInv
  /\ FrameInv /\ [Next]_vars => RangeInv'
<1>1. /\ NothingSent \in SentRecords
      /\ ZeroIn = StatusFrame(NothingSent.reading, NothingSent.remote, NothingSent.on)
  <2> DEFINE r == NothingSent.reading
  <2>1. /\ NothingSent = [reading |-> r, remote |-> FALSE, on |-> FALSE]
        /\ r \in ReadingRecords
        /\ r.current = 0 /\ r.voltage = 0 /\ r.colective = FALSE /\ r.external = FALSE
        /\ r.polarisation1 = FALSE /\ r.polarisation2 = FALSE
    BY Widths DEF NothingSent, ReadingRecords
  <2> HIDE DEF r
  <2>2. NothingSent \in SentRecords /\ NothingSent.remote = FALSE /\ NothingSent.on = FALSE
    BY <2>1, Zenon DEF SentRecords
  <2>3. ASSUME NEW p \in InBits
        PROVE  StatusFrame(r, FALSE, FALSE)[p] = FALSE
    <3>1. /\ p \in psCurrentPos..psCurrentPos + psCurrentLen - 1 =>
               ~((0 \div 2^(p - psCurrentPos)) % 2 = 1)
          /\ p \in psVoltagePos..psVoltagePos + psVoltageLen - 1 =>
               ~((0 \div 2^(p - psVoltagePos)) % 2 = 1)
      <4>1. psCurrentLen \in Nat /\ psVoltageLen \in Nat
        BY DEF psCurrentLen, psVoltageLen
      <4>2. /\ p \in psCurrentPos..psCurrentPos + psCurrentLen - 1 =>
                 p - psCurrentPos \in 0..psCurrentLen - 1
            /\ p \in psVoltagePos..psVoltagePos + psVoltageLen - 1 =>
                 p - psVoltagePos \in 0..psVoltageLen - 1
        BY DEF psCurrentPos, psVoltagePos, psCurrentLen, psVoltageLen
      <4> QED
        BY <4>1, <4>2, FieldWeights, ZeroBits, Zenon DEF BitOf
    <3> QED
      BY <2>1, <3>1, Zenon DEF StatusFrame
  <2>4. ZeroIn = StatusFrame(r, FALSE, FALSE)
    <3>1. ZeroIn = [p \in InBits |-> FALSE]
      BY DEF ZeroIn
    <3>2. StatusFrame(r, FALSE, FALSE) = [p \in InBits |-> StatusFrame(r, FALSE, FALSE)[p]]
      BY Zenon DEF StatusFrame
    <3> QED
      BY <2>3, <3>1, <3>2, Zenon
  <2> QED
    BY <2>1, <2>2, <2>4 DEF r
<1>2. NothingWritten.current \in 0..MaxOut /\ NothingWritten.on \in BOOLEAN
  <2>1. NothingWritten.current = 0 /\ NothingWritten.on = FALSE
    BY DEF NothingWritten
  <2>2. 0 \in 0..MaxOut
    BY Widths
  <2> QED
    BY <2>1, <2>2
<1>3. Init => RangeInv
  <2> SUFFICES ASSUME Init PROVE RangeInv
    OBVIOUS
  <2>1. dev \in Driver!Devices
    <3>1. dev \in [set: Setpoints, on: BOOLEAN, remote: BOOLEAN]
      BY DEF Init
    <3>2. Setpoints \subseteq 0..MaxOut
      BY SetpointsAssumption
    <3> QED
      BY <3>1, <3>2 DEF Driver!Devices
  <2>2. WrittenInv
    BY <1>2 DEF Init, WrittenInv
  <2>3. SentInv
    BY <1>1 DEF Init, SentInv
  <2>4. AverageInv
    BY AverageParameters DEF Init, AverageInv, Beginning
  <2> QED
    BY <2>1, <2>2, <2>3, <2>4 DEF RangeInv
<1>4. ASSUME FrameInv, [Next]_vars
      PROVE  RangeInv'
  <2>1. /\ FrameMatches /\ WrittenInv /\ SentInv /\ AverageInv /\ dev \in Driver!Devices
        /\ WrittenFits(written)
    BY <1>4 DEF FrameInv, RangeInv, FrameMatches, Matches, WrittenInv, WrittenFits
  <2>2. CASE Refresh
    <3>1. /\ UNCHANGED <<psBufIn, sent, dev, written>> /\ pc' = "exchange"
          /\ avrgCurrent' = 0 /\ done' = 0
      BY <2>2 DEF Refresh, Calls, Driver!BeginCommunication
    <3> QED
      BY <2>1, <3>1, AverageBegins DEF RangeInv, WrittenInv, SentInv
  <2>3. ASSUME NEW value \in Setpoints, SetStatusIsOn(value)
        PROVE  RangeInv'
    <3>1. /\ written' = [written EXCEPT !.on = (value # 0)]
          /\ UNCHANGED <<psBufIn, sent, dev>> /\ pc' = "exchange"
          /\ avrgCurrent' = 0 /\ done' = 0
      BY <2>3 DEF SetStatusIsOn, Calls, Driver!BeginCommunication
    <3>2. WrittenInv'
      BY <2>1, <3>1, WrittenKept DEF WrittenFits, WrittenInv
    <3> QED
      BY <2>1, <3>1, <3>2, AverageBegins DEF RangeInv, SentInv
  <2>4. ASSUME NEW value \in Setpoints, SetStatusCurrent(value)
        PROVE  RangeInv'
    <3>1. /\ written' = [written EXCEPT !.current = value]
          /\ UNCHANGED <<psBufIn, sent, dev>> /\ pc' = "exchange"
          /\ avrgCurrent' = 0 /\ done' = 0
      BY <2>4 DEF SetStatusCurrent, Calls, Driver!BeginCommunication
    <3>2. WrittenInv'
      BY <2>1, <3>1, WrittenKept, SetpointsAssumption DEF WrittenFits, WrittenInv
    <3> QED
      BY <2>1, <3>1, <3>2, AverageBegins DEF RangeInv, SentInv
  <2>5. CASE TestStarts
    BY <2>1, <2>5, AverageBegins DEF TestStarts, TestCalls, RangeInv, WrittenInv, SentInv
  <2>6. CASE TestTurn
    <3>1. WrittenInv'
      BY <1>4, <2>6, TestTurnWritten DEF WrittenFits, WrittenInv
    <3> QED
      BY <2>1, <2>6, <3>1, AverageBegins DEF TestTurn, TestCalls, RangeInv, SentInv
  <2>7. ASSUME NEW reading \in Readings, Exchange(reading)
        PROVE  RangeInv'
    <3>1. /\ SentInv' /\ dev' \in Driver!Devices
          /\ reading.current \in 0..MaxIn /\ readCurrentRaw(psBufIn') = reading.current
      BY <1>4, <2>7, ExchangeRanges DEF Exchange
    <3>2. /\ pc = "exchange" /\ done' = done + 1 /\ written' = written
          /\ avrgCurrent' = avrgCurrent + reading.current * Scale
          /\ pc' = IF done + 1 = Driver!Exchanges THEN "average" ELSE "exchange"
      BY <2>7, <3>1 DEF Exchange
    <3>3. /\ avrgCurrent \in Nat /\ done \in Nat
          /\ done < Driver!Exchanges /\ avrgCurrent <= done * Abstract!Step
      BY <2>1, <3>2, AverageParameters DEF AverageInv
    <3>4. /\ avrgCurrent + reading.current * Scale \in 0..Driver!FullScale
          /\ avrgCurrent + reading.current * Scale <= (done + 1) * Abstract!Step
          /\ done + 1 \in 0..Driver!Exchanges
      BY <3>1, <3>3, AverageGrows
    <3>5. AverageInv'
      BY <3>2, <3>4, AverageParameters DEF AverageInv
    <3> QED
      BY <2>1, <3>1, <3>2, <3>5 DEF RangeInv, WrittenInv
  <2>8. ASSUME NEW reading \in Readings, SyncExchange(reading)
        PROVE  RangeInv'
    <3>1. SentInv' /\ dev' \in Driver!Devices
      BY <1>4, <2>8, ExchangeRanges DEF SyncExchange
    <3> QED
      BY <2>1, <2>8, <3>1 DEF SyncExchange, RangeInv, WrittenInv, AverageInv
  <2>9. CASE FinishAveraging
    <3> DEFINE level == Driver!SetpointLevel(avrgCurrent')
    <3>1. /\ avrgCurrent' \in Driver!Rounded(avrgCurrent) /\ pc' # "exchange"
          /\ UNCHANGED <<psBufIn, done, dev, sent>>
          /\ \/ written' = written
             \/ written' = [written EXCEPT !.on = isPowerCircuitOn, !.current = level]
      BY <2>9 DEF FinishAveraging
    <3>2. avrgCurrent' \in 0..Driver!FullScale /\ level \in 0..MaxOut
      BY <2>1, <3>1, AverageParameters DEF AverageInv
    <3> HIDE DEF level
    <3>3. WrittenInv'
      <4>1. WrittenFits([written EXCEPT !.on = isPowerCircuitOn])
        BY <2>1, CircuitRead, WrittenKept
      <4>2. WrittenFits([[written EXCEPT !.on = isPowerCircuitOn] EXCEPT !.current = level])
        BY <3>2, <4>1, WrittenKept
      <4>3. WrittenFits(written')
        BY <2>1, <3>1, <4>2
      <4> QED
        BY <4>3 DEF WrittenFits, WrittenInv
    <3> QED
      BY <2>1, <3>1, <3>2, <3>3 DEF RangeInv, SentInv, AverageInv
  <2>10. CASE Reboot
    <3>1. /\ psBufIn' = ZeroIn /\ sent' = NothingSent /\ written' = NothingWritten
          /\ dev' = dev /\ avrgCurrent' = 0 /\ done' = 0
      BY <2>10 DEF Reboot
    <3>2. WrittenInv'
      BY <1>2, <3>1, Zenon DEF WrittenInv
    <3>3. SentInv'
      BY <1>1, <3>1, Zenon DEF SentInv
    <3>4. AverageInv'
      BY <3>1, AverageBegins
    <3> QED
      BY <2>1, <3>1, <3>2, <3>3, <3>4 DEF RangeInv
  <2>11. CASE SupplyStep
    <3>1. UNCHANGED <<psBufIn, sent, written, avrgCurrent, done, pc>>
      BY <2>11 DEF SupplyStep, driverVars
    <3>2. dev' \in Driver!Devices
      BY <2>1, <2>11, SetpointsAssumption
      DEF SupplyStep, Driver!PanelMode, Driver!Trip, Driver!Devices
    <3> QED
      BY <2>1, <3>1, <3>2 DEF RangeInv, WrittenInv, SentInv, AverageInv
  <2>12. CASE UNCHANGED vars
    BY <2>1, <2>12 DEF vars, driverVars, RangeInv, WrittenInv, SentInv, AverageInv
  <2> QED
    BY <1>4, <2>2, <2>3, <2>4, <2>5, <2>6, <2>7, <2>8, <2>9, <2>10, <2>11, <2>12
    DEF Next, Call, Communicate
<1> QED
  BY <1>3, <1>4

\* FrameInv is inductive.
LEMMA AlwaysFrameInv == Spec => []FrameInv
<1>1. Init => FrameInv
  BY MatchInductive, RangeInductive DEF FrameInv
<1>2. FrameInv /\ [Next]_vars => FrameInv'
  BY MatchInductive, RangeInductive DEF FrameInv
<1> QED
  BY <1>1, <1>2, PTL DEF Spec

\* The set current the supply decodes is the one written last, for every value the
\* 16 bits can hold, under the firmware and under the test program.
THEOREM CurrentAsWrittenHolds == Spec => []CurrentAsWritten
<1>1. FrameInv => CurrentAsWritten
  BY FrameDecoded DEF FrameInv, FrameMatches, RangeInv, WrittenInv, CurrentAsWritten
<1> QED
  BY <1>1, AlwaysFrameInv, PTL

\* What the driver reports is what the supply sent last, for every reading.
THEOREM ReportAsSentHolds == Spec => []ReportAsSent
<1>1. FrameInv => ReportAsSent
  <2> SUFFICES ASSUME FrameInv PROVE ReportAsSent
    OBVIOUS
  <2>1. sent \in SentRecords /\ psBufIn = StatusFrame(sent.reading, sent.remote, sent.on)
    BY DEF FrameInv, RangeInv, SentInv
  <2> QED
    BY <2>1, StatusDecoded
    DEF ReportAsSent, readVoltage, readErrors, readPolarity, isRemote, isPowerCircuitOn,
        readCurrentRaw
<1> QED
  BY <1>1, AlwaysFrameInv, PTL
-----------------------------------------------------------------------------
(***************************************************************************)
(* The refinement: under the firmware every step on the bits is the step   *)
(* of PowerSupply200A on what the two frames say.                          *)
(***************************************************************************)

\* setCurrentWrite is SetCurrentWrite of what the frame says.
LEMMA ConfirmViewed ==
  ASSUME NEW buf, NEW w, Matches(buf, w), NEW st \in BOOLEAN
  PROVE  ViewAt(setCurrentWrite(buf, st), w) = Driver!SetCurrentWrite(ViewAt(buf, w), st)
<1> DEFINE first == setBit(buf, 21, st)
<1>1. 21 \in OutBits /\ 23 \in OutBits
  BY DEF OutBits
<1>2. IsOut(first) /\ first[21] = st
  BY <1>1, SetBitValue DEF Matches
<1> HIDE DEF first
<1>3. setBit(first, 23, st)[23] = st /\ setBit(first, 23, st)[21] = first[21]
  BY <1>1, <1>2, SetBitValue
<1>4. setCurrentWrite(buf, st) = setBit(first, 23, st)
  BY DEF setCurrentWrite, first, psOUTConfirmCurrentWrite1Pos, psOUTConfirmCurrentWrite2Pos
<1>5. (setCurrentWrite(buf, st)[21] /\ setCurrentWrite(buf, st)[23]) = st
  BY <1>2, <1>3, <1>4
<1> QED
  BY <1>5 DEF ViewAt, Driver!SetCurrentWrite

\* setPowerCircuit and setCurrent enable writing and write their own field.
LEMMA SettersViewed ==
  ASSUME NEW buf, NEW w, Matches(buf, w)
  PROVE  /\ \A st : ViewAt(setPowerCircuit(buf, st), [w EXCEPT !.on = st])
                     = Driver!SetPowerCircuit(ViewAt(buf, w), st)
         /\ \A val : ViewAt(setCurrent(buf, val), [w EXCEPT !.current = val])
                      = Driver!SetCurrent(ViewAt(buf, w), val)
<1> DEFINE enabled == setCurrentWrite(buf, TRUE)
<1>1. Matches(enabled, w) /\ ViewAt(enabled, w) = Driver!SetCurrentWrite(ViewAt(buf, w), TRUE)
  BY ConfirmMatches, ConfirmViewed
<1>2. IsOut(enabled) /\ IsWritten(w)
  BY <1>1 DEF Matches
<1>3. {17, 21, 23} \subseteq OutBits /\ {21, 23} \subseteq 16..31
  BY DEF OutBits
<1>4. \A st : setPowerCircuit(buf, st) = setBit(enabled, 17, st)
  BY DEF setPowerCircuit, psOUTPowerCircuitPos
<1>5. \A val : setCurrent(buf, val) = setUint(enabled, val, psOUTCurrentPos, psOUTCurrentLen)
  BY DEF setCurrent
<1> HIDE DEF enabled
<1>6. ASSUME NEW st
      PROVE  ViewAt(setPowerCircuit(buf, st), [w EXCEPT !.on = st])
               = Driver!SetPowerCircuit(ViewAt(buf, w), st)
  <2>1. /\ setPowerCircuit(buf, st)[21] = enabled[21]
        /\ setPowerCircuit(buf, st)[23] = enabled[23]
    BY <1>2, <1>3, <1>4, SetBitValue
  <2>2. /\ [w EXCEPT !.on = st].on = st
        /\ [w EXCEPT !.on = st].current = w.current
    BY <1>2, WrittenFields DEF Fields
  <2>3. ViewAt(setPowerCircuit(buf, st), [w EXCEPT !.on = st])
          = [ViewAt(enabled, w) EXCEPT !.on = st]
    BY <2>1, <2>2 DEF ViewAt
  <2> QED
    BY <1>1, <2>3 DEF Driver!SetPowerCircuit
<1>7. ASSUME NEW val
      PROVE  ViewAt(setCurrent(buf, val), [w EXCEPT !.current = val])
               = Driver!SetCurrent(ViewAt(buf, w), val)
  <2>1. AgreeAt(setCurrent(buf, val), enabled, 16..31)
    BY <1>2, <1>5, SetUintOutside
  <2>2. /\ setCurrent(buf, val)[21] = enabled[21]
        /\ setCurrent(buf, val)[23] = enabled[23]
    BY <1>3, <2>1 DEF AgreeAt
  <2>3. /\ [w EXCEPT !.current = val].current = val
        /\ [w EXCEPT !.current = val].on = w.on
    BY <1>2, WrittenFields DEF Fields
  <2>4. ViewAt(setCurrent(buf, val), [w EXCEPT !.current = val])
          = [ViewAt(enabled, w) EXCEPT !.current = val]
    BY <2>2, <2>3 DEF ViewAt
  <2> QED
    BY <1>1, <2>4 DEF Driver!SetCurrent
<1> QED
  BY <1>6, <1>7

\* What the two views say in a state of the inductive invariant.
LEMMA Views ==
  /\ FrameInv => /\ OutView = ViewAt(psBufOut, written) /\ Matches(psBufOut, written)
                 /\ isRemote = sent.remote /\ isPowerCircuitOn = sent.on
                 /\ isRemote \in BOOLEAN /\ isPowerCircuitOn \in BOOLEAN
                 /\ dev \in Driver!Devices
  /\ FrameInv' => /\ OutView' = ViewAt(psBufOut', written')
                  /\ isRemote' = sent'.remote /\ isPowerCircuitOn' = sent'.on
<1>1. \A s \in SentRecords : s.remote \in BOOLEAN /\ s.on \in BOOLEAN
  BY Zenon DEF SentRecords
<1>2. ASSUME NEW s \in SentRecords, NEW buf, buf = StatusFrame(s.reading, s.remote, s.on)
      PROVE  /\ getBit(buf, psStatusRemoteControlPos) = s.remote
             /\ getBit(buf, psStatusPowerCircuitPos) = s.on
  BY <1>2, StatusDecoded
<1>3. SentInv => isRemote = sent.remote /\ isPowerCircuitOn = sent.on
  BY <1>2 DEF SentInv, isRemote, isPowerCircuitOn
<1>4. SentInv' => isRemote' = sent'.remote /\ isPowerCircuitOn' = sent'.on
  BY <1>2 DEF SentInv, isRemote, isPowerCircuitOn
<1>5. FrameInv => /\ FrameMatches /\ WrittenInv /\ SentInv /\ sent \in SentRecords
                  /\ dev \in Driver!Devices
  BY DEF FrameInv, RangeInv, SentInv
<1>6. FrameInv' => FrameMatches' /\ WrittenInv' /\ SentInv'
  BY DEF FrameInv, RangeInv
<1>7. FrameMatches => Matches(psBufOut, written)
  BY DEF FrameMatches
<1> QED
  BY <1>1, <1>3, <1>4, <1>5, <1>6, <1>7, ViewOf

\* A new object looks like a new object of the abstract driver.
LEMMA ConstructedViewed ==
  /\ ViewAt(ZeroOut, NothingWritten) = Driver!ConstructedOut
  /\ [remote |-> NothingSent.remote, on |-> NothingSent.on] = Driver!ConstructedIn
<1>1. ZeroOut[21] = FALSE /\ ZeroOut[23] = FALSE
  BY DEF ZeroOut, OutBits
<1> QED
  BY <1>1 DEF ViewAt, NothingWritten, NothingSent, Driver!ConstructedOut, Driver!ConstructedIn

\* One exchange of the two frames is one exchange of what they say.
LEMMA FramesRefined ==
  ASSUME FrameInv, FrameInv', NEW reading \in Readings, comunicateWithPS(reading),
         written' = written
  PROVE  Driver!ExchangeFrame
<1>1. OutView' = Driver!SetCurrentWrite(OutView, FALSE)
  <2>1. psBufOut' = setCurrentWrite(psBufOut, FALSE)
    BY DEF comunicateWithPS
  <2>2. /\ OutView = ViewAt(psBufOut, written) /\ OutView' = ViewAt(psBufOut', written)
        /\ Matches(psBufOut, written)
    BY Views
  <2>3. ViewAt(setCurrentWrite(psBufOut, FALSE), written)
          = Driver!SetCurrentWrite(ViewAt(psBufOut, written), FALSE)
    BY <2>2, ConfirmViewed
  <2> QED
    BY <2>1, <2>2, <2>3
<1>2. /\ sent'.remote = dev.remote /\ sent'.on = dev.on
      /\ dev' = Driver!AfterFrame /\ owned' = (owned \/ Driver!Accepts)
  BY DEF comunicateWithPS
<1>3. [remote |-> isRemote', on |-> isPowerCircuitOn'] = Driver!Status
  BY <1>2, Views DEF Driver!Status
<1> QED
  BY <1>1, <1>2, <1>3 DEF Driver!ExchangeFrame

\* Every step of the firmware and of the supply is one of the abstract driver.
LEMMA StepRefined ==
  ASSUME FrameInv, FrameInv', program = "firmware", Next
  PROVE  DriverStep
<1>1. /\ OutView = ViewAt(psBufOut, written) /\ OutView' = ViewAt(psBufOut', written')
      /\ Matches(psBufOut, written)
  BY Views
<1>2. CASE Refresh
  <2>1. OutView' = OutView
    BY <1>2 DEF Refresh, OutView
  <2>2. Driver!Refresh
    BY <1>2, <2>1 DEF Refresh, Calls, Driver!Refresh
  <2> QED
    BY <2>2 DEF DriverStep
<1>3. ASSUME NEW value \in Setpoints, SetStatusIsOn(value)
      PROVE  DriverStep
  <2>1. OutView' = Driver!SetPowerCircuit(OutView, value # 0)
    BY <1>1, <1>3, SettersViewed DEF SetStatusIsOn
  <2>2. Driver!SetStatusIsOn(value)
    BY <1>3, <2>1 DEF SetStatusIsOn, Calls, Driver!SetStatusIsOn
  <2> QED
    BY <2>2 DEF DriverStep
<1>4. ASSUME NEW value \in Setpoints, SetStatusCurrent(value)
      PROVE  DriverStep
  <2>1. OutView' = Driver!SetCurrent(OutView, value)
    BY <1>1, <1>4, SettersViewed DEF SetStatusCurrent
  <2>2. Driver!SetStatusCurrent(value)
    BY <1>4, <2>1 DEF SetStatusCurrent, Calls, Driver!SetStatusCurrent
  <2> QED
    BY <2>2 DEF DriverStep
<1>5. ASSUME NEW reading \in Readings, Exchange(reading)
      PROVE  DriverStep
  <2>1. comunicateWithPS(reading) /\ written' = written
    BY <1>5 DEF Exchange
  <2>2. Driver!ExchangeFrame
    BY <2>1, FramesRefined
  <2>3. /\ sent'.reading = reading
        /\ readCurrentRaw(psBufIn') = reading.current
    BY <2>1, ExchangeRanges
  <2>4. Driver!Exchange(sent'.reading.current)
    BY <1>5, <2>2, <2>3 DEF Exchange, Driver!Exchange
  <2> QED
    BY <2>4 DEF DriverStep
<1>6. ASSUME NEW reading \in Readings, SyncExchange(reading)
      PROVE  DriverStep
  <2>1. comunicateWithPS(reading) /\ written' = written
    BY <1>6 DEF SyncExchange
  <2>2. Driver!ExchangeFrame
    BY <2>1, FramesRefined
  <2>3. Driver!SyncExchange
    BY <1>6, <2>2 DEF SyncExchange, Driver!SyncExchange
  <2> QED
    BY <2>3 DEF DriverStep
<1>7. CASE FinishAveraging
  <2> DEFINE level == Driver!SetpointLevel(avrgCurrent')
             mid   == setPowerCircuit(psBufOut, isPowerCircuitOn)
             wmid  == [written EXCEPT !.on = isPowerCircuitOn]
  <2>1. /\ isRemote' = isRemote /\ isPowerCircuitOn' = isPowerCircuitOn
        /\ pc = "average" /\ avrgCurrent' \in Driver!Rounded(avrgCurrent)
        /\ UNCHANGED <<currentSet, done, dev, touched, owned, asked>>
        /\ isRemote => pc' = "idle" /\ UNCHANGED <<psBufOut, copied>>
        /\ ~isRemote => pc' = "sync" /\ copied' = TRUE
    BY <1>7 DEF FinishAveraging, isRemote, isPowerCircuitOn
  <2>2. ASSUME isRemote
        PROVE  OutView' = OutView
    BY <2>1, <2>2 DEF OutView
  <2>3. ASSUME ~isRemote
        PROVE  OutView' = Driver!SetCurrent(Driver!SetPowerCircuit(OutView, isPowerCircuitOn),
                                            level)
    <3>1. psBufOut' = setCurrent(mid, level) /\ written' = [wmid EXCEPT !.current = level]
      BY <1>7, <2>3 DEF FinishAveraging
    <3>2. Matches(mid, wmid)
      BY <1>1, BitMatches
    <3>3. ViewAt(mid, wmid) = Driver!SetPowerCircuit(ViewAt(psBufOut, written), isPowerCircuitOn)
      BY <1>1, SettersViewed
    <3> HIDE DEF mid, wmid, level
    <3> QED
      BY <1>1, <3>1, <3>2, <3>3, SettersViewed
  <2> HIDE DEF level
  <2>4. Driver!FinishAveraging
    BY <2>1, <2>2, <2>3 DEF level, Driver!FinishAveraging, Driver!IsRemote, Driver!IsPowerCircuitOn
  <2> QED
    BY <2>4 DEF DriverStep
<1>8. CASE Reboot
  <2>1. OutView' = Driver!ConstructedOut
    BY <1>1, <1>8, ConstructedViewed DEF Reboot
  <2>2. [remote |-> isRemote', on |-> isPowerCircuitOn'] = Driver!ConstructedIn
    BY <1>8, Views, ConstructedViewed DEF Reboot
  <2>3. Driver!Reboot
    BY <1>8, <2>1, <2>2 DEF Reboot, Beginning, Driver!Reboot
  <2> QED
    BY <2>3 DEF DriverStep
<1>9. CASE SupplyStep
  <2>1. /\ OutView' = OutView /\ isRemote' = isRemote /\ isPowerCircuitOn' = isPowerCircuitOn
        /\ UNCHANGED <<avrgCurrent, currentSet, pc, done>>
    BY <1>9 DEF SupplyStep, driverVars, OutView, isRemote, isPowerCircuitOn
  <2>2. ASSUME NEW set \in Setpoints, NEW on \in BOOLEAN,
               dev' = [dev EXCEPT !.set = set, !.on = on], dev' # dev, ~dev.remote,
               Driver!TouchDevice
        PROVE  Driver!PanelAdjust
    <3>1. dev \in Driver!Devices /\ set \in 0..MaxOut
      BY Views, SetpointsAssumption
    <3>2. dev' \in Driver!Devices /\ dev'.remote = FALSE
      BY <2>2, <3>1 DEF Driver!Devices
    <3> QED
      BY <2>2, <3>2 DEF Driver!PanelAdjust
  <2> QED
    BY <1>9, <2>2 DEF SupplyStep, DriverStep
<1>10. ~TestStarts /\ ~TestTurn
  BY DEF TestStarts, TestTurn, TestCalls
<1> QED
  BY <1>2, <1>3, <1>4, <1>5, <1>6, <1>7, <1>8, <1>9, <1>10 DEF Next, Call, Communicate

\* A new object under the firmware is in an initial state of the abstract driver.
LEMMA InitRefined == Init => (program = "firmware" => Driver!Init)
<1> SUFFICES ASSUME Init, program = "firmware" PROVE Driver!Init
  OBVIOUS
<1>1. FrameInv
  BY MatchInductive, RangeInductive DEF FrameInv
<1>2. OutView = Driver!ConstructedOut
  BY <1>1, Views, ConstructedViewed DEF Init
<1>3. [remote |-> isRemote, on |-> isPowerCircuitOn] = Driver!ConstructedIn
  BY <1>1, Views, ConstructedViewed DEF Init
<1> QED
  BY <1>1, <1>2, <1>3, Views DEF Init, Beginning, Driver!Init

\* The driver with its buffers as bits implements the driver with its frames as
\* records, for the firmware: what PowerSupply200A_proofs shows of the records
\* holds of the bits.
THEOREM ImplementsDriverHolds == Spec => ImplementsDriver
<1>1. FrameInv /\ FrameInv' /\ [Next]_vars => [program = "firmware" => DriverStep]_vars
  BY StepRefined
<1> QED
  BY <1>1, InitRefined, AlwaysFrameInv, PTL DEF Spec, ImplementsDriver

\* The abstract driver the promises are proved of, and the one the model names,
\* are the same.
LEMMA SameInit == Driver!Init => Abstract!Init
BY Zenon DEF Driver!Init, Abstract!Init, Driver!ConstructedOut, Abstract!ConstructedOut,
   Driver!ConstructedIn, Abstract!ConstructedIn, Driver!Devices, Abstract!Devices

LEMMA SameSteps ==
  ASSUME DriverStep, sent'.reading.current \in 0..MaxIn
  PROVE  Abstract!Next
<1>1. ASSUME NEW what
      PROVE  Driver!BeginCommunication(what) <=> Abstract!BeginCommunication(what)
  BY Zenon DEF Driver!BeginCommunication, Abstract!BeginCommunication
<1>2. Driver!ExchangeFrame <=> Abstract!ExchangeFrame
  BY Zenon DEF Driver!ExchangeFrame, Abstract!ExchangeFrame, Driver!Status, Abstract!Status,
     Driver!AfterFrame, Abstract!AfterFrame, Driver!Accepts, Abstract!Accepts,
     Driver!SetCurrentWrite, Abstract!SetCurrentWrite
<1>3. /\ \A st : Driver!SetPowerCircuit(OutView, st) = Abstract!SetPowerCircuit(OutView, st)
      /\ \A v, val : Driver!SetCurrent(v, val) = Abstract!SetCurrent(v, val)
  BY Zenon DEF Driver!SetPowerCircuit, Abstract!SetPowerCircuit, Driver!SetCurrent,
     Abstract!SetCurrent, Driver!SetCurrentWrite, Abstract!SetCurrentWrite
<1>4. /\ Driver!Exchanges = Abstract!Exchanges
      /\ \A a : Driver!Rounded(a) = Abstract!Rounded(a)
      /\ \A a : Driver!SetpointLevel(a) = Abstract!SetpointLevel(a)
  BY Zenon DEF Driver!Exchanges, Abstract!Exchanges, Driver!Rounded, Abstract!Rounded,
     Driver!SetpointLevel, Abstract!SetpointLevel, Driver!FullScale, Abstract!FullScale
<1>5. Driver!TouchDevice <=> Abstract!TouchDevice
  BY Zenon DEF Driver!TouchDevice, Abstract!TouchDevice, Driver!driverVars, Abstract!driverVars
<1>6. CASE Driver!Refresh
  BY <1>1, <1>6 DEF Driver!Refresh, Abstract!Refresh, Abstract!Next, Abstract!Call
<1>7. ASSUME NEW value \in Setpoints, Driver!SetStatusIsOn(value)
      PROVE  Abstract!Next
  <2>1. Abstract!SetStatusIsOn(value)
    BY <1>1, <1>3, <1>7 DEF Driver!SetStatusIsOn, Abstract!SetStatusIsOn
  <2>2. value \in 0..MaxOut
    BY SetpointsAssumption
  <2> QED
    BY <2>1, <2>2 DEF Abstract!Next, Abstract!Call
<1>8. ASSUME NEW value \in Setpoints, Driver!SetStatusCurrent(value)
      PROVE  Abstract!Next
  <2>1. Abstract!SetStatusCurrent(value)
    BY <1>1, <1>3, <1>8 DEF Driver!SetStatusCurrent, Abstract!SetStatusCurrent
  <2>2. value \in 0..MaxOut
    BY SetpointsAssumption
  <2> QED
    BY <2>1, <2>2 DEF Abstract!Next, Abstract!Call
<1>9. CASE Driver!Exchange(sent'.reading.current)
  <2>1. Abstract!Exchange(sent'.reading.current)
    BY <1>2, <1>4, <1>9 DEF Driver!Exchange, Abstract!Exchange
  <2> QED
    BY <2>1 DEF Abstract!Next, Abstract!Communicate
<1>10. CASE Driver!FinishAveraging
  <2>1. Abstract!FinishAveraging
    BY <1>3, <1>4, <1>10 DEF Driver!FinishAveraging, Abstract!FinishAveraging, Driver!IsRemote,
       Abstract!IsRemote, Driver!IsPowerCircuitOn, Abstract!IsPowerCircuitOn
  <2> QED
    BY <2>1 DEF Abstract!Next, Abstract!Communicate
<1>11. CASE Driver!SyncExchange
  BY <1>2, <1>11 DEF Driver!SyncExchange, Abstract!SyncExchange, Abstract!Next,
     Abstract!Communicate
<1>12. CASE Driver!PanelMode \/ Driver!PanelAdjust \/ Driver!Trip
  <2>1. Abstract!Supply
    BY <1>5, <1>12, Zenon DEF Driver!PanelMode, Abstract!PanelMode, Driver!PanelAdjust,
       Abstract!PanelAdjust, Driver!Trip, Abstract!Trip, Driver!Devices, Abstract!Devices,
       Abstract!Supply
  <2> QED
    BY <2>1 DEF Abstract!Next
<1>13. CASE Driver!Reboot
  <2>1. Abstract!Reboot
    BY <1>13, Zenon DEF Driver!Reboot, Abstract!Reboot, Driver!ConstructedOut,
       Abstract!ConstructedOut, Driver!ConstructedIn, Abstract!ConstructedIn
  <2> QED
    BY <2>1 DEF Abstract!Next
<1> QED
  BY <1>6, <1>7, <1>8, <1>9, <1>10, <1>11, <1>12, <1>13 DEF DriverStep

\* A stuttering step of the bits is one of the abstract driver.
LEMMA SameStutter == UNCHANGED vars => UNCHANGED Abstract!vars
BY DEF vars, driverVars, OutView, isRemote, isPowerCircuitOn, Abstract!vars,
       Abstract!driverVars, Abstract!historyVars

\* A reading that came with a frame fits the width of its field.
LEMMA ReadingFits == FrameInv' => sent'.reading.current \in 0..MaxIn
<1>1. \A s \in SentRecords : s.reading.current \in 0..MaxIn
  BY Zenon DEF SentRecords, ReadingRecords
<1> QED
  BY <1>1 DEF FrameInv, RangeInv, SentInv

\* What the driver promises of the frames as records (PowerSupply200A) is kept on
\* the wire by the firmware: the bits the supply decodes agree with the supply
\* after a write was accepted, a write has taken effect when its call returns,
\* and what is reported then is the state after it.
FirmwarePromises ==
  program = "firmware" => /\ Driver!WriteEnabledOnce /\ Driver!OwnedAgrees
                          /\ Driver!ReportFresh /\ Driver!LocalTracks
                          /\ Driver!WriteTakesEffect /\ Driver!SetCurrentReported

\* The abstract driver that the bits of the firmware show is in a safe state.
SafeInv == program = "firmware" => Abstract!SafetyInv

LEMMA SafeInductive ==
  /\ Init => SafeInv
  /\ SafeInv /\ FrameInv /\ FrameInv' /\ [Next]_vars => SafeInv'
<1>1. Init => SafeInv
  <2>1. Init /\ program = "firmware" => Driver!Init
    BY InitRefined
  <2> QED
    BY <2>1, SameInit, Widths, Abstract!SafetyInductive DEF SafeInv
<1>2. SafeInv /\ FrameInv /\ FrameInv' /\ [Next]_vars => SafeInv'
  <2> SUFFICES ASSUME SafeInv, FrameInv, FrameInv', [Next]_vars, program' = "firmware"
               PROVE  Abstract!SafetyInv'
    BY DEF SafeInv
  <2>1. program = "firmware"
    BY DEF Next, Call, Refresh, SetStatusIsOn, SetStatusCurrent, Calls, TestStarts, TestTurn,
       TestCalls, Communicate, Exchange, FinishAveraging, SyncExchange, Reboot, SupplyStep,
       vars
  <2>2. CASE Next
    BY <2>1, <2>2, StepRefined, SameSteps, ReadingFits, Widths, Abstract!SafetyInductive
    DEF SafeInv
  <2>3. CASE UNCHANGED vars
    BY <2>1, <2>3, SameStutter, Widths, Abstract!SafetyInductive DEF SafeInv
  <2> QED
    BY <2>2, <2>3
<1> QED
  BY <1>1, <1>2

THEOREM FirmwarePromisesHold == Spec => []FirmwarePromises
<1>3. SafeInv => FirmwarePromises
  <2>1. Abstract!SafetyInv =>
          /\ Abstract!WriteEnabledOnce /\ Abstract!OwnedAgrees /\ Abstract!ReportFresh
          /\ Abstract!LocalTracks /\ Abstract!WriteTakesEffect /\ Abstract!SetCurrentReported
    BY Widths, Abstract!SafetyGives
  <2>2. /\ Abstract!WriteEnabledOnce => Driver!WriteEnabledOnce
        /\ Abstract!OwnedAgrees => Driver!OwnedAgrees
        /\ Abstract!WriteTakesEffect => Driver!WriteTakesEffect
    BY Zenon DEF Abstract!WriteEnabledOnce, Driver!WriteEnabledOnce, Abstract!OwnedAgrees,
       Driver!OwnedAgrees, Abstract!WriteTakesEffect, Driver!WriteTakesEffect
  <2>3. /\ Driver!SetpointLevel(avrgCurrent) = Abstract!SetpointLevel(avrgCurrent)
        /\ Driver!GetLastSetCurrent = Abstract!GetLastSetCurrent
    BY Zenon DEF Driver!GetLastSetCurrent, Abstract!GetLastSetCurrent, Driver!IsRemote,
       Abstract!IsRemote, Driver!SetpointLevel, Abstract!SetpointLevel, Driver!FullScale,
       Abstract!FullScale, Driver!Exchanges, Abstract!Exchanges
  <2>4. /\ Abstract!ReportFresh => Driver!ReportFresh
        /\ Abstract!LocalTracks => Driver!LocalTracks
        /\ Abstract!SetCurrentReported => Driver!SetCurrentReported
    BY <2>3, Zenon DEF Abstract!ReportFresh, Driver!ReportFresh, Abstract!LocalTracks,
       Driver!LocalTracks, Abstract!SetCurrentReported, Driver!SetCurrentReported,
       Abstract!IsRemote, Driver!IsRemote, Abstract!IsPowerCircuitOn, Driver!IsPowerCircuitOn
  <2> QED
    BY <2>1, <2>2, <2>4 DEF FirmwarePromises, SafeInv
<1> QED
  BY <1>3, SafeInductive, AlwaysFrameInv, PTL DEF Spec

\* The first frame of a write, and nothing else the firmware does, changes a supply
\* that nobody touches, and only as was asked.
THEOREM FirmwareWritesOnlyHolds == Spec => FirmwareWritesOnly
<1> DEFINE A == program = "firmware" /\ ~touched' /\ dev' # dev =>
                  /\ pc = "exchange" /\ done = 0 /\ asked # "none"
                  /\ owned /\ asked = "current" => dev' = [dev EXCEPT !.set = currentSet]
                  /\ owned /\ asked # "current" => dev' = [dev EXCEPT !.on = (asked = "on")]
<1>1. SafeInv /\ FrameInv /\ FrameInv' /\ [Next]_vars => [A]_vars
  <2> SUFFICES ASSUME SafeInv, FrameInv, FrameInv', Next, program = "firmware",
                      ~touched', dev' # dev
               PROVE  A
    OBVIOUS
  <2>1. Abstract!Next /\ Abstract!SafetyInv
    BY StepRefined, SameSteps, ReadingFits DEF SafeInv
  <2> QED
    BY <2>1, Widths, Abstract!SafeChange
<1>2. Spec => [][A]_vars
  BY <1>1, SafeInductive, AlwaysFrameInv, PTL DEF Spec
<1> QED
  BY <1>2 DEF FirmwareWritesOnly
=============================================================================

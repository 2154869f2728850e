--------------------------- MODULE NmbsServer_proofs ---------------------------
(***************************************************************************)
(* Proofs about the Modbus server, for every checksum, every set of frames *)
(* on the bus and every callback.                                          *)
(***************************************************************************)
EXTENDS NmbsTraffic, SequenceTheorems, TLAPS

\* The buffer is empty where a request begins; while one is read, its first byte is in the buffer, and msg.ignored says
\* whether that byte names another unit; a callback never sees an ignored request.
\* Where a length is read from the buffer, there is one.
Addressed ==
  /\ phase \in Phases
  /\ line \in Seq(Byte)
  /\ buf \in Seq(Byte)
  /\ phase = "unit" => buf = <<>>
  /\ phase \in InRequest => buf # <<>> /\ ignored = ~ForUs(buf)
  /\ phase = "resData" => buf # <<>>
  /\ phase = "callback" => buf # <<>> /\ ForUs(buf)

\* The histories are sequences.
IsSequence(s) == \E S : s \in Seq(S)

ServedInv ==
  /\ Addressed
  /\ IsSequence(ran)
  /\ IsSequence(replies)
  /\ ServedForUs

\* The server with callbacks that may answer anything: what the server keeps
\* does not depend on Results and Registers, and holds whoever answers.
AnyAnswer == phase = "callback" /\ \E code, regs : Answer(code, regs)
AnyNext   == ServerStep \/ AnyAnswer \/ Bus \/ Restart

LEMMA NextIsAny == [Next]_vars => [AnyNext]_vars
BY Zenon DEF Next, AnyNext, AnyAnswer, Callback
-----------------------------------------------------------------------------
\* A sequence that got one more element has the old ones and that one.
LEMMA OneMore ==
  ASSUME NEW s, IsSequence(s), NEW x
  PROVE  /\ IsSequence(Append(s, x))
         /\ \A i \in DOMAIN Append(s, x) :
              (i \in DOMAIN s /\ Append(s, x)[i] = s[i]) \/ Append(s, x)[i] = x
<1>1. PICK S : s \in Seq(S)
  BY DEF IsSequence
<1>2. s \in Seq(S \cup {x})
  BY <1>1
<1>3. Append(s, x) \in Seq(S \cup {x})
  BY <1>2
<1> QED
  BY <1>2, <1>3 DEF IsSequence

\* What is left when a byte is lost or altered is bytes again.
LEMMA DisturbedBytes ==
  ASSUME NEW s \in Seq(Byte), NEW i \in 1..Len(s), NEW b \in Byte
  PROVE  RemoveAt(s, i) \in Seq(Byte) /\ ReplaceAt(s, i, b) \in Seq(Byte)
BY DEF RemoveAt, ReplaceAt

\* The unit of a message does not change as the message grows.
LEMMA SameUnit ==
  ASSUME NEW s \in Seq(Byte), s # <<>>, NEW t \in Seq(Byte)
  PROVE  /\ s \o t \in Seq(Byte)
         /\ s \o t # <<>>
         /\ ForUs(s \o t) = ForUs(s)
BY DEF ForUs, Unit

\* A message that got a byte has one.
LEMMA NotEmptied ==
  ASSUME NEW s \in Seq(Byte), NEW t \in Seq(Byte), Len(t) = 1
  PROVE  s \o t # <<>>
<1>1. t # <<>>
  BY EmptySeq
<1> QED
  BY <1>1, ConcatEqualIffEmpty

\* readUart is asked for a number of bytes.
LEMMA NeedIsNat ==
  ASSUME Addressed, Reading
  PROVE  Need \in Nat
<1>0. buf \in Seq(Byte) /\ phase \in Phases /\ (phase \in {"data", "resData"} => buf # <<>>)
  BY DEF Addressed, InRequest
<1>1. ASSUME buf # <<>>
      PROVE  buf[Len(buf)] \in Nat
  <2>1. Len(buf) \in 1..Len(buf)
    BY <1>0, <1>1, EmptySeq
  <2>2. buf[Len(buf)] \in Byte
    BY <1>0, <2>1, ElementOfSeq
  <2>3. Byte \subseteq Nat
    BY DEF Byte
  <2> QED
    BY <2>2, <2>3
<1>2. FixedLen(Fc(buf)) \in Nat
  BY DEF FixedLen
<1> QED
  BY <1>0, <1>1, <1>2, BufAssumption DEF Need, Reading, Phases

\* What readUart gets is bytes, as many as it was asked for, and so is the rest.
LEMMA ReceivedBytes ==
  ASSUME Addressed, Reading, Receive
  PROVE  /\ Received \in Seq(Byte)
         /\ Len(Received) = Need
         /\ line' \in Seq(Byte)
         /\ buf \o Received \in Seq(Byte)
<1>1. Need \in Nat /\ Need <= Len(line) /\ line \in Seq(Byte) /\ buf \in Seq(Byte)
  BY NeedIsNat DEF Receive, Addressed
<1>2. SubSeq(line, 1, Need) \in Seq(Byte) /\ Len(SubSeq(line, 1, Need)) = Need
  BY <1>1
<1>3. SubSeq(line, Need + 1, Len(line)) \in Seq(Byte)
  BY <1>1
<1> QED
  BY <1>1, <1>2, <1>3 DEF Received, Receive
-----------------------------------------------------------------------------
\* A piece that is read into the buffer leaves the unit in it as it was.
LEMMA Grown ==
  ASSUME Addressed, Reading, Receive, buf' = buf \o Received
  PROVE  /\ line' \in Seq(Byte)
         /\ buf' \in Seq(Byte)
         /\ buf # <<>> => buf' # <<>> /\ ForUs(buf') = ForUs(buf)
         /\ buf \o Received = buf'
<1>1. buf \in Seq(Byte) /\ Received \in Seq(Byte)
  BY ReceivedBytes DEF Addressed
<1> QED
  BY <1>1, ReceivedBytes, SameUnit

\* Nor does a register that is left out at its end.
LEMMA WholeRegistersSameUnit ==
  ASSUME NEW s \in Seq(Byte)
  PROVE  /\ WholeRegisters(s) \in Seq(Byte)
         /\ s # <<>> => WholeRegisters(s) # <<>> /\ ForUs(WholeRegisters(s)) = ForUs(s)
<1>1. CASE Len(s) % 2 = 0 /\ s # <<>>
  <2>1. Len(s) \in Nat /\ Len(s) >= 2
    BY <1>1, EmptySeq
  <2>2. WholeRegisters(s) = SubSeq(s, 1, Len(s) - 1)
    BY <1>1 DEF WholeRegisters
  <2>3. /\ WholeRegisters(s) \in Seq(Byte)
        /\ Len(WholeRegisters(s)) = Len(s) - 1
        /\ WholeRegisters(s)[1] = s[1]
    BY <2>1, <2>2
  <2>4. WholeRegisters(s) # <<>>
    BY <2>1, <2>3, EmptySeq
  <2> QED
    BY <2>3, <2>4 DEF ForUs, Unit
<1>2. CASE Len(s) % 2 # 0
  BY <1>2 DEF WholeRegisters
<1>3. CASE s = <<>>
  <2>1. WholeRegisters(s) = SubSeq(s, 1, -1)
    BY <1>3, EmptySeq DEF WholeRegisters
  <2> QED
    BY <1>3, <2>1
<1> QED
  BY <1>1, <1>2, <1>3

\* The place where the response of a file function ends is a number.
LEMMA FileResponseNat ==
  ASSUME NEW s \in Seq(Byte)
  PROVE  FileResponseLen(s) \in Nat
<1>1. \A i \in 1..Len(s) : s[i] \in Nat
  <2>1. Byte \subseteq Nat
    BY DEF Byte
  <2> QED
    BY <2>1, ElementOfSeq
<1>2. Len(s) \in Nat
  OBVIOUS
<1>3. CASE Fc(s) = 20 /\ Len(s) >= 5
  BY <1>1, <1>2, <1>3 DEF FileResponseLen
<1>4. CASE Fc(s) = 21 /\ Len(s) >= 10
  <2>1. Word(s, 9) \in Nat
    BY <1>1, <1>2, <1>4 DEF Word
  <2>2. (2 * Word(s, 9)) % 65536 \in Nat
    BY <2>1
  <2> QED
    BY <1>4, <2>2 DEF FileResponseLen
<1>5. CASE ~(Fc(s) = 20 /\ Len(s) >= 5) /\ ~(Fc(s) = 21 /\ Len(s) >= 10)
  BY <1>2, <1>5 DEF FileResponseLen
<1> QED
  BY <1>3, <1>4, <1>5

\* What comes before that place are bytes still.
LEMMA FileResponseBytes ==
  ASSUME NEW s \in Seq(Byte), FileResponseLen(s) < Len(s)
  PROVE  SubSeq(s, 1, FileResponseLen(s)) \in Seq(Byte)
BY FileResponseNat

\* Serving one more request for this unit, or none, keeps the histories right.
LEMMA MoreServed ==
  ASSUME IsSequence(ran), IsSequence(replies), ServedForUs,
         \/ ran' = ran
         \/ \E msg : ForUs(msg) /\ ran' = Append(ran, msg),
         \/ replies' = replies
         \/ \E msg, response : ForUs(msg) /\ replies' = Reply(msg, response)
  PROVE  IsSequence(ran') /\ IsSequence(replies') /\ ServedForUs'
<1>1. IsSequence(ran') /\ \A i \in DOMAIN ran' : ForUs(ran'[i])
  <2>1. CASE ran' = ran
    BY <2>1 DEF ServedForUs
  <2>2. CASE \E msg : ForUs(msg) /\ ran' = Append(ran, msg)
    <3>1. PICK msg : ForUs(msg) /\ ran' = Append(ran, msg)
      BY <2>2
    <3> QED
      BY <3>1, OneMore DEF ServedForUs
  <2> QED
    BY <2>1, <2>2
<1>2. IsSequence(replies') /\ \A i \in DOMAIN replies' : ForUs(replies'[i].to)
  <2>1. CASE replies' = replies
    BY <2>1 DEF ServedForUs
  <2>2. CASE \E msg, response : ForUs(msg) /\ replies' = Reply(msg, response)
    <3>1. PICK msg, response : ForUs(msg) /\ replies' = Reply(msg, response)
      BY <2>2
    <3> DEFINE one == [to |-> msg, bytes |-> response]
    <3>2. replies' = Append(replies, one) /\ one.to = msg
      BY <3>1 DEF Reply
    <3>3. IsSequence(replies') /\ \A i \in DOMAIN replies' :
            (i \in DOMAIN replies /\ replies'[i] = replies[i]) \/ replies'[i] = one
      BY <3>2, OneMore
    <3> QED
      BY <3>1, <3>2, <3>3 DEF ServedForUs
  <2> QED
    BY <2>1, <2>2
<1> QED
  BY <1>1, <1>2 DEF ServedForUs
\* Without a request served there is nothing wrong with the histories.
LEMMA NothingServed ==
  ASSUME ran' = <<>>, replies' = <<>>
  PROVE  IsSequence(ran') /\ IsSequence(replies') /\ ServedForUs'
<1>1. <<>> \in Seq(Byte) /\ DOMAIN (<<>>) = {}
  BY EmptySeq
<1> QED
  BY <1>1 DEF IsSequence, ServedForUs
-----------------------------------------------------------------------------
\* The steps that read a piece of a request.
LEMMA RequestKeepsServed ==
  ASSUME ServedInv, RecvUnit \/ RecvFc \/ RecvBody \/ RecvFooter
  PROVE  ServedInv'
<1> USE DEF ServedInv
<1>1. phase \in {"unit", "fc", "fixed", "data", "footer"} /\ Reading /\ Receive
  BY DEF RecvUnit, RecvFc, RecvBody, RecvFooter, RecvFooterBad, RecvFooterIgnored,
         RecvFooterRefused, RecvFooterAccepted, Reading
<1>2. /\ line' \in Seq(Byte)
      /\ phase # "unit" => buf # <<>> /\ ignored = ~ForUs(buf)
      /\ buf \in Seq(Byte)
  BY <1>1, ReceivedBytes DEF Addressed, InRequest
<1>3. CASE RecvUnit
  <2>1. buf = <<>> /\ Need = 1
    BY <1>3 DEF RecvUnit, Addressed, Need
  <2>2. Received \in Seq(Byte) /\ Len(Received) = 1
    BY <1>1, <2>1, ReceivedBytes
  <2>3. buf' = Received /\ buf' \in Seq(Byte) /\ buf' # <<>>
    BY <1>3, <2>1, <2>2, ConcatEmptySeq, EmptySeq DEF RecvUnit
  <2>4. ignored' = ~ForUs(buf')
    BY <1>3, <2>3 DEF RecvUnit, ForUs
  <2>5. phase' = "fc" /\ ran' = ran /\ replies' = replies
    BY <1>3 DEF RecvUnit
  <2>6. Addressed'
    BY <1>2, <2>3, <2>4, <2>5 DEF Addressed, Phases
  <2> QED
    BY <2>5, <2>6, MoreServed
<1>4. CASE RecvFc \/ RecvBody
  <2>1. /\ buf' = buf \o Received \/ buf' = WholeRegisters(buf \o Received)
        /\ ignored' = ignored /\ ran' = ran /\ replies' = replies
    BY <1>4 DEF RecvFc, RecvBody, NothingRead
  <2>2. phase' \in {"fixed", "data", "footer", "returned"} /\ phase # "unit"
    BY <1>4 DEF RecvFc, RecvBody, Return
  <2>3. /\ buf \o Received \in Seq(Byte) /\ buf \o Received # <<>>
        /\ ForUs(buf \o Received) = ForUs(buf)
    BY <1>1, <1>2, <2>2, ReceivedBytes, SameUnit
  <2>5. buf' \in Seq(Byte) /\ buf' # <<>> /\ ignored' = ~ForUs(buf')
    BY <1>2, <2>1, <2>2, <2>3, WholeRegistersSameUnit
  <2>6. Addressed'
    BY <1>2, <2>2, <2>5 DEF Addressed, Phases
  <2> QED
    BY <2>1, <2>6, MoreServed
<1>5. CASE RecvFooterBad
  <2>1. /\ buf' = buf \o Received /\ ran' = ran /\ replies' = replies
        /\ phase' \in {"flush", "returned"}
    BY <1>5 DEF RecvFooterBad, Fail, Return, NothingRead
  <2>2. Addressed'
    BY <1>1, <1>2, <2>1, Grown DEF Addressed, Phases, InRequest
  <2> QED
    BY <2>1, <2>2, MoreServed
<1>6. CASE RecvFooterIgnored
  <2>1. buf' = <<>> /\ ran' = ran /\ replies' = replies /\ phase' = "resUnit"
    BY <1>6 DEF RecvFooterIgnored
  <2>2. Addressed'
    BY <1>2, <2>1, EmptySeq DEF Addressed, Phases, InRequest
  <2> QED
    BY <2>1, <2>2, MoreServed
<1>7. CASE RecvFooterRefused
  <2>1. /\ buf' = buf \o Received /\ ran' = ran /\ phase' = "returned" /\ ~ignored
        /\ phase # "unit"
    BY <1>7 DEF RecvFooterRefused, Return
  <2>2. buf' \in Seq(Byte) /\ ForUs(buf')
    BY <1>1, <1>2, <2>1, Grown
  <2>3. \E response : replies' = Reply(buf', response)
    BY <1>7, <2>1 DEF RecvFooterRefused
  <2>4. Addressed'
    BY <1>2, <2>1, <2>2 DEF Addressed, Phases, InRequest
  <2> QED
    BY <2>1, <2>2, <2>3, <2>4, MoreServed
<1>8. CASE RecvFooterAccepted
  <2>1. /\ buf' = buf \o Received /\ ran' = Append(ran, buf \o Received)
        /\ replies' = replies /\ phase' = "callback" /\ ~ignored /\ phase # "unit"
    BY <1>8 DEF RecvFooterAccepted
  <2>2. buf' \in Seq(Byte) /\ buf' # <<>> /\ ForUs(buf')
    BY <1>1, <1>2, <2>1, Grown
  <2>3. ran' = Append(ran, buf')
    BY <2>1
  <2>4. Addressed'
    BY <1>2, <2>1, <2>2 DEF Addressed, Phases, InRequest
  <2> QED
    BY <2>1, <2>2, <2>3, <2>4, MoreServed
<1> QED
  BY <1>3, <1>4, <1>5, <1>6, <1>7, <1>8 DEF RecvFooter

\* The steps that read the response of another unit, and the flush.
LEMMA ResponseKeepsServed ==
  ASSUME ServedInv, RecvResUnit \/ RecvResFc \/ RecvResBody \/ RecvResFooter \/ FlushFull
  PROVE  ServedInv'
<1> USE DEF ServedInv
<1>1. Reading /\ Receive /\ ran' = ran /\ replies' = replies
  BY DEF RecvResUnit, RecvResFc, RecvResBody, RecvResFooter, FlushFull, NothingRead, Reading
<1>2. line' \in Seq(Byte) /\ buf \o Received \in Seq(Byte) /\ buf \in Seq(Byte)
  BY <1>1, ReceivedBytes DEF Addressed
<1>3. CASE FlushFull
  <2>1. phase' = "returned" /\ buf' = buf
    BY <1>3 DEF FlushFull, Return
  <2>2. Addressed'
    BY <1>2, <2>1 DEF Addressed, Phases, InRequest
  <2> QED
    BY <1>1, <2>2, MoreServed
<1>4. CASE RecvResUnit \/ RecvResFc \/ RecvResBody \/ RecvResFooter
  <2> DEFINE msg == buf \o Received
  <2>1. /\ \/ buf' = msg
           \/ buf' = WholeRegisters(msg)
           \/ phase = "resData" /\ FileResponseLen(msg) < Len(msg)
              /\ buf' = SubSeq(msg, 1, FileResponseLen(msg))
        /\ phase' \in {"resFc", "resCount", "resFixed", "resException", "resData",
                      "resFooter", "returned"}
    BY <1>4 DEF RecvResUnit, RecvResFc, RecvResBody, RecvResFooter, Return
  <2>2. phase' = "resData" => buf' # <<>>
    <3>1. SUFFICES ASSUME phase' = "resData" PROVE buf' # <<>>
      OBVIOUS
    <3>2. phase = "resCount"
      BY <1>4, <3>1 DEF RecvResUnit, RecvResFc, RecvResBody, RecvResFooter, Return
    <3>3. Received \in Seq(Byte) /\ Len(Received) = 1
      BY <1>1, <3>2, ReceivedBytes DEF Need
    <3>4. buf \o Received # <<>>
      BY <1>2, <3>3, NotEmptied
    <3> QED
      BY <1>2, <2>1, <3>2, <3>4, WholeRegistersSameUnit
  <2>3. buf' \in Seq(Byte)
    BY <1>2, <2>1, WholeRegistersSameUnit, FileResponseBytes
  <2>4. Addressed'
    BY <1>2, <2>1, <2>2, <2>3 DEF Addressed, Phases, InRequest
  <2> QED
    BY <1>1, <2>4, MoreServed
<1> QED
  BY <1>3, <1>4

\* The steps that read nothing.
LEMMA OtherStepsKeepServed ==
  ASSUME ServedInv, Poll \/ Timeout \/ AnyAnswer \/ Bus \/ Restart \/ UNCHANGED vars
  PROVE  ServedInv'
<1> USE DEF ServedInv
<1>1. line \in Seq(Byte) /\ buf \in Seq(Byte) /\ <<>> \in Seq(Byte)
  BY EmptySeq DEF Addressed
<1>2. CASE Poll
  <2>1. /\ phase' = "unit" /\ buf' = <<>> /\ line' = line
        /\ ran' = ran /\ replies' = replies
    BY <1>2 DEF Poll
  <2>2. Addressed'
    BY <1>1, <2>1 DEF Addressed, Phases, InRequest
  <2> QED
    BY <2>1, <2>2, MoreServed
<1>3. CASE Timeout
  <2>1. /\ phase' = "returned" /\ buf' = buf /\ line' = <<>>
        /\ ran' = ran /\ replies' = replies
    BY <1>3 DEF Timeout, GiveUp, Return
  <2>2. Addressed'
    BY <1>1, <2>1 DEF Addressed, Phases, InRequest
  <2> QED
    BY <2>1, <2>2, MoreServed
<1>4. CASE AnyAnswer
  <2>1. phase = "callback" /\ ForUs(buf)
    BY <1>4 DEF AnyAnswer, Addressed
  <2>2. PICK code, regs : Answer(code, regs)
    BY <1>4 DEF AnyAnswer
  <2>3. phase' = "returned" /\ buf' = buf /\ line' = line /\ ran' = ran
    BY <2>2 DEF Answer, Return
  <2>4. replies' = replies \/ \E response : replies' = Reply(buf, response)
    BY <2>2 DEF Answer
  <2>5. Addressed'
    BY <1>1, <2>3 DEF Addressed, Phases, InRequest
  <2> QED
    BY <2>1, <2>3, <2>4, <2>5, MoreServed
<1>5. CASE Bus /\ ~StartAnew
  <2>1. /\ phase' = phase /\ buf' = buf /\ ignored' = ignored
        /\ ran' = ran /\ replies' = replies
    BY <1>5 DEF Bus, Send, Disturb, Overflow, Fault, serverVars
  <2>2. line' \in Seq(Byte)
    <3>1. CASE \E frame \in Frames : Send(frame)
      BY <1>1, <3>1, FramesAssumption, ConcatProperties DEF Send
    <3>2. CASE Disturb
      <4>1. PICK i \in 1..Len(line) :
              line' \in {RemoveAt(line, i)}
                        \cup {ReplaceAt(line, i, b) : b \in Noise \ {line[i]}}
        BY <3>2 DEF Disturb
      <4>2. line' = RemoveAt(line, i) \/ \E b \in Byte : line' = ReplaceAt(line, i, b)
        BY <4>1, FramesAssumption
      <4> QED
        BY <1>1, <4>2, DisturbedBytes
    <3>3. CASE Overflow
      <4>1. PICK next \in FifoLen + 2..Len(line) + 1 :
              line' = SubSeq(line, 1, FifoLen) \o SubSeq(line, next, Len(line))
        BY <3>3 DEF Overflow
      <4>2. FifoLen \in Nat /\ FifoLen < Len(line) /\ Len(line) \in Nat /\ next \in 1..Len(line) + 1
        BY <1>1, <4>1, BufAssumption
      <4>3. SubSeq(line, 1, FifoLen) \in Seq(Byte) /\ SubSeq(line, next, Len(line)) \in Seq(Byte)
        BY <1>1, <4>2
      <4> QED
        BY <4>1, <4>3, ConcatProperties
    <3> QED
      BY <1>5, <3>1, <3>2, <3>3 DEF Bus
  <2>3. Addressed'
    BY <2>1, <2>2 DEF Addressed, ForUs
  <2> QED
    BY <2>1, <2>3, MoreServed
<1>6. CASE UNCHANGED vars
  <2>1. Addressed'
    BY <1>6 DEF vars, serverVars, Addressed, ForUs
  <2> QED
    BY <1>6, <2>1, MoreServed DEF vars
<1>7. CASE StartAnew
  <2>1. /\ line' = line /\ phase' = phase /\ buf' = buf /\ ignored' = ignored
        /\ ran' = <<>> /\ replies' = <<>>
    BY <1>7 DEF StartAnew, serverVars
  <2>2. Addressed'
    BY <2>1 DEF Addressed, ForUs
  <2> QED
    BY <1>1, <2>1, <2>2, NothingServed
<1>8. CASE Restart
  <2>1. /\ phase' = "unit" /\ buf' = <<>> /\ ran' = ran /\ replies' = replies
    BY <1>8 DEF Restart, Started
  <2>2. line' \in Seq(Byte)
    <3>1. PICK first \in 1..Len(line) + 1 : line' = SubSeq(line, first, Len(line))
      BY <1>8 DEF Restart
    <3> QED
      BY <1>1, <3>1
  <2>3. Addressed'
    BY <1>1, <2>1, <2>2 DEF Addressed, Phases, InRequest
  <2> QED
    BY <2>1, <2>3, MoreServed
<1> QED
  BY <1>2, <1>3, <1>4, <1>5, <1>6, <1>7, <1>8
-----------------------------------------------------------------------------
\* Nothing is served when the server starts, and what the steps serve is for us.
LEMMA InitServed == Init => ServedInv
<1>1. SUFFICES ASSUME Init PROVE ServedInv
  OBVIOUS
<1>2. <<>> \in Seq(Byte)
  BY EmptySeq
<1>3. Addressed
  BY <1>1, <1>2 DEF Init, Addressed, Phases, InRequest
<1>4. IsSequence(ran) /\ IsSequence(replies)
  BY <1>1, <1>2 DEF Init, IsSequence
<1>5. DOMAIN ran = {} /\ DOMAIN replies = {}
  BY <1>1 DEF Init
<1> QED
  BY <1>3, <1>4, <1>5 DEF ServedInv, ServedForUs

LEMMA ServedKept == ServedInv /\ [AnyNext]_vars => ServedInv'
BY RequestKeepsServed, ResponseKeepsServed, OtherStepsKeepServed DEF AnyNext, ServerStep

\* Whatever comes over the bus, whole, lost or garbled, and whenever the
\* controller restarts, no callback runs and no response is sent for a message
\* that names another unit (nanomodbus.c:251-282, msg.ignored, and the handlers'
\* tests of it).
THEOREM ServedForUsHolds == Spec => []ServedForUs
<1>1. ServedInv => ServedForUs
  BY DEF ServedInv
<1> QED
  BY InitServed, ServedKept, NextIsAny, <1>1, PTL DEF Spec
-----------------------------------------------------------------------------
(***************************************************************************)
(* What a message holds at least, once it is at some piece.                *)
(***************************************************************************)
Shape ==
  /\ phase = "fixed" => Len(buf) >= 2
  /\ phase = "data" => Len(buf) >= 3
  /\ phase \in {"data", "footer"} => Len(buf) >= 2 /\ (Fc(buf) \in {4, 15} => Len(buf) >= 6)
  /\ phase = "callback" => Len(buf) >= 6 /\ ~ignored /\ Fc(buf) \in {4, 15}

\* The function code stays where it is as a message grows.
LEMMA SameFunction ==
  ASSUME NEW s \in Seq(Byte), Len(s) >= 2, NEW t \in Seq(Byte)
  PROVE  /\ Len(s \o t) = Len(s) + Len(t)
         /\ Unit(s \o t) = Unit(s)
         /\ Fc(s \o t) = Fc(s)
BY DEF Unit, Fc

LEMMA WholeRegistersSameFunction ==
  ASSUME NEW s \in Seq(Byte), Len(s) >= 3
  PROVE  /\ Len(WholeRegisters(s)) >= Len(s) - 1
         /\ Fc(WholeRegisters(s)) = Fc(s)
<1>1. CASE Len(s) % 2 = 0
  <2>1. WholeRegisters(s) = SubSeq(s, 1, Len(s) - 1)
    BY <1>1 DEF WholeRegisters
  <2> QED
    BY <2>1 DEF Fc
<1>2. CASE Len(s) % 2 # 0
  BY <1>2 DEF WholeRegisters
<1> QED
  BY <1>1, <1>2

\* Only functions 4 and 15 pass their checks: the others have no callback.
LEMMA OnlyCallbacksPass ==
  ASSUME NEW msg, 0 \in Verdict(msg)
  PROVE  Fc(msg) \in {4, 15}
BY DEF Verdict, ReadVerdict, WriteVerdict, ReadFileVerdict, WriteFileVerdict,
       ReadWriteVerdict, ILLEGAL_FUNCTION, ILLEGAL_DATA_ADDRESS, ILLEGAL_DATA_VALUE

\* The steps that bring a message to one of these pieces read more of it.
LEMMA ShapeKept ==
  ASSUME ServedInv, Shape, [AnyNext]_vars
  PROVE  Shape'
<1>1. buf \in Seq(Byte) /\ phase \in Phases
  BY DEF ServedInv, Addressed
<1>2. ASSUME Reading, Receive
      PROVE  Received \in Seq(Byte) /\ Len(Received) = Need /\ buf \o Received \in Seq(Byte)
  BY <1>2, ReceivedBytes DEF ServedInv
<1>3. CASE RecvFc
  <2>1. phase = "fc" /\ Reading /\ Receive /\ buf' = buf \o Received
        /\ phase' \in {"fixed", "returned"}
    BY <1>3 DEF RecvFc, Reading, Return
  <2>2. Len(buf) >= 1
    BY <1>1, <2>1, EmptySeq DEF ServedInv, Addressed, InRequest
  <2>3. Received \in Seq(Byte) /\ Len(Received) = 1
    BY <1>2, <2>1 DEF Need
  <2>4. Len(buf') >= 2
    BY <1>1, <2>1, <2>2, <2>3
  <2> QED
    BY <2>1, <2>4 DEF Shape
<1>4. CASE RecvBody
  <2> DEFINE msg == buf \o Received
  <2>1. /\ Reading /\ Receive /\ phase \in {"fixed", "data"} /\ phase' \in {"data", "footer"}
        /\ phase = "fixed" => buf' = msg
        /\ phase = "data" => phase' = "footer" /\ buf' \in {msg, WholeRegisters(msg)}
        /\ phase = "data" /\ Fc(buf) \in {4, 15} => buf' = msg
    BY <1>4 DEF RecvBody, Reading
  <2>2. /\ Received \in Seq(Byte) /\ Len(Received) = Need /\ msg \in Seq(Byte)
        /\ Len(buf) >= 2
    BY <1>2, <2>1 DEF Shape
  <2>3. Len(msg) = Len(buf) + Need /\ Fc(msg) = Fc(buf) /\ Need \in Nat
    BY <1>1, <2>2, SameFunction
  <2>4. CASE phase = "fixed"
    <3>1. Need >= 1 /\ (Fc(buf) \in {4, 15} => Need >= 4)
      BY <2>4 DEF Need, FixedLen, Reads, Writes, FileFunctions
    <3>2. Len(buf) \in Nat /\ Len(msg) = Len(buf) + Need /\ Fc(msg) = Fc(buf) /\ buf' = msg
      BY <1>1, <2>1, <2>3, <2>4
    <3>3. Len(buf') >= 3 /\ (Fc(buf') \in {4, 15} => Len(buf') >= 6)
      BY <2>2, <2>3, <3>1, <3>2
    <3> QED
      BY <2>1, <3>3 DEF Shape
  <2>5. CASE phase = "data"
    <3>1. Len(buf) >= 3 /\ (Fc(buf) \in {4, 15} => Len(buf) >= 6)
      BY <2>5 DEF Shape
    <3>2. Len(msg) >= 3
      BY <1>1, <2>3, <3>1
    <3>3. Len(buf') >= 2 /\ Fc(buf') = Fc(buf)
      <4>1. /\ Len(WholeRegisters(msg)) >= 2
            /\ Fc(WholeRegisters(msg)) = Fc(msg)
        <5>1. Len(WholeRegisters(msg)) >= Len(msg) - 1
          BY <2>2, <3>2, WholeRegistersSameFunction
        <5>2. WholeRegisters(msg) \in Seq(Byte) /\ Fc(WholeRegisters(msg)) = Fc(msg)
          BY <2>2, <3>2, WholeRegistersSameFunction, WholeRegistersSameUnit
        <5> HIDE DEF msg
        <5> QED
          BY <2>2, <3>2, <5>1, <5>2
      <4> HIDE DEF msg
      <4> QED
        BY <2>1, <2>3, <2>5, <3>2, <4>1
    <3>4. Fc(buf) \in {4, 15} => Len(buf') >= 6
      BY <1>1, <2>1, <2>3, <2>5, <3>1
    <3> QED
      BY <2>1, <2>5, <3>3, <3>4 DEF Shape
  <2> QED
    BY <2>1, <2>4, <2>5
<1>5. CASE RecvFooterAccepted
  <2>1. /\ phase = "footer" /\ Reading /\ Receive /\ buf' = buf \o Received
        /\ phase' = "callback" /\ ~ignored' /\ 0 \in Verdict(buf)
    BY <1>5 DEF RecvFooterAccepted, Reading
  <2>2. Fc(buf) \in {4, 15} /\ Len(buf) >= 6
    BY <2>1, OnlyCallbacksPass DEF Shape
  <2>3. Len(buf') >= 6 /\ Fc(buf') = Fc(buf)
    BY <1>1, <1>2, <2>1, <2>2, SameFunction
  <2> QED
    BY <2>1, <2>2, <2>3 DEF Shape
<1>6. CASE RecvUnit \/ Poll \/ Timeout \/ FlushFull \/ AnyAnswer \/ Restart
  <2>1. phase' \in {"fc", "unit", "returned"}
    BY <1>6 DEF RecvUnit, Poll, Timeout, FlushFull, AnyAnswer, Answer, Return, Restart, Started
  <2> QED
    BY <2>1 DEF Shape
<1>7. CASE RecvFooterBad \/ RecvFooterIgnored \/ RecvFooterRefused
  <2>1. phase' \in {"flush", "resUnit", "returned"}
    BY <1>7 DEF RecvFooterBad, RecvFooterIgnored, RecvFooterRefused, Fail, Return
  <2> QED
    BY <2>1 DEF Shape
<1>8. CASE RecvResUnit \/ RecvResFc \/ RecvResBody \/ RecvResFooter
  <2>1. phase' \in {"resFc", "resCount", "resFixed", "resException", "resData", "resFooter",
                     "returned"}
    BY <1>8 DEF RecvResUnit, RecvResFc, RecvResBody, RecvResFooter, Return
  <2> QED
    BY <2>1 DEF Shape
<1>9. CASE Bus \/ UNCHANGED vars
  <2>1. phase' = phase /\ buf' = buf /\ ignored' = ignored
    BY <1>9 DEF Bus, Send, Disturb, Overflow, Fault, StartAnew, vars, serverVars
  <2> QED
    BY <2>1 DEF Shape
<1> QED
  BY <1>3, <1>4, <1>5, <1>6, <1>7, <1>8, <1>9 DEF AnyNext, ServerStep, RecvFooter
-----------------------------------------------------------------------------
(***************************************************************************)
(* How much of msg.buf each piece may have filled.                         *)
(***************************************************************************)
Sized ==
  /\ Len(buf) <= MsgLen
  /\ phase = "resUnit" => Len(buf) <= 0
  /\ phase \in {"fc", "resFc"} => Len(buf) <= 1
  /\ phase \in {"fixed", "resCount", "resFixed", "resException"} => Len(buf) <= 2
  /\ phase = "resData" => Len(buf) <= 3
  /\ phase = "data" => HasData(Fc(buf)) /\ Len(buf) <= 2 + FixedLen(Fc(buf))
  /\ phase \in {"footer", "resFooter"} => Len(buf) + 2 <= MsgLen

\* Data that has room leaves room for the checksum.
LEMMA RoomForChecksum ==
  ASSUME NEW fc
  PROVE  /\ FixedLen(fc) \in 1..9
         /\ HasData(fc) => 2 + FixedLen(fc) + DataRoom(fc) + 2 <= MsgLen
         /\ DataRoom(fc) \in Nat /\ MsgLen = 260
BY DEF FixedLen, HasData, DataRoom, MsgLen, Reads, Writes, FileFunctions

\* A piece that is read makes the message as much longer.
LEMMA PieceAdded ==
  ASSUME ServedInv, Reading, Receive
  PROVE  Len(buf \o Received) = Len(buf) + Need /\ Need \in Nat /\ Len(buf) \in Nat
<1>1. buf \in Seq(Byte) /\ Received \in Seq(Byte) /\ Len(Received) = Need
  BY ReceivedBytes DEF ServedInv, Addressed
<1> QED
  BY <1>1

\* Half a register that is left out makes it no longer.
LEMMA WholeRegistersNoLonger ==
  ASSUME NEW s \in Seq(Byte), s # <<>>
  PROVE  Len(WholeRegisters(s)) \in Nat /\ Len(WholeRegisters(s)) <= Len(s)
<1>1. CASE Len(s) % 2 = 0
  <2>1. WholeRegisters(s) = SubSeq(s, 1, Len(s) - 1) /\ Len(s) >= 1
    BY <1>1, EmptySeq DEF WholeRegisters
  <2> QED
    BY <2>1
<1>2. CASE Len(s) % 2 # 0
  BY <1>2 DEF WholeRegisters
<1> QED
  BY <1>1, <1>2

\* A request's data has room, as RecvBody demands of it.
LEMMA BodySized ==
  ASSUME ServedInv, Shape, Sized, RecvBody
  PROVE  Sized'
<1> DEFINE msg == buf \o Received
<1>1. /\ Reading /\ Receive /\ phase \in {"fixed", "data"}
      /\ phase = "data" => Need <= DataRoom(Fc(buf))
      /\ phase' = (IF phase = "fixed" /\ HasData(Fc(buf)) THEN "data" ELSE "footer")
      /\ phase = "fixed" => buf' = msg
      /\ phase = "data" => buf' \in {msg, WholeRegisters(msg)}
  BY DEF RecvBody, Reading
<1>2. buf \in Seq(Byte) /\ Len(buf) >= 2 /\ Received \in Seq(Byte) /\ msg \in Seq(Byte)
  BY <1>1, ReceivedBytes DEF ServedInv, Addressed, Shape
<1>3. Len(msg) = Len(buf) + Need /\ Need \in Nat /\ Len(buf) \in Nat /\ Fc(msg) = Fc(buf)
  BY <1>1, <1>2, PieceAdded, SameFunction
<1>4. Len(WholeRegisters(msg)) \in Nat /\ Len(WholeRegisters(msg)) <= Len(msg)
  <2>1. msg # <<>>
    BY <1>2, <1>3, EmptySeq
  <2> HIDE DEF msg
  <2> QED
    BY <1>2, <2>1, WholeRegistersNoLonger
<1> HIDE DEF msg
<1>5. CASE phase = "fixed"
  <2>1. Need = FixedLen(Fc(buf)) /\ Len(buf) <= 2
    BY <1>5 DEF Need, Sized
  <2>2. Len(buf') <= 2 + FixedLen(Fc(buf')) /\ Fc(buf') = Fc(buf) /\ Len(buf') <= 11
    BY <1>1, <1>3, <1>5, <2>1, RoomForChecksum
  <2> QED
    BY <1>1, <1>3, <1>5, <2>2, RoomForChecksum DEF Sized
<1>6. CASE phase = "data"
  <2>1. HasData(Fc(buf)) /\ Len(buf) <= 2 + FixedLen(Fc(buf)) /\ Need <= DataRoom(Fc(buf))
    BY <1>1, <1>6 DEF Sized
  <2>2. Len(msg) + 2 <= MsgLen
    <3>1. /\ FixedLen(Fc(buf)) \in 1..9 /\ DataRoom(Fc(buf)) \in Nat /\ MsgLen \in Nat
          /\ 2 + FixedLen(Fc(buf)) + DataRoom(Fc(buf)) + 2 <= MsgLen
      <4> DEFINE fc == Fc(buf)
      <4>1. HasData(fc)
        BY <2>1
      <4> HIDE DEF fc
      <4>2. /\ FixedLen(fc) \in 1..9 /\ DataRoom(fc) \in Nat /\ MsgLen \in Nat
            /\ 2 + FixedLen(fc) + DataRoom(fc) + 2 <= MsgLen
        BY <4>1, RoomForChecksum
      <4> QED
        BY <4>2 DEF fc
    <3>2. FixedLen(Fc(buf)) \in Nat
      BY <3>1
    <3>3. Len(msg) = Len(buf) + Need /\ Need \in Nat /\ Len(buf) \in Nat
      BY <1>3
    <3>4. Len(buf) + Need <= 2 + FixedLen(Fc(buf)) + DataRoom(Fc(buf))
      BY <2>1, <3>1, <3>2, <3>3
    <3>5. Len(buf) + Need + 2 <= MsgLen
      BY <3>1, <3>2, <3>3, <3>4
    <3> QED
      BY <3>3, <3>5
  <2>3. Len(buf') \in Nat /\ Len(buf') <= Len(msg)
    BY <1>1, <1>3, <1>4, <1>6
  <2> QED
    BY <1>1, <1>3, <1>6, <2>2, <2>3, RoomForChecksum DEF Sized
<1> QED
  BY <1>1, <1>5, <1>6

\* The response of another unit has room, whatever its count of bytes.
LEMMA ResponseSized ==
  ASSUME ServedInv, Sized, RecvResBody
  PROVE  Sized'
<1> DEFINE msg == buf \o Received
<1>1. /\ Reading /\ Receive /\ phase \in {"resCount", "resData", "resFixed", "resException"}
      /\ phase' = (IF phase = "resCount" THEN "resData" ELSE "resFooter")
      /\ phase # "resData" => buf' = msg
      /\ \/ buf' \in {msg, WholeRegisters(msg)}
         \/ buf' = SubSeq(msg, 1, FileResponseLen(msg)) /\ FileResponseLen(msg) < Len(msg)
  BY DEF RecvResBody, Reading
<1>2. buf \in Seq(Byte) /\ Received \in Seq(Byte) /\ msg \in Seq(Byte)
  BY <1>1, ReceivedBytes DEF ServedInv, Addressed
<1>3. Len(msg) = Len(buf) + Need /\ Need \in Nat /\ Len(buf) \in Nat
  BY <1>1, PieceAdded
<1>4. CASE phase # "resData"
  <2>1. Need \in {1, 4} /\ Len(buf) <= 2 /\ (phase = "resCount" => Need = 1) /\ buf' = msg
    BY <1>1, <1>4 DEF Need, Sized
  <2> HIDE DEF msg
  <2> QED
    BY <1>1, <1>3, <1>4, <2>1, RoomForChecksum DEF Sized
<1>5. CASE phase = "resData"
  <2>1. Need \in 0..255
    <3>1. buf # <<>>
      BY <1>5 DEF ServedInv, Addressed
    <3>2. Len(buf) \in 1..Len(buf)
      BY <1>2, <3>1, EmptySeq
    <3>3. buf[Len(buf)] \in Byte
      BY <1>2, <3>2, ElementOfSeq
    <3> QED
      BY <1>5, <3>3 DEF Need, Byte
  <2>2. Len(buf) <= 3
    BY <1>5 DEF Sized
  <2>3. Len(msg) <= 258
    BY <1>3, <2>1, <2>2
  <2> HIDE DEF msg
  <2>4. Len(buf') \in Nat /\ Len(buf') <= Len(msg)
    <3>1. CASE buf' = msg
      BY <1>3, <3>1
    <3>2. CASE buf' = WholeRegisters(msg)
      <4>1. CASE msg # <<>>
        BY <1>2, <3>2, <4>1, WholeRegistersNoLonger
      <4>2. CASE msg = <<>>
        <5>1. WholeRegisters(msg) = SubSeq(msg, 1, -1)
          BY <4>2, EmptySeq DEF WholeRegisters
        <5> QED
          BY <1>2, <3>2, <4>2, <5>1
      <4> QED
        BY <4>1, <4>2
    <3>3. CASE buf' = SubSeq(msg, 1, FileResponseLen(msg)) /\ FileResponseLen(msg) < Len(msg)
      <4>1. FileResponseLen(msg) \in Nat
        BY <1>2, FileResponseNat
      <4> QED
        BY <1>2, <3>3, <4>1
    <3> QED
      BY <1>1, <3>1, <3>2, <3>3
  <2> QED
    BY <1>1, <1>5, <2>3, <2>4, RoomForChecksum DEF Sized
<1> QED
  BY <1>4, <1>5

\* The other reads ask for one byte of a header or two of a checksum.
LEMMA SizedKept ==
  ASSUME ServedInv, Shape, Sized, [AnyNext]_vars
  PROVE  Sized'
<1>1. CASE RecvBody
  BY <1>1, BodySized
<1>2. CASE RecvResBody
  BY <1>2, ResponseSized
<1>3. CASE \/ RecvUnit \/ RecvFc \/ RecvFooterBad \/ RecvFooterRefused \/ RecvFooterAccepted
           \/ RecvResUnit \/ RecvResFc \/ RecvResFooter
  <2>1. /\ Reading /\ Receive /\ buf' = buf \o Received
        /\ \/ phase \in {"unit", "resUnit"} /\ phase' \in {"fc", "resFc"}
           \/ /\ phase \in {"fc", "resFc"}
              /\ phase' \in {"fixed", "resCount", "resFixed", "resException", "returned"}
           \/ phase \in {"footer", "resFooter"} /\ phase' \in {"flush", "callback", "returned"}
    <3>1. CASE RecvUnit \/ RecvResUnit
      BY <3>1 DEF RecvUnit, RecvResUnit, Reading
    <3>2. CASE RecvFc \/ RecvResFc
      BY <3>2 DEF RecvFc, RecvResFc, Reading, Return
    <3>3. CASE RecvFooterBad \/ RecvFooterRefused \/ RecvFooterAccepted \/ RecvResFooter
      BY <3>3 DEF RecvFooterBad, RecvFooterRefused, RecvFooterAccepted, RecvResFooter, Reading,
                  Return, Fail
    <3> QED
      BY <1>3, <3>1, <3>2, <3>3
  <2>2. /\ phase \in {"unit", "resUnit"} => Len(buf) <= 0 /\ Need = 1
        /\ phase \in {"fc", "resFc"} => Len(buf) <= 1 /\ Need = 1
        /\ phase \in {"footer", "resFooter"} => Len(buf) + 2 <= MsgLen /\ Need = 2
    BY EmptySeq DEF Sized, Need, ServedInv, Addressed
  <2>3. Len(buf') = Len(buf) + Need /\ Len(buf) \in Nat
    BY <2>1, PieceAdded
  <2> QED
    BY <2>1, <2>2, <2>3, RoomForChecksum DEF Sized
<1>4. CASE RecvFooterIgnored \/ Poll \/ Restart
  <2>1. buf' = <<>> /\ phase' \in {"unit", "resUnit"}
    BY <1>4 DEF RecvFooterIgnored, Poll, Restart, Started
  <2> QED
    BY <2>1, EmptySeq, RoomForChecksum DEF Sized
<1>5. CASE Timeout \/ FlushFull \/ AnyAnswer
  <2>1. buf' = buf /\ phase' = "returned"
    BY <1>5 DEF Timeout, GiveUp, FlushFull, AnyAnswer, Answer, Return
  <2> QED
    BY <2>1 DEF Sized
<1>6. CASE Bus \/ UNCHANGED vars
  <2>1. phase' = phase /\ buf' = buf
    BY <1>6 DEF Bus, Send, Disturb, Overflow, Fault, StartAnew, vars, serverVars
  <2> QED
    BY <2>1 DEF Sized
<1> QED
  BY <1>1, <1>2, <1>3, <1>4, <1>5, <1>6 DEF AnyNext, ServerStep, RecvFooter
-----------------------------------------------------------------------------
(***************************************************************************)
(* Types.                                                                  *)
(***************************************************************************)
Outcomes == {"none", "firstByteTimeout", "timeout", "crc", "unit", "response"}

TypeInv == ServedInv /\ Shape /\ Sized /\ TypeOK

\* The request a response is compared with is taken from a message that has a
\* unit and a function code.
LEMMA ExpectedTypes ==
  ASSUME NEW msg \in Seq(Byte), Len(msg) >= 2
  PROVE  Expected(msg).unit \in Byte /\ Expected(msg).fc \in Byte
<1>1. 1 \in 1..Len(msg) /\ 2 \in 1..Len(msg)
  OBVIOUS
<1>2. msg[1] \in Byte /\ msg[2] \in Byte
  BY <1>1, ElementOfSeq
<1>3. Expected(msg).unit = msg[1] /\ Expected(msg).fc = msg[2]
  BY DEF Expected, Unit, Fc
<1> QED
  BY <1>2, <1>3

\* The steps of the server count nothing, and what they return and remember is
\* one of the outcomes, and a request.
LEMMA ServerKeepsTypes ==
  ASSUME TypeInv, ServerStep \/ Callback
  PROVE  /\ req'.unit \in Byte /\ req'.fc \in Byte
         /\ result' \in Outcomes /\ led' \in BOOLEAN
         /\ heard' = heard /\ faults' = faults /\ restarts' = restarts
         /\ late' \in BOOLEAN /\ fresh' \in Nat
         /\ ignored' \in BOOLEAN
<1> DEFINE Counts == heard' = heard /\ faults' = faults /\ restarts' = restarts
           Types  == /\ req'.unit \in Byte /\ req'.fc \in Byte
                     /\ result' \in Outcomes /\ led' \in BOOLEAN
                     /\ late' \in BOOLEAN /\ fresh' \in Nat
                     /\ ignored' \in BOOLEAN
<1>1. /\ req.unit \in Byte /\ req.fc \in Byte /\ result \in Outcomes /\ led \in BOOLEAN
      /\ late \in BOOLEAN /\ fresh \in Nat /\ ignored \in BOOLEAN /\ buf \in Seq(Byte)
  BY DEF TypeInv, TypeOK, Outcomes
<1>2. CASE RecvFooterIgnored
  <2>1. /\ req' = Expected(buf) /\ ~ignored' /\ ~led' /\ Counts /\ phase = "footer"
        /\ result' = result /\ late' = late /\ fresh' = fresh
        /\ ignored' \in BOOLEAN /\ led' \in BOOLEAN
    BY <1>2 DEF RecvFooterIgnored, busVars
  <2>2. Len(buf) >= 2
    BY <2>1 DEF TypeInv, Shape
  <2> QED
    BY <1>1, <2>1, <2>2, ExpectedTypes
<1>3. CASE RecvUnit \/ RecvFc \/ RecvBody
  BY <1>1, <1>3 DEF RecvUnit, RecvFc, RecvBody, Return, NothingRead, busVars, Outcomes
<1>4. CASE RecvFooterBad \/ RecvFooterRefused \/ RecvFooterAccepted
  <2>1. /\ Counts /\ req' = req /\ ignored' = ignored /\ late' = late /\ led' = FALSE
        /\ fresh' \in {fresh, 0}
    BY <1>4 DEF RecvFooterBad, RecvFooterRefused, RecvFooterAccepted, NothingRead, busVars
  <2>2. result' \in Outcomes
    BY <1>1, <1>4 DEF RecvFooterBad, RecvFooterRefused, RecvFooterAccepted, Fail, Return, Outcomes
  <2>3. led' \in BOOLEAN
    BY <2>1
  <2> QED
    BY <1>1, <2>1, <2>2, <2>3
<1>5. CASE RecvResUnit \/ RecvResFc \/ RecvResBody
  BY <1>1, <1>5 DEF RecvResUnit, RecvResFc, RecvResBody, Return, NothingRead, busVars, Outcomes
<1>6. CASE RecvResFooter
  <2>1. ResponseResult \in Outcomes
    BY DEF ResponseResult, Outcomes
  <2>2. PICK matches : Return(IF matches THEN ResponseResult ELSE "crc")
    BY <1>6 DEF RecvResFooter
  <2>3. result' \in Outcomes
    BY <2>1, <2>2 DEF Return, Outcomes
  <2> QED
    BY <1>1, <1>6, <2>3 DEF RecvResFooter, NothingRead, busVars
<1>7. CASE Poll \/ Timeout \/ FlushFull
  BY <1>1, <1>7 DEF Poll, Timeout, GiveUp, TimeoutResult, FlushFull, Return, NothingRead,
                    busVars, Outcomes
<1>8. CASE Callback
  <2>1. PICK code, regs : Answer(code, regs)
    BY <1>8 DEF Callback
  <2> QED
    BY <1>1, <2>1 DEF Answer, Return, busVars, Outcomes
<1> QED
  BY <1>2, <1>3, <1>4, <1>5, <1>6, <1>7, <1>8 DEF ServerStep, RecvFooter

\* The bus and the restarts stay within their bounds.
LEMMA OthersKeepTypes ==
  ASSUME TypeInv, Bus \/ Restart \/ UNCHANGED vars
  PROVE  /\ req'.unit \in Byte /\ req'.fc \in Byte
         /\ result' \in Outcomes /\ led' \in BOOLEAN
         /\ heard' \in Seq(Frames) /\ Len(heard') <= MaxFrames
         /\ faults' \in 0..MaxFaults /\ restarts' \in 0..MaxRestarts
         /\ late' \in BOOLEAN /\ fresh' \in Nat
         /\ ignored' \in BOOLEAN
<1>1. /\ req.unit \in Byte /\ req.fc \in Byte /\ result \in Outcomes /\ led \in BOOLEAN
      /\ late \in BOOLEAN /\ fresh \in Nat /\ ignored \in BOOLEAN
      /\ heard \in Seq(Frames) /\ Len(heard) <= MaxFrames
      /\ faults \in 0..MaxFaults /\ restarts \in 0..MaxRestarts
  BY DEF TypeInv, TypeOK, Outcomes
<1>2. CASE \E frame \in Frames : Send(frame)
  <2>1. PICK frame \in Frames : Send(frame)
    BY <1>2
  <2>2. Len(frame) \in Nat
    BY FramesAssumption
  <2>3. /\ heard' = Append(heard, frame) /\ Len(heard) < MaxFrames
        /\ UNCHANGED <<serverVars, faults, restarts, late>>
        /\ fresh' \in {fresh + Len(frame), fresh}
    BY <2>1 DEF Send
  <2>4. heard' \in Seq(Frames) /\ Len(heard') = Len(heard) + 1
    BY <1>1, <2>3
  <2> QED
    BY <1>1, <2>2, <2>3, <2>4, BoundsAssumption DEF serverVars
<1>3. CASE Disturb \/ Overflow
  <2>1. /\ faults < MaxFaults /\ faults' = faults + 1
        /\ UNCHANGED <<serverVars, heard, restarts, late, fresh>>
    BY <1>3 DEF Disturb, Overflow, Fault
  <2> QED
    BY <1>1, <2>1, BoundsAssumption DEF serverVars
<1>4. CASE StartAnew
  <2>1. /\ heard' = <<>> /\ faults' = 0 /\ restarts' = 0 /\ late' = FALSE
        /\ UNCHANGED <<serverVars, fresh>>
    BY <1>4 DEF StartAnew
  <2>2. heard' \in Seq(Frames) /\ Len(heard') = 0
    BY <2>1, EmptySeq
  <2>3. 0 \in 0..MaxFaults /\ 0 \in 0..MaxRestarts /\ 0 <= MaxFrames
    BY BoundsAssumption
  <2>4. req' = req /\ result' = result /\ led' = led /\ ignored' = ignored
    BY <2>1 DEF serverVars
  <2>5. faults' \in 0..MaxFaults /\ restarts' \in 0..MaxRestarts
    BY <2>1, <2>3
  <2>6. Len(heard') <= MaxFrames
    BY <2>2, <2>3, Zenon
  <2>7. fresh' \in Nat /\ led' \in BOOLEAN /\ ignored' \in BOOLEAN /\ late' \in BOOLEAN
    BY <1>1, <2>1, <2>4
  <2>8. req'.unit \in Byte /\ req'.fc \in Byte /\ result' \in Outcomes
    BY <1>1, <2>4
  <2> QED
    BY <2>2, <2>3, <2>5, <2>6, <2>7, <2>8
<1>5. CASE Restart
  <2>1. /\ restarts < MaxRestarts /\ restarts' = restarts + 1 /\ req' = NoRequest
        /\ result' = "none" /\ led' = FALSE /\ ignored' = FALSE /\ fresh' = 0
        /\ UNCHANGED <<heard, faults, late>>
    BY <1>5 DEF Restart, Started
  <2>2. req'.unit = 0 /\ req'.fc = 0 /\ 0 \in Byte
    BY <2>1 DEF NoRequest, Byte
  <2>3. led' \in BOOLEAN /\ ignored' \in BOOLEAN
    BY <2>1
  <2>4. restarts' \in 0..MaxRestarts /\ fresh' \in Nat /\ result' \in Outcomes
    BY <1>1, <2>1, BoundsAssumption DEF Outcomes
  <2> QED
    BY <1>1, <2>1, <2>2, <2>3, <2>4
<1>6. CASE UNCHANGED vars
  BY <1>1, <1>6 DEF vars, serverVars, busVars
<1> QED
  BY <1>2, <1>3, <1>4, <1>5, <1>6 DEF Bus

\* The types hold, an ignored message never reaches a callback, and the callbacks
\* are those of the two functions that have one (ModbusServer.cpp:19-21).
THEOREM TypeCorrect == Spec => []TypeOK
<1>1. Init => TypeInv
  <2>1. SUFFICES ASSUME Init PROVE TypeInv
    OBVIOUS
  <2>2. ServedInv
    BY <2>1, InitServed
  <2>3. Shape
    BY <2>1 DEF Init, Shape
  <2>9. Sized
    BY <2>1, EmptySeq, RoomForChecksum DEF Init, Sized
  <2>4. <<>> \in Seq(Byte) /\ <<>> \in Seq(Frames) /\ Len(<<>>) = 0
    BY EmptySeq
  <2>5. req.unit = 0 /\ req.fc = 0 /\ 0 \in Byte
    BY <2>1 DEF Init, NoRequest, Byte
  <2>6. 0 \in 0..MaxFaults /\ 0 \in 0..MaxRestarts /\ 0 <= MaxFrames /\ 0 \in Nat
    BY BoundsAssumption
  <2>7. ignored \in BOOLEAN /\ led \in BOOLEAN /\ late \in BOOLEAN
    BY <2>1 DEF Init
  <2>8. TypeOK
    <3>1. /\ line = <<>> /\ buf = <<>> /\ heard = <<>> /\ phase = "unit" /\ result = "none"
          /\ faults = 0 /\ restarts = 0 /\ fresh = 0
      BY <2>1 DEF Init
    <3> QED
      BY <2>4, <2>5, <2>6, <2>7, <2>9, <3>1 DEF TypeOK, Phases, Sized
  <2> QED
    BY <2>2, <2>3, <2>8, <2>9 DEF TypeInv
<1>2. TypeInv /\ [Next]_vars => TypeInv'
  <2>1. SUFFICES ASSUME TypeInv, [Next]_vars PROVE TypeInv'
    OBVIOUS
  <2>2. ServedInv'
    BY <2>1, ServedKept, NextIsAny DEF TypeInv
  <2>3. Shape'
    BY <2>1, ShapeKept, NextIsAny DEF TypeInv
  <2>9. Sized'
    BY <2>1, SizedKept, NextIsAny DEF TypeInv
  <2>4. /\ heard' \in Seq(Frames) /\ Len(heard') <= MaxFrames
        /\ faults' \in 0..MaxFaults /\ restarts' \in 0..MaxRestarts
    BY <2>1, ServerKeepsTypes, OthersKeepTypes DEF TypeInv, TypeOK, Next
  <2>5. /\ req'.unit \in Byte /\ req'.fc \in Byte
        /\ result' \in Outcomes /\ led' \in BOOLEAN
        /\ late' \in BOOLEAN /\ fresh' \in Nat /\ ignored' \in BOOLEAN
    BY <2>1, ServerKeepsTypes, OthersKeepTypes DEF Next
  <2>6. line' \in Seq(Byte) /\ phase' \in Phases /\ buf' \in Seq(Byte)
    BY <2>2 DEF ServedInv, Addressed
  <2>7. phase' = "callback" => ~ignored' /\ Fc(buf)' \in {4, 15}
    BY <2>3 DEF Shape
  <2>8. TypeOK'
    BY <2>4, <2>5, <2>6, <2>7, <2>9 DEF TypeOK, Outcomes, Sized
  <2> QED
    BY <2>2, <2>3, <2>8, <2>9 DEF TypeInv
<1>3. TypeInv => TypeOK
  BY DEF TypeInv
<1> QED
  BY <1>1, <1>2, <1>3, PTL DEF Spec
-----------------------------------------------------------------------------
(***************************************************************************)
(* What a response repeats of its request.                                 *)
(***************************************************************************)

\* What the callback of a read returns is a sequence of registers.
RegistersAreSequences ==
  \A msg \in Seq(Byte) : \A regs \in Registers(msg) : Len(regs) \in Nat

\* The server with callbacks that may answer any sequence of registers.
SequenceAnswer == phase = "callback" /\ \E code, regs : Len(regs) \in Nat /\ Answer(code, regs)
SequenceNext   == ServerStep \/ SequenceAnswer \/ Bus \/ Restart

LEMMA SequenceIsAny == [SequenceNext]_vars => [AnyNext]_vars
BY Zenon DEF SequenceNext, SequenceAnswer, AnyNext, AnyAnswer

LEMMA NextIsSequence ==
  ASSUME RegistersAreSequences, buf \in Seq(Byte), [Next]_vars
  PROVE  [SequenceNext]_vars
<1>1. CASE Callback
  <2>1. PICK code, regs : /\ Answer(code, regs)
                          /\ regs \in IF Fc(buf) = 4 /\ code = 0 THEN Registers(buf) ELSE {<<>>}
    BY <1>1 DEF Callback
  <2>2. Len(regs) \in Nat
    BY <2>1, EmptySeq DEF RegistersAreSequences
  <2>3. phase = "callback"
    BY <1>1 DEF Callback
  <2> QED
    BY <2>1, <2>2, <2>3 DEF SequenceNext, SequenceAnswer
<1>2. CASE ServerStep \/ Bus \/ Restart \/ UNCHANGED vars
  BY <1>2 DEF SequenceNext
<1> QED
  BY <1>1, <1>2 DEF Next

Repeats(one) ==
  /\ one.bytes[1] = Unit(one.to)
  /\ \/ one.bytes[2] = Fc(one.to) + 128
     \/ one.bytes[2] = Fc(one.to) /\ Unit(one.to) # BROADCAST

\* What is put at the end of a message leaves its head as it is.
LEMMA SameHead ==
  ASSUME NEW S, NEW s \in Seq(S), Len(s) >= 2, NEW T, NEW t \in Seq(T)
  PROVE  /\ s \o t \in Seq(S \cup T)
         /\ Len(s \o t) >= 2
         /\ (s \o t)[1] = s[1]
         /\ (s \o t)[2] = s[2]
<1>1. s \in Seq(S \cup T) /\ t \in Seq(S \cup T)
  OBVIOUS
<1>2. Len(s) \in Nat /\ Len(t) \in Nat
  OBVIOUS
<1>3. 1 \in 1..Len(s) + Len(t) /\ 2 \in 1..Len(s) + Len(t)
  BY <1>2
<1> QED
  BY <1>1, <1>2, <1>3, ConcatProperties

\* So does the checksum.
LEMMA HeadOfFrame ==
  ASSUME NEW S, NEW s \in Seq(S), Len(s) >= 2
  PROVE  WithCrc(s)[1] = s[1] /\ WithCrc(s)[2] = s[2]
<1> DEFINE sum == Bytes2(Crc(s))
           B   == {Crc(s) \div 256, Crc(s) % 256}
<1>1. sum \in Seq(B)
  BY DEF Bytes2
<1> HIDE DEF sum, B
<1> QED
  BY <1>1, SameHead DEF WithCrc, sum

\* The responses begin with the unit and the function code of their request.
LEMMA ExceptionRepeats ==
  ASSUME NEW msg, NEW code
  PROVE  /\ ExceptionResponse(msg, code)[1] = Unit(msg)
         /\ ExceptionResponse(msg, code)[2] = Fc(msg) + 128
<1> DEFINE head == <<Unit(msg), Fc(msg) + 128, code>>
           S    == {Unit(msg), Fc(msg) + 128, code}
<1>1. head \in Seq(S) /\ Len(head) >= 2 /\ head[1] = Unit(msg) /\ head[2] = Fc(msg) + 128
  OBVIOUS
<1> HIDE DEF head, S
<1> QED
  BY <1>1, HeadOfFrame DEF ExceptionResponse, head

LEMMA ReadRepeats ==
  ASSUME NEW msg, NEW regs, Len(regs) \in Nat
  PROVE  ReadResponse(msg, regs)[1] = Unit(msg) /\ ReadResponse(msg, regs)[2] = Fc(msg)
<1> DEFINE head  == <<Unit(msg), Fc(msg), 2 * Len(regs)>>
           S     == {Unit(msg), Fc(msg), 2 * Len(regs)}
           At(i) == Bytes2(regs[(i + 1) \div 2])[2 - (i % 2)]
           rest  == [i \in 1..2 * Len(regs) |-> At(i)]
           T     == {At(i) : i \in 1..2 * Len(regs)}
<1>1. head \in Seq(S) /\ Len(head) >= 2 /\ head[1] = Unit(msg) /\ head[2] = Fc(msg)
  OBVIOUS
<1>2. 2 * Len(regs) \in Nat
  OBVIOUS
<1>3. ReadResponse(msg, regs) = WithCrc(head \o rest)
  BY DEF ReadResponse
<1> HIDE DEF At
<1>4. rest \in Seq(T)
  BY <1>2
<1> HIDE DEF head, S, rest, T
<1>5. /\ head \o rest \in Seq(S \cup T) /\ Len(head \o rest) >= 2
      /\ (head \o rest)[1] = Unit(msg) /\ (head \o rest)[2] = Fc(msg)
  BY <1>1, <1>4, SameHead
<1> QED
  BY <1>3, <1>5, HeadOfFrame

LEMMA WriteRepeats ==
  ASSUME NEW msg \in Seq(Byte), Len(msg) >= 6
  PROVE  WriteResponse(msg)[1] = Unit(msg) /\ WriteResponse(msg)[2] = Fc(msg)
<1>1. /\ SubSeq(msg, 1, 6) \in Seq(Byte) /\ Len(SubSeq(msg, 1, 6)) >= 2
      /\ SubSeq(msg, 1, 6)[1] = msg[1] /\ SubSeq(msg, 1, 6)[2] = msg[2]
  OBVIOUS
<1> QED
  BY <1>1, HeadOfFrame DEF WriteResponse, Unit, Fc

\* One more response that repeats its request, or none, leaves them all so.
LEMMA MoreRepeats ==
  ASSUME IsSequence(replies), RepliesRepeatRequests,
         \/ replies' = replies
         \/ \E msg, response : /\ replies' = Reply(msg, response)
                              /\ Repeats([to |-> msg, bytes |-> response])
  PROVE  RepliesRepeatRequests'
<1>1. \A i \in DOMAIN replies : Repeats(replies[i])
  BY DEF RepliesRepeatRequests, Repeats
<1>2. \A i \in DOMAIN replies' : Repeats(replies'[i])
  <2>1. CASE replies' = replies
    BY <1>1, <2>1
  <2>2. CASE replies' # replies
    <3>1. PICK msg, response : /\ replies' = Append(replies, [to |-> msg, bytes |-> response])
                               /\ Repeats([to |-> msg, bytes |-> response])
      BY <2>2 DEF Reply
    <3> DEFINE one == [to |-> msg, bytes |-> response]
    <3> HIDE DEF one
    <3>2. replies' = Append(replies, one) /\ Repeats(one)
      BY <3>1 DEF one
    <3> QED
      BY <1>1, <3>2, OneMore
  <2> QED
    BY <2>1, <2>2
<1> QED
  BY <1>2 DEF RepliesRepeatRequests, Repeats

\* The two steps that send a response, and the others, which send none.
LEMMA RepeatsKept ==
  ASSUME ServedInv, Shape, RepliesRepeatRequests, [SequenceNext]_vars
  PROVE  RepliesRepeatRequests'
<1>1. buf \in Seq(Byte) /\ IsSequence(replies)
  BY DEF ServedInv, Addressed
<1>2. CASE RecvFooterRefused
  <2>1. phase = "footer" /\ Reading /\ Receive
    BY <1>2 DEF RecvFooterRefused, Reading
  <2>2. Len(buf) >= 2 /\ Received \in Seq(Byte)
    BY <2>1, ReceivedBytes DEF Shape, ServedInv
  <2>3. PICK code : replies' = Reply(buf \o Received, ExceptionResponse(buf, code))
    BY <1>2 DEF RecvFooterRefused
  <2> DEFINE msg      == buf \o Received
             response == ExceptionResponse(buf, code)
  <2>4. Unit(msg) = Unit(buf) /\ Fc(msg) = Fc(buf)
    BY <1>1, <2>2, SameFunction
  <2>5. response[1] = Unit(buf) /\ response[2] = Fc(buf) + 128
    BY ExceptionRepeats
  <2> HIDE DEF msg, response
  <2>6. Repeats([to |-> msg, bytes |-> response])
    BY <2>4, <2>5 DEF Repeats
  <2> QED
    BY <1>1, <2>3, <2>6, MoreRepeats DEF msg, response
<1>3. CASE SequenceAnswer
  <2>1. Len(buf) >= 6
    BY <1>3 DEF SequenceAnswer, Shape
  <2>2. PICK code, regs : Answer(code, regs) /\ Len(regs) \in Nat
    BY <1>3 DEF SequenceAnswer
  <2>3. Len(regs) \in Nat
    BY <2>2
  <2> DEFINE response == IF code # 0 THEN ExceptionResponse(buf, code)
                         ELSE IF Fc(buf) = 4 THEN ReadResponse(buf, regs) ELSE WriteResponse(buf)
  <2>4. /\ response[1] = Unit(buf)
        /\ response[2] = IF code # 0 THEN Fc(buf) + 128 ELSE Fc(buf)
    BY <1>1, <2>1, <2>3, ExceptionRepeats, ReadRepeats, WriteRepeats
  <2>5. \/ replies' = replies
        \/ replies' = Reply(buf, response) /\ (code = 0 => Unit(buf) # BROADCAST)
    BY <2>2 DEF Answer
  <2> HIDE DEF response
  <2>6. (code = 0 => Unit(buf) # BROADCAST) => Repeats([to |-> buf, bytes |-> response])
    BY <2>4 DEF Repeats
  <2> QED
    BY <1>1, <2>5, <2>6, MoreRepeats
<1>4. CASE StartAnew
  <2>1. replies' = <<>> /\ DOMAIN (<<>>) = {}
    BY <1>4 DEF StartAnew
  <2> QED
    BY <2>1 DEF RepliesRepeatRequests
<1>5. CASE \/ RecvUnit \/ RecvFc \/ RecvBody
           \/ RecvFooterBad \/ RecvFooterIgnored \/ RecvFooterAccepted
           \/ RecvResUnit \/ RecvResFc \/ RecvResBody \/ RecvResFooter
           \/ Poll \/ Timeout \/ FlushFull
  <2>1. replies' = replies
    BY <1>5 DEF RecvUnit, RecvFc, RecvBody, RecvFooterBad, RecvFooterIgnored,
                RecvFooterAccepted, RecvResUnit, RecvResFc, RecvResBody, RecvResFooter,
                Poll, Timeout, GiveUp, FlushFull, NothingRead
  <2> QED
    BY <1>1, <2>1, MoreRepeats
<1>6. CASE (Bus /\ ~StartAnew) \/ Restart \/ UNCHANGED vars
  <2>1. replies' = replies
    BY <1>6 DEF Bus, Send, Disturb, Overflow, Fault, Restart, vars
  <2> QED
    BY <1>1, <2>1, MoreRepeats
<1> QED
  BY <1>2, <1>3, <1>4, <1>5, <1>6 DEF SequenceNext, ServerStep, RecvFooter

\* The responses sent so far, with what the buffer holds for the next one.
RepeatInv == ServedInv /\ Shape /\ RepliesRepeatRequests

LEMMA RepeatInductive ==
  /\ Init => RepeatInv
  /\ RepeatInv /\ [SequenceNext]_vars => RepeatInv'
<1>1. ASSUME Init PROVE RepeatInv
  <2>1. Shape
    BY <1>1 DEF Init, Shape
  <2>2. replies = <<>> /\ DOMAIN (<<>>) = {}
    BY <1>1 DEF Init
  <2> QED
    BY <1>1, <2>1, <2>2, InitServed DEF RepeatInv, RepliesRepeatRequests
<1>2. RepeatInv /\ [SequenceNext]_vars => RepeatInv'
  BY ServedKept, ShapeKept, SequenceIsAny, RepeatsKept DEF RepeatInv
<1> QED
  BY <1>1, <1>2

\* A response repeats the unit and the function code of its request, and a
\* broadcast is answered by nothing but an exception, for every checksum and every
\* callback that returns a sequence of registers (put_res_header,
\* send_exception_msg, msg.broadcast).
THEOREM RepliesRepeatRequestsHolds ==
  ASSUME RegistersAreSequences
  PROVE  Spec => []RepliesRepeatRequests
<1>1. RepeatInv /\ [Next]_vars => RepeatInv'
  <2>1. RepeatInv => buf \in Seq(Byte)
    BY DEF RepeatInv, ServedInv, Addressed
  <2> QED
    BY <2>1, RegistersAreSequences, NextIsSequence, RepeatInductive
<1>2. RepeatInv => RepliesRepeatRequests
  BY DEF RepeatInv
<1> QED
  BY <1>1, <1>2, RepeatInductive, PTL DEF Spec
-----------------------------------------------------------------------------
(***************************************************************************)
(* No request is dropped.                                                  *)
(***************************************************************************)

\* How much of a request the buffer holds at each of its pieces.
Places ==
  /\ phase = "fc" => Len(buf) = 1
  /\ phase \in {"fixed", "data", "footer"} => Len(buf) >= 2 /\ Fc(buf) \in Functions
  /\ phase = "fixed" => Len(buf) = 2
  /\ phase = "data" => HasData(Fc(buf)) /\ Len(buf) = FixedEnd(buf)
  /\ phase = "footer" =>
       /\ FixedEnd(buf) <= Len(buf)
       /\ WholeData(buf) => Len(buf) = FixedEnd(buf) + DataLen(buf)

\* Faults and restarts are counted.
Counted == faults \in Nat /\ restarts \in Nat

KeepInv == ServedInv /\ Places /\ Counted

LEMMA PrefixElements ==
  ASSUME NEW f \in Seq(Byte), NEW s \in Seq(Byte)
  PROVE  IsPrefix(f, s) <=> Len(f) <= Len(s) /\ \A i \in 1..Len(f) : f[i] = s[i]
<1>1. ASSUME Len(f) <= Len(s)
      PROVE  /\ SubSeq(s, 1, Len(f)) \in Seq(Byte) /\ Len(SubSeq(s, 1, Len(f))) = Len(f)
             /\ \A i \in 1..Len(f) : SubSeq(s, 1, Len(f))[i] = s[i]
  BY <1>1
<1>2. SubSeq(f, 1, Len(f)) = f
  OBVIOUS
<1>3. ASSUME Len(f) <= Len(s), \A i \in 1..Len(f) : f[i] = s[i]
      PROVE  f = SubSeq(s, 1, Len(f))
  <2>1. \A i \in 1..Len(f) : f[i] = SubSeq(s, 1, Len(f))[i]
    BY <1>1, <1>3
  <2> QED
    BY <1>1, <1>3, <2>1, SeqEqual
<1> QED
  BY <1>1, <1>2, <1>3 DEF IsPrefix

\* What is read moves from the line into the buffer, and the two together stay as
\* they are.
LEMMA ReadMoves ==
  ASSUME NEW b \in Seq(Byte), NEW l \in Seq(Byte), NEW n \in Nat, n <= Len(l)
  PROVE  (b \o SubSeq(l, 1, n)) \o SubSeq(l, n + 1, Len(l)) = b \o l
<1> DEFINE first == SubSeq(l, 1, n)
           rest  == SubSeq(l, n + 1, Len(l))
<1>1. first \in Seq(Byte) /\ rest \in Seq(Byte)
  OBVIOUS
<1>2. first \o rest = SubSeq(l, 1, Len(l))
  <2>1. 1 \in 1..Len(l) + 1 /\ n \in 1 - 1..Len(l) /\ Len(l) \in n..Len(l)
    OBVIOUS
  <2> QED
    BY <2>1, ConcatAdjacentSubSeq
<1>3. SubSeq(l, 1, Len(l)) = l
  BY SubSeqFull
<1> HIDE DEF first, rest
<1>4. (b \o first) \o rest = b \o (first \o rest)
  BY <1>1, ConcatAssociative
<1> QED
  BY <1>2, <1>3, <1>4 DEF first, rest

\* A message of at least two bytes that agrees with another one has its unit, its
\* function and, as far as it goes, the same lengths.
LEMMA PartOf ==
  ASSUME NEW f \in Seq(Byte), NEW msg \in Seq(Byte), 2 <= Len(msg), Len(msg) <= Len(f),
         \A i \in 1..Len(msg) : msg[i] = f[i]
  PROVE  /\ Unit(msg) = Unit(f) /\ Fc(msg) = Fc(f) /\ FixedEnd(msg) = FixedEnd(f)
         /\ FixedEnd(f) <= Len(msg) =>
              DataLen(msg) = DataLen(f) /\ WholeData(msg) = WholeData(f)
<1>1. Unit(msg) = Unit(f) /\ Fc(msg) = Fc(f)
  BY DEF Unit, Fc
<1>2. FixedEnd(msg) = FixedEnd(f)
  BY <1>1 DEF FixedEnd
<1>3. FixedEnd(f) \in Nat /\ FixedEnd(f) >= 1
  BY DEF FixedEnd, FixedLen
<1>4. FixedEnd(f) <= Len(msg) => msg[FixedEnd(f)] = f[FixedEnd(f)]
  BY <1>3
<1> QED
  BY <1>1, <1>2, <1>4 DEF DataLen, WholeData

\* The lengths of a message are numbers.
LEMMA LengthsAreNat ==
  ASSUME NEW msg \in Seq(Byte), FixedEnd(msg) <= Len(msg)
  PROVE  FixedEnd(msg) \in Nat /\ FixedEnd(msg) >= 3 /\ DataLen(msg) \in Nat
<1>1. FixedEnd(msg) \in Nat /\ FixedEnd(msg) >= 3
  BY DEF FixedEnd, FixedLen
<1>2. FixedEnd(msg) \in 1..Len(msg)
  BY <1>1
<1>3. msg[FixedEnd(msg)] \in Byte
  BY <1>2, ElementOfSeq
<1>4. msg[FixedEnd(msg)] \in Nat
  <2>1. Byte \subseteq Nat
    BY DEF Byte
  <2> QED
    BY <1>3, <2>1
<1> QED
  BY <1>1, <1>4 DEF DataLen

LEMMA RequestFacts ==
  ASSUME NEW f \in Seq(Byte), WholeRequest(f)
  PROVE  /\ Len(f) >= 4 /\ ForUs(f) /\ Fc(f) \in Functions
         /\ FixedEnd(f) \in Nat /\ FixedEnd(f) >= 3 /\ DataLen(f) \in Nat
         /\ Len(f) = FixedEnd(f) + DataLen(f) + 2 /\ FixedEnd(f) + 2 <= Len(f)
         /\ WholeData(f)
         /\ Word(f, Len(f) - 1) = Crc(SubSeq(f, 1, Len(f) - 2))
<1>1. /\ Len(f) >= 4 /\ ForUs(f) /\ Fc(f) \in Functions /\ FixedEnd(f) + 2 <= Len(f)
      /\ Len(f) = FixedEnd(f) + DataLen(f) + 2 /\ WholeData(f)
      /\ Word(f, Len(f) - 1) = Crc(SubSeq(f, 1, Len(f) - 2))
  BY DEF WholeRequest, FixedEnd, DataLen, WholeData
<1>2. FixedEnd(f) <= Len(f)
  <2>1. FixedEnd(f) \in Nat
    BY DEF FixedEnd, FixedLen
  <2> QED
    BY <1>1, <2>1
<1> QED
  BY <1>1, <1>2, LengthsAreNat

\* readUart gets what the frame has at that place, and what is left of the frame
\* stays on the line.
LEMMA ReadOn ==
  ASSUME Addressed, Reading, Receive, NEW f \in Seq(Byte), IsPrefix(f, buf \o line),
         Len(buf) + Need <= Len(f)
  PROVE  /\ Received \in Seq(Byte) /\ Len(Received) = Need /\ Need \in Nat
         /\ buf \o Received \in Seq(Byte) /\ Len(buf \o Received) = Len(buf) + Need
         /\ IsPrefix(f, (buf \o Received) \o line')
         /\ \A i \in 1..Len(buf) + Need : (buf \o Received)[i] = f[i]
         /\ \A i \in 1..Need : Received[i] = f[Len(buf) + i]
<1>1. /\ buf \in Seq(Byte) /\ line \in Seq(Byte) /\ line' \in Seq(Byte) /\ Need \in Nat
      /\ Received \in Seq(Byte) /\ Len(Received) = Need /\ Need <= Len(line)
  BY ReceivedBytes, NeedIsNat DEF Addressed, Receive
<1>2. (buf \o Received) \o line' = buf \o line
  BY <1>1, ReadMoves DEF Received, Receive
<1>3. /\ buf \o Received \in Seq(Byte) /\ Len(buf \o Received) = Len(buf) + Need
      /\ \A i \in 1..Need : (buf \o Received)[Len(buf) + i] = Received[i]
  <2> DEFINE r == Received
             n == Need
  <2>1. buf \in Seq(Byte) /\ r \in Seq(Byte) /\ Len(r) = n /\ n \in Nat
    BY <1>1
  <2> HIDE DEF r, n
  <2>2. /\ buf \o r \in Seq(Byte) /\ Len(buf \o r) = Len(buf) + n
        /\ \A i \in 1..n : (buf \o r)[Len(buf) + i] = r[i]
    BY <2>1
  <2> QED
    BY <2>2 DEF r, n
<1>4. \A i \in 1..Len(buf) + Need : (buf \o Received)[i] = ((buf \o Received) \o line')[i]
  <2> DEFINE msg == buf \o Received
  <2>1. msg \in Seq(Byte) /\ Len(msg) = Len(buf) + Need
    BY <1>3
  <2> HIDE DEF msg
  <2>2. \A i \in 1..Len(msg) : msg[i] = (msg \o line')[i]
    BY <1>1, <2>1
  <2> QED
    BY <2>1, <2>2 DEF msg
<1>5. buf \o line \in Seq(Byte)
  BY <1>1
<1>6. \A i \in 1..Len(f) : f[i] = (buf \o line)[i]
  BY <1>5, PrefixElements
<1>7. \A i \in 1..Len(buf) + Need : (buf \o Received)[i] = f[i]
  <2> DEFINE n == Need
             s == buf \o line
             t == buf \o Received
  <2>1. n \in Nat /\ Len(buf) \in Nat /\ Len(f) \in Nat /\ Len(buf) + n <= Len(f)
    BY <1>1
  <2>2. \A i \in 1..Len(buf) + n : t[i] = s[i]
    BY <1>2, <1>4, Zenon
  <2>3. \A i \in 1..Len(f) : f[i] = s[i]
    BY <1>6
  <2> HIDE DEF n, s, t
  <2>4. \A i \in 1..Len(buf) + n : t[i] = f[i]
    BY <2>1, <2>2, <2>3
  <2> QED
    BY <2>4 DEF n, s, t
<1>8. ASSUME NEW i \in 1..Need
      PROVE  Received[i] = f[Len(buf) + i]
  <2>1. Len(buf) + i \in 1..Len(buf) + Need
    BY <1>1
  <2> QED
    BY <1>3, <1>7, <2>1
<1> QED
  BY <1>1, <1>2, <1>3, <1>7, <1>8

\* The bytes of a frame are there when they are asked for: no read gives up.
LEMMA EnoughOnLine ==
  ASSUME buf \in Seq(Byte), line \in Seq(Byte), NEW f \in Seq(Byte), IsPrefix(f, buf \o line),
         NEW n \in Nat, Len(buf) + n <= Len(f)
  PROVE  Len(line) >= n
<1>1. buf \o line \in Seq(Byte) /\ Len(buf \o line) = Len(buf) + Len(line)
  OBVIOUS
<1>2. Len(f) <= Len(buf \o line)
  BY <1>1, PrefixElements
<1> QED
  BY <1>1, <1>2

\* More traffic behind a frame leaves it where it is.
LEMMA MoreOnLine ==
  ASSUME NEW b \in Seq(Byte), NEW l \in Seq(Byte), NEW g \in Seq(Byte), NEW f \in Seq(Byte),
         IsPrefix(f, b \o l)
  PROVE  IsPrefix(f, b \o (l \o g))
<1>1. b \o l \in Seq(Byte) /\ b \o (l \o g) \in Seq(Byte) /\ b \o (l \o g) = (b \o l) \o g
  OBVIOUS
<1> DEFINE s == b \o l
<1>2. s \in Seq(Byte) /\ b \o (l \o g) = s \o g /\ s \o g \in Seq(Byte) /\ IsPrefix(f, s)
  BY <1>1
<1> HIDE DEF s
<1>3. Len(f) <= Len(s) /\ \A i \in 1..Len(f) : f[i] = s[i]
  BY <1>2, PrefixElements
<1>4. Len(f) <= Len(s \o g) /\ \A i \in 1..Len(f) : f[i] = (s \o g)[i]
  BY <1>2, <1>3
<1> QED
  BY <1>2, <1>4, PrefixElements
-----------------------------------------------------------------------------
\* The unit of the frame is the first byte the server reads.
LEMMA KeptAtUnit ==
  ASSUME KeepInv, NEW f \in Seq(Byte), WholeRequest(f), IsPrefix(f, line), RecvUnit
  PROVE  InHand(f)'
<1>1. phase = "unit" /\ Reading /\ Receive /\ Addressed
  BY DEF RecvUnit, Reading, KeepInv, ServedInv
<1>2. buf = <<>> /\ line \in Seq(Byte) /\ Need = 1 /\ Len(<<>>) = 0
  BY <1>1, EmptySeq DEF Addressed, Need
<1>3. IsPrefix(f, buf \o line)
  BY <1>2, ConcatEmptySeq
<1>4. Len(f) >= 4 /\ ForUs(f)
  BY RequestFacts
<1>5. Len(buf) + Need <= Len(f) /\ Len(buf) + 1 = 1
  BY <1>2, <1>4
<1>6. IsPrefix(f, (buf \o Received) \o line') /\ Received[1] = f[1]
  <2>1. /\ IsPrefix(f, (buf \o Received) \o line')
        /\ \A i \in 1..Need : Received[i] = f[Len(buf) + i]
    BY <1>1, <1>3, <1>5, ReadOn
  <2>2. Received[1] = f[Len(buf) + 1]
    BY <1>2, <2>1
  <2> QED
    BY <1>5, <2>1, <2>2, Zenon
<1>7. ignored' = FALSE
  BY <1>4, <1>6 DEF RecvUnit, ForUs, Unit
<1>8. phase' = "fc" /\ buf' = buf \o Received
  BY DEF RecvUnit
<1> QED
  BY <1>6, <1>7, <1>8 DEF InHand, InRequest

\* A frame the server is reading, at a piece whose bytes are all part of it.
Continues(f) ==
  /\ phase \in InRequest /\ ~ignored
  /\ IsPrefix(f, buf \o line)

\* Both have the same bytes, as far as both go.
LEMMA BufferAgrees ==
  ASSUME KeepInv, NEW f \in Seq(Byte), Continues(f)
  PROVE  \A i \in 1..Len(buf) : i \in 1..Len(f) => buf[i] = f[i]
<1>1. buf \in Seq(Byte) /\ line \in Seq(Byte)
  BY DEF KeepInv, ServedInv, Addressed
<1>2. buf \o line \in Seq(Byte) /\ \A i \in 1..Len(buf) : (buf \o line)[i] = buf[i]
  BY <1>1
<1>3. \A i \in 1..Len(f) : f[i] = (buf \o line)[i]
  BY <1>2, PrefixElements DEF Continues
<1> QED
  BY <1>2, <1>3, Zenon

\* The next piece ends where the same piece of the frame ends.
LEMMA NextPiece ==
  ASSUME KeepInv, NEW f \in Seq(Byte), WholeRequest(f), Continues(f)
  PROVE  /\ buf \in Seq(Byte) /\ Len(buf) \in Nat /\ Need \in Nat /\ Len(buf) + Need <= Len(f)
         /\ phase = "fc" => Len(buf) = 1
         /\ phase # "fc" => Len(buf) >= 2 /\ Fc(buf) = Fc(f)
         /\ phase = "fixed" => Len(buf) + Need = FixedEnd(f)
         /\ phase = "data" => Len(buf) + Need = FixedEnd(f) + DataLen(f)
         /\ phase = "footer" => Len(buf) = Len(f) - 2
<1>1. /\ buf \in Seq(Byte) /\ Len(buf) \in Nat /\ Need \in Nat
      /\ phase \in {"fc", "fixed", "data", "footer"}
      /\ phase = "fc" => Len(buf) = 1
      /\ phase # "fc" => Len(buf) >= 2
      /\ phase = "fixed" => Len(buf) = 2
      /\ phase = "data" => HasData(Fc(buf)) /\ Len(buf) = FixedEnd(buf)
      /\ phase = "footer" => /\ FixedEnd(buf) <= Len(buf)
                             /\ WholeData(buf) => Len(buf) = FixedEnd(buf) + DataLen(buf)
  BY NeedIsNat DEF KeepInv, ServedInv, Addressed, Places, Continues, InRequest, Reading
<1>2. /\ FixedEnd(f) \in Nat /\ DataLen(f) \in Nat /\ FixedEnd(f) + 2 <= Len(f)
      /\ Len(f) = FixedEnd(f) + DataLen(f) + 2 /\ WholeData(f) /\ Len(f) \in Nat
      /\ FixedEnd(f) >= 3
  BY RequestFacts
<1>3. phase # "fc" => Fc(buf) = Fc(f) /\ FixedEnd(buf) = FixedEnd(f)
  <2>1. phase # "fc" => 2 \in 1..Len(buf) /\ 2 \in 1..Len(f)
    BY <1>1, <1>2
  <2> QED
    BY <2>1, BufferAgrees DEF Fc, FixedEnd
<1>4. phase \in {"data", "footer"} => DataLen(buf) = DataLen(f) /\ WholeData(buf)
  <2>1. SUFFICES ASSUME phase \in {"data", "footer"}
                 PROVE  DataLen(buf) = DataLen(f) /\ WholeData(buf)
    OBVIOUS
  <2>2. FixedEnd(f) \in 1..Len(buf) /\ FixedEnd(f) \in 1..Len(f)
    BY <1>1, <1>2, <1>3, <2>1
  <2>3. buf[FixedEnd(f)] = f[FixedEnd(f)]
    BY <2>2, BufferAgrees
  <2> QED
    BY <1>2, <1>3, <2>1, <2>3 DEF DataLen, WholeData
<1>5. CASE phase = "fc"
  <2>1. Need = 1 /\ Len(buf) = 1
    BY <1>1, <1>5 DEF Need
  <2> QED
    BY <1>1, <1>2, <1>5, <2>1
<1>6. CASE phase = "fixed"
  <2>1. Len(buf) + Need = FixedEnd(f)
    BY <1>1, <1>3, <1>6 DEF Need, FixedEnd
  <2> QED
    BY <1>1, <1>2, <1>3, <1>6, <2>1
<1>7. CASE phase = "data"
  <2>1. Need = DataLen(f)
    BY <1>1, <1>4, <1>7 DEF Need, DataLen
  <2> QED
    BY <1>1, <1>2, <1>3, <1>7, <2>1
<1>8. CASE phase = "footer"
  <2>1. Len(buf) = Len(f) - 2 /\ Need = 2
    BY <1>1, <1>2, <1>3, <1>4, <1>8 DEF Need
  <2> QED
    BY <1>1, <1>2, <1>3, <1>8, <2>1
<1> QED
  BY <1>1, <1>5, <1>6, <1>7, <1>8

LEMMA KeptAtFc ==
  ASSUME KeepInv, NEW f \in Seq(Byte), WholeRequest(f), Continues(f), RecvFc
  PROVE  InHand(f)'
<1>1. phase = "fc" /\ Reading /\ Receive /\ Addressed
  BY DEF RecvFc, Reading, KeepInv, ServedInv
<1>2. Len(buf) = 1 /\ Need = 1 /\ Len(buf) + Need <= Len(f)
  BY <1>1, NextPiece DEF Need
<1>3. Fc(f) \in Functions
  BY RequestFacts
<1>4. /\ IsPrefix(f, (buf \o Received) \o line')
      /\ \A i \in 1..Need : Received[i] = f[Len(buf) + i]
  BY <1>1, <1>2, ReadOn DEF Continues
<1>5. Received[1] = f[Len(buf) + 1]
  BY <1>2, <1>4
<1>6. Received[1] \in Functions
  BY <1>2, <1>3, <1>5 DEF Fc
<1>7. phase' = "fixed" /\ buf' = buf \o Received /\ ignored' = ignored
  BY <1>6 DEF RecvFc, NothingRead
<1> QED
  BY <1>4, <1>7 DEF InHand, InRequest, Continues

\* A read that brings whole data drops nothing.
LEMMA WholeKept ==
  ASSUME NEW msg \in Seq(Byte), Fc(msg) \in {16, 23}, FixedEnd(msg) <= Len(msg),
         Len(msg) = FixedEnd(msg) + DataLen(msg), WholeData(msg)
  PROVE  WholeRegisters(msg) = msg
<1>1. DataLen(msg) \in Nat /\ DataLen(msg) % 2 = 0
  BY LengthsAreNat DEF DataLen, WholeData, HasData, Writes
<1>2. FixedEnd(msg) \in {7, 11}
  BY DEF FixedEnd, FixedLen, Reads, Writes, FileFunctions
<1>3. Len(msg) % 2 # 0
  BY <1>1, <1>2
<1> QED
  BY <1>3 DEF WholeRegisters

LEMMA KeptAtBody ==
  ASSUME KeepInv, NEW f \in Seq(Byte), WholeRequest(f), Continues(f), RecvBody
  PROVE  InHand(f)'
<1>1. /\ phase \in {"fixed", "data"} /\ Reading /\ Receive /\ Addressed
  BY DEF RecvBody, Reading, KeepInv, ServedInv
<1>2. /\ FixedEnd(f) \in Nat /\ DataLen(f) \in Nat /\ WholeData(f) /\ Len(f) \in Nat
      /\ FixedEnd(f) >= 3
  BY RequestFacts
<1>3. /\ Len(buf) + Need <= Len(f) /\ Fc(buf) = Fc(f)
      /\ phase = "data" => Len(buf) + Need = FixedEnd(f) + DataLen(f)
  BY <1>1, NextPiece
<1> DEFINE msg == buf \o Received
<1>4. /\ msg \in Seq(Byte) /\ Len(msg) = Len(buf) + Need
      /\ IsPrefix(f, msg \o line')
      /\ \A i \in 1..Len(buf) + Need : msg[i] = f[i]
  BY <1>1, <1>3, ReadOn DEF Continues
<1>5. /\ buf' = IF phase = "data" /\ Fc(buf) \in {16, 23} THEN WholeRegisters(msg) ELSE msg
      /\ phase' \in {"data", "footer"} /\ ignored' = ignored
  BY DEF RecvBody, NothingRead
<1> HIDE DEF msg
<1>6. buf' = msg
  <2>1. CASE phase = "data" /\ Fc(buf) \in {16, 23}
    <3>1. /\ 2 <= Len(msg) /\ Len(msg) <= Len(f) /\ FixedEnd(f) <= Len(msg)
          /\ Len(msg) = FixedEnd(f) + DataLen(f)
      BY <1>2, <1>3, <1>4, <2>1
    <3>2. \A i \in 1..Len(msg) : msg[i] = f[i]
      BY <1>4, Zenon
    <3>3. /\ Fc(msg) = Fc(f) /\ FixedEnd(msg) = FixedEnd(f)
          /\ DataLen(msg) = DataLen(f) /\ WholeData(msg) = WholeData(f)
      BY <1>4, <3>1, <3>2, PartOf
    <3>4. WholeRegisters(msg) = msg
      BY <1>2, <1>3, <1>4, <2>1, <3>1, <3>3, WholeKept
    <3> QED
      BY <1>5, <2>1, <3>4
  <2>2. CASE ~(phase = "data" /\ Fc(buf) \in {16, 23})
    BY <1>5, <2>2
  <2> QED
    BY <2>1, <2>2
<1> QED
  BY <1>4, <1>5, <1>6 DEF InHand, InRequest, Continues

\* A response that is sent is the last one, and one more.
LEMMA OneMoreReply ==
  ASSUME IsSequence(replies), NEW msg, NEW response, replies' = Reply(msg, response)
  PROVE  Len(replies') = Len(replies) + 1 /\ Last(replies').to = msg
<1> DEFINE one == [to |-> msg, bytes |-> response]
<1>1. one.to = msg
  OBVIOUS
<1> HIDE DEF one
<1>2. replies' = Append(replies, one)
  BY DEF Reply, one
<1>3. PICK S : replies \in Seq(S)
  BY DEF IsSequence
<1>4. replies \in Seq(S \cup {one})
  BY <1>3
<1>5. /\ Len(Append(replies, one)) = Len(replies) + 1
      /\ Append(replies, one)[Len(Append(replies, one))] = one
  BY <1>4
<1> QED
  BY <1>1, <1>2, <1>5 DEF Last

\* Before its checksum the buffer holds all of the frame but that.
LEMMA AllButChecksum ==
  ASSUME KeepInv, NEW f \in Seq(Byte), WholeRequest(f), Continues(f), phase = "footer"
  PROVE  buf = SubSeq(f, 1, Len(f) - 2)
<1>1. buf \in Seq(Byte) /\ Len(buf) = Len(f) - 2 /\ Len(f) >= 4 /\ Len(f) \in Nat
  BY NextPiece, RequestFacts
<1>2. /\ SubSeq(f, 1, Len(f) - 2) \in Seq(Byte) /\ Len(SubSeq(f, 1, Len(f) - 2)) = Len(f) - 2
      /\ \A i \in 1..Len(f) - 2 : SubSeq(f, 1, Len(f) - 2)[i] = f[i]
  BY <1>1
<1>3. \A i \in 1..Len(buf) : buf[i] = SubSeq(f, 1, Len(f) - 2)[i]
  <2>1. \A i \in 1..Len(buf) : i \in 1..Len(f) /\ i \in 1..Len(f) - 2
    BY <1>1
  <2> QED
    BY <1>2, <2>1, BufferAgrees, Zenon
<1> QED
  BY <1>1, <1>2, <1>3, SeqEqual

LEMMA KeptAtFooter ==
  ASSUME KeepInv, NEW f \in Seq(Byte), WholeRequest(f), Continues(f), RecvFooter
  PROVE  InHand(f)' \/ Settled(f)
<1>1. /\ phase = "footer" /\ Reading /\ Receive /\ Addressed /\ ~ignored
      /\ buf \in Seq(Byte) /\ IsSequence(replies)
  BY DEF RecvFooter, RecvFooterBad, RecvFooterIgnored, RecvFooterRefused, RecvFooterAccepted,
         Reading, KeepInv, ServedInv, Addressed, Continues
<1>2. Len(buf) = Len(f) - 2 /\ buf = SubSeq(f, 1, Len(f) - 2) /\ Need = 2
  BY <1>1, AllButChecksum, NextPiece DEF Need
<1>3. Len(f) >= 4 /\ Len(f) \in Nat /\ Word(f, Len(f) - 1) = Crc(SubSeq(f, 1, Len(f) - 2))
  BY RequestFacts
<1>4. Len(buf) + Need = Len(f) /\ Len(buf) + Need <= Len(f)
  BY <1>2, <1>3
<1>5. /\ buf \o Received \in Seq(Byte) /\ Len(buf \o Received) = Len(f)
      /\ \A i \in 1..Len(f) : (buf \o Received)[i] = f[i]
      /\ Received[1] = f[Len(buf) + 1] /\ Received[2] = f[Len(buf) + 2]
  <2>1. /\ buf \o Received \in Seq(Byte) /\ Len(buf \o Received) = Len(buf) + Need
        /\ \A i \in 1..Len(buf) + Need : (buf \o Received)[i] = f[i]
        /\ \A i \in 1..Need : Received[i] = f[Len(buf) + i]
    BY <1>1, <1>4, ReadOn DEF Continues
  <2>2. 1 \in 1..Need /\ 2 \in 1..Need
    BY <1>2
  <2> QED
    BY <1>4, <2>1, <2>2, Zenon
<1>6. buf \o Received = f
  BY <1>5, SeqEqual
<1>7. CrcMatches
  <2>1. Len(f) - 1 = Len(buf) + 1 /\ (Len(f) - 1) + 1 = Len(buf) + 2 /\ 1 + 1 = 2
    BY <1>2, <1>3
  <2>2. Word(Received, 1) = Word(f, Len(f) - 1)
    BY <1>5, <2>1, Zenon DEF Word
  <2> QED
    BY <1>2, <1>3, <2>2, Zenon DEF CrcMatches
<1>8. CASE RecvFooterRefused
  <2>1. PICK code : replies' = Reply(buf \o Received, ExceptionResponse(buf, code))
    BY <1>8 DEF RecvFooterRefused
  <2>2. Len(replies') = Len(replies) + 1 /\ Last(replies').to = f
    BY <1>1, <1>6, <2>1, OneMoreReply
  <2>3. phase' = "returned"
    BY <1>8 DEF RecvFooterRefused, Return
  <2> QED
    BY <2>2, <2>3 DEF Settled
<1>9. CASE RecvFooterAccepted
  BY <1>6, <1>9 DEF RecvFooterAccepted, InHand
<1>10. ~RecvFooterBad /\ ~RecvFooterIgnored
  BY <1>1, <1>7 DEF RecvFooterBad, RecvFooterIgnored
<1> QED
  BY <1>8, <1>9, <1>10 DEF RecvFooter

\* The callback answers, except after a broadcast that it carried out.
LEMMA KeptAtCallback ==
  ASSUME KeepInv, NEW f, buf = f, AnyAnswer
  PROVE  Settled(f)
<1>1. PICK code, regs : Answer(code, regs)
  BY DEF AnyAnswer
<1>2. phase = "callback" /\ phase' = "returned" /\ IsSequence(replies)
  BY <1>1 DEF AnyAnswer, Answer, Return, KeepInv, ServedInv
<1>3. \/ Unit(f) = BROADCAST
      \/ \E response : replies' = Reply(f, response)
  BY <1>1 DEF Answer
<1> QED
  BY <1>2, <1>3, OneMoreReply DEF Settled

\* While bytes of the frame are still to come, the wait for them is not in vain.
LEMMA NoTimeout ==
  ASSUME KeepInv, NEW f \in Seq(Byte), WholeRequest(f),
         Continues(f) \/ (phase = "unit" /\ IsPrefix(f, line)), Timeout
  PROVE  FALSE
<1>1. /\ buf \in Seq(Byte) /\ line \in Seq(Byte) /\ Len(line) < Need /\ Len(line) \in Nat
      /\ phase = "unit" => buf = <<>>
  BY DEF Timeout, GiveUp, KeepInv, ServedInv, Addressed
<1>2. Need \in Nat /\ Len(buf) + Need <= Len(f) /\ IsPrefix(f, buf \o line)
  <2>1. CASE Continues(f)
    BY <2>1, NextPiece DEF Continues
  <2>2. CASE phase = "unit" /\ IsPrefix(f, line)
    <3>1. Len(buf) = 0 /\ Need = 1 /\ buf \o line = line
      BY <1>1, <2>2, EmptySeq, ConcatEmptySeq DEF Need
    <3>2. Len(f) >= 4
      BY RequestFacts
    <3> QED
      BY <2>2, <3>1, <3>2
  <2> QED
    BY <2>1, <2>2
<1>3. Len(line) >= Need
  BY <1>1, <1>2, EnoughOnLine
<1> QED
  BY <1>1, <1>2, <1>3
-----------------------------------------------------------------------------
\* A step that neither loses bytes nor restarts keeps hold of the frame or answers it.
LEMMA RequestKeptStep ==
  ASSUME KeepInv, NEW f \in Seq(Byte), WholeRequest(f), InHand(f), [AnyNext]_vars,
         faults' = faults, restarts' = restarts
  PROVE  InHand(f)' \/ Settled(f)
<1>1. /\ buf \in Seq(Byte) /\ line \in Seq(Byte) /\ faults \in Nat /\ restarts \in Nat
      /\ phase = "unit" => buf = <<>>
  BY DEF KeepInv, ServedInv, Addressed, Counted
<1>2. Continues(f) \/ (phase = "unit" /\ IsPrefix(f, line)) \/ (phase = "callback" /\ buf = f)
  BY DEF InHand, Continues
<1>3. CASE RecvUnit
  BY <1>2, <1>3, KeptAtUnit DEF RecvUnit, Continues, InRequest
<1>4. CASE RecvFc \/ RecvBody \/ RecvFooter
  <2>1. Continues(f)
    BY <1>2, <1>4 DEF RecvFc, RecvBody, RecvFooter, RecvFooterBad, RecvFooterIgnored,
                      RecvFooterRefused, RecvFooterAccepted
  <2> QED
    BY <1>4, <2>1, KeptAtFc, KeptAtBody, KeptAtFooter
<1>5. CASE AnyAnswer
  BY <1>2, <1>5, KeptAtCallback DEF AnyAnswer, Continues, InRequest
<1>6. ~(RecvResUnit \/ RecvResFc \/ RecvResBody \/ RecvResFooter \/ FlushFull \/ Poll)
  BY <1>2 DEF RecvResUnit, RecvResFc, RecvResBody, RecvResFooter, FlushFull, Poll, Continues,
              InRequest
<1>7. ~Timeout
  <2>1. ASSUME Timeout
        PROVE  FALSE
    <3>1. phase # "callback"
      BY <2>1 DEF Timeout, GiveUp, Reading
    <3> QED
      BY <1>2, <2>1, <3>1, NoTimeout
  <2> QED
    BY <2>1
<1>8. CASE \E frame \in Frames : Send(frame)
  <2>1. PICK g \in Frames : Send(g)
    BY <1>8
  <2>2. g \in Seq(Byte)
    BY FramesAssumption
  <2>3. line' = line \o g /\ phase' = phase /\ buf' = buf /\ ignored' = ignored
    BY <2>1 DEF Send, serverVars
  <2>4. CASE Continues(f)
    BY <1>1, <2>2, <2>3, <2>4, MoreOnLine DEF Continues, InHand
  <2>5. CASE phase = "unit" /\ IsPrefix(f, line)
    <3>1. IsPrefix(f, buf \o line)
      BY <1>1, <2>5, ConcatEmptySeq
    <3>2. IsPrefix(f, buf \o (line \o g))
      BY <1>1, <2>2, <3>1, MoreOnLine
    <3>3. line \o g \in Seq(Byte)
      BY <1>1, <2>2
    <3>4. IsPrefix(f, line \o g)
      BY <1>1, <2>5, <3>2, <3>3, ConcatEmptySeq
    <3> QED
      BY <2>3, <2>5, <3>4 DEF InHand
  <2>6. CASE phase = "callback" /\ buf = f
    BY <2>3, <2>6 DEF InHand
  <2> QED
    BY <1>2, <2>4, <2>5, <2>6
<1>9. CASE StartAnew
  <2>1. phase = "unit" /\ line = <<>>
    BY <1>9 DEF StartAnew
  <2>2. IsPrefix(f, line)
    BY <1>2, <2>1 DEF Continues, InRequest
  <2>3. Len(f) <= Len(line) /\ Len(line) = 0 /\ Len(f) >= 4
    BY <1>1, <2>1, <2>2, PrefixElements, RequestFacts, EmptySeq
  <2> QED
    BY <2>3
<1>10. ~Disturb /\ ~Overflow /\ ~Restart
  BY <1>1 DEF Disturb, Overflow, Fault, Restart
<1>11. CASE UNCHANGED vars
  BY <1>11 DEF vars, serverVars, InHand
<1> QED
  BY <1>3, <1>4, <1>5, <1>6, <1>7, <1>8, <1>9, <1>10, <1>11 DEF AnyNext, ServerStep, Bus
-----------------------------------------------------------------------------
\* What is read comes behind what the buffer holds.
LEMMA ReadBehind ==
  ASSUME Addressed, Reading, Receive
  PROVE  /\ buf \in Seq(Byte) /\ Need \in Nat /\ Len(buf) \in Nat
         /\ buf \o Received \in Seq(Byte) /\ Len(buf \o Received) = Len(buf) + Need
         /\ \A i \in 1..Len(buf) : (buf \o Received)[i] = buf[i]
<1> DEFINE r == Received
           n == Need
<1>1. buf \in Seq(Byte) /\ r \in Seq(Byte) /\ Len(r) = n /\ n \in Nat /\ Len(buf) \in Nat
  BY ReceivedBytes, NeedIsNat DEF Addressed
<1> HIDE DEF r, n
<1>2. /\ buf \o r \in Seq(Byte) /\ Len(buf \o r) = Len(buf) + n
      /\ \A i \in 1..Len(buf) : (buf \o r)[i] = buf[i]
  BY <1>1
<1> QED
  BY <1>1, <1>2 DEF r, n

\* An odd last byte is left out only of data that is not whole.
LEMMA OddByteLeftOut ==
  ASSUME NEW msg \in Seq(Byte), Fc(msg) \in {16, 23}, FixedEnd(msg) <= Len(msg),
         Len(msg) = FixedEnd(msg) + DataLen(msg)
  PROVE  LET whole == WholeRegisters(msg)
         IN  /\ Fc(whole) = Fc(msg) /\ Len(whole) >= 2
             /\ FixedEnd(whole) <= Len(whole)
             /\ WholeData(whole) => Len(whole) = FixedEnd(whole) + DataLen(whole)
<1>1. FixedEnd(msg) \in {7, 11}
  BY DEF FixedEnd, FixedLen, Reads, Writes, FileFunctions
<1>2. /\ DataLen(msg) \in Nat /\ HasData(Fc(msg)) /\ DataLen(msg) = msg[FixedEnd(msg)]
      /\ FixedEnd(msg) \in Nat /\ FixedEnd(msg) >= 3
  BY LengthsAreNat DEF DataLen, HasData, Writes
<1>3. CASE WholeData(msg)
  <2>1. WholeRegisters(msg) = msg
    BY <1>3, WholeKept
  <2> QED
    BY <1>1, <2>1
<1>4. CASE ~WholeData(msg)
  <2>1. DataLen(msg) % 2 # 0
    BY <1>2, <1>4 DEF WholeData
  <2>2. DataLen(msg) % 2 = 1 /\ DataLen(msg) >= 1
    <3>1. \A data \in Nat : data % 2 # 0 => data % 2 = 1 /\ data >= 1
      OBVIOUS
    <3>2. DataLen(msg) \in Nat
      BY <1>2
    <3> QED
      BY <2>1, <3>1, <3>2, Zenon
  <2>3. Len(msg) % 2 = 0 /\ Len(msg) \in Nat /\ Len(msg) >= 8 /\ FixedEnd(msg) <= Len(msg) - 1
    <3>1. \A end \in {7, 11}, data \in Nat : data % 2 = 1 =>
            /\ (end + data) % 2 = 0 /\ end + data \in Nat /\ end + data >= 8
            /\ end <= (end + data) - 1
      OBVIOUS
    <3>2. /\ (FixedEnd(msg) + DataLen(msg)) % 2 = 0 /\ FixedEnd(msg) + DataLen(msg) \in Nat
          /\ FixedEnd(msg) + DataLen(msg) >= 8
          /\ FixedEnd(msg) <= (FixedEnd(msg) + DataLen(msg)) - 1
      BY <1>1, <1>2, <2>2, <3>1, Zenon
    <3> QED
      BY <3>2
  <2> DEFINE whole == SubSeq(msg, 1, Len(msg) - 1)
  <2>4. WholeRegisters(msg) = whole
    BY <2>3 DEF WholeRegisters
  <2>5. /\ whole \in Seq(Byte) /\ Len(whole) = Len(msg) - 1
        /\ \A i \in 1..Len(msg) - 1 : whole[i] = msg[i]
    BY <2>3
  <2> HIDE DEF whole
  <2>6. 2 \in 1..Len(msg) - 1 /\ FixedEnd(msg) \in 1..Len(msg) - 1
    BY <1>2, <2>3
  <2>7. Fc(whole) = Fc(msg) /\ whole[FixedEnd(msg)] = msg[FixedEnd(msg)]
    BY <2>5, <2>6, Zenon DEF Fc
  <2>8. FixedEnd(whole) = FixedEnd(msg)
    BY <2>7, Zenon DEF FixedEnd
  <2>9. ~WholeData(whole)
    BY <1>4, <2>7, <2>8, Zenon DEF WholeData
  <2>10. Len(whole) >= 2 /\ FixedEnd(whole) <= Len(whole)
    BY <2>3, <2>5, <2>8
  <2> QED
    BY <2>4, <2>7, <2>9, <2>10
<1> QED
  BY <1>3, <1>4

\* Every piece of a request that is read brings the buffer to the place where the
\* next one begins.
LEMMA PlacesKept ==
  ASSUME ServedInv, Places, [AnyNext]_vars
  PROVE  Places'
<1>1. Addressed /\ buf \in Seq(Byte) /\ phase \in Phases
  BY DEF ServedInv, Addressed
<1>2. CASE RecvUnit
  <2>1. phase = "unit" /\ Reading /\ Receive /\ phase' = "fc" /\ buf' = buf \o Received
    BY <1>2 DEF RecvUnit, Reading
  <2>2. Len(buf) = 0 /\ Need = 1
    BY <1>1, <2>1, EmptySeq DEF Addressed, Need
  <2>3. Len(buf') = 1
    BY <1>1, <2>1, <2>2, ReadBehind
  <2> QED
    BY <2>1, <2>3 DEF Places
<1>3. CASE RecvFc
  <2>1. phase = "fc" /\ Reading /\ Receive /\ buf' = buf \o Received
        /\ phase' \in {"fixed", "returned"} /\ (phase' = "fixed" => Received[1] \in Functions)
    BY <1>3 DEF RecvFc, Reading, Return
  <2>2. Len(buf) = 1 /\ Need = 1
    BY <2>1 DEF Places, Need
  <2>3. Received \in Seq(Byte) /\ Len(Received) = 1
    BY <1>1, <2>1, <2>2, ReceivedBytes
  <2>4. Len(buf \o Received) = 2 /\ (buf \o Received)[2] = Received[1]
    <3>1. ASSUME NEW s \in Seq(Byte), NEW t \in Seq(Byte), Len(s) = 1, Len(t) = 1
          PROVE  Len(s \o t) = 2 /\ (s \o t)[2] = t[1]
      <4>1. \A i \in 1..Len(t) : (s \o t)[Len(s) + i] = t[i]
        OBVIOUS
      <4>2. Len(s \o t) = 1 + 1
        BY <3>1
      <4>3. 1 \in 1..1
        OBVIOUS
      <4>4. (s \o t)[1 + 1] = t[1]
        BY <3>1, <4>1, <4>3, Zenon
      <4>5. 1 + 1 = 2
        OBVIOUS
      <4> QED
        BY <4>2, <4>4, <4>5, Zenon
    <3> QED
      BY <1>1, <2>2, <2>3, <3>1, Zenon
  <2> QED
    BY <2>1, <2>4 DEF Places, Fc
<1>4. CASE RecvBody
  <2> DEFINE msg == buf \o Received
  <2>1. /\ Reading /\ Receive /\ phase \in {"fixed", "data"}
        /\ buf' = IF phase = "data" /\ Fc(buf) \in {16, 23} THEN WholeRegisters(msg) ELSE msg
        /\ phase' = IF phase = "fixed" /\ HasData(Fc(buf)) THEN "data" ELSE "footer"
    BY <1>4 DEF RecvBody, Reading
  <2>2. /\ msg \in Seq(Byte) /\ Len(msg) = Len(buf) + Need /\ Need \in Nat /\ Len(buf) \in Nat
        /\ \A i \in 1..Len(buf) : msg[i] = buf[i]
    BY <1>1, <2>1, ReadBehind
  <2> HIDE DEF msg
  <2>3. Len(buf) >= 2 /\ Fc(buf) \in Functions
    BY <2>1 DEF Places
  <2>4. Fc(msg) = Fc(buf) /\ FixedEnd(msg) = FixedEnd(buf) /\ Len(msg) >= 2
    <3>1. 2 \in 1..Len(buf) /\ Len(msg) >= 2
      BY <2>2, <2>3
    <3> QED
      BY <2>2, <3>1 DEF Fc, FixedEnd
  <2>5. CASE phase = "fixed"
    <3>1. Len(buf) = 2 /\ Need = FixedLen(Fc(buf)) /\ buf' = msg
      BY <2>1, <2>5 DEF Places, Need
    <3>2. Len(msg) = FixedEnd(msg)
      BY <2>2, <2>4, <3>1 DEF FixedEnd
    <3>3. CASE HasData(Fc(msg))
      BY <2>1, <2>3, <2>4, <2>5, <3>1, <3>2, <3>3 DEF Places
    <3>4. CASE ~HasData(Fc(msg))
      <4>1. DataLen(msg) = 0 /\ phase' = "footer"
        BY <2>1, <2>4, <2>5, <3>4 DEF DataLen
      <4> QED
        BY <2>2, <2>3, <2>4, <3>1, <3>2, <4>1 DEF Places
    <3> QED
      BY <3>3, <3>4
  <2>6. CASE phase = "data"
    <3>1. HasData(Fc(buf)) /\ Len(buf) = FixedEnd(buf) /\ Need = buf[Len(buf)]
      BY <2>6 DEF Places, Need
    <3>2. msg[Len(buf)] = buf[Len(buf)]
      <4>1. Len(buf) \in 1..Len(buf)
        BY <2>2, <2>3
      <4> QED
        BY <2>2, <4>1
    <3>3. DataLen(msg) = Need
      BY <2>4, <3>1, <3>2 DEF DataLen
    <3>4. FixedEnd(msg) <= Len(msg) /\ Len(msg) = FixedEnd(msg) + DataLen(msg)
      BY <2>2, <2>4, <3>1, <3>3
    <3>5. phase' = "footer"
      BY <2>1, <2>6
    <3>6. CASE Fc(msg) \in {16, 23}
      <4>1. buf' = WholeRegisters(msg)
        BY <2>1, <2>4, <2>6, <3>6
      <4> QED
        BY <2>2, <2>3, <2>4, <3>4, <3>5, <3>6, <4>1, OddByteLeftOut DEF Places
    <3>7. CASE Fc(msg) \notin {16, 23}
      <4>1. buf' = msg
        BY <2>1, <2>4, <2>6, <3>7
      <4> QED
        BY <2>3, <2>4, <3>4, <3>5, <4>1 DEF Places
    <3> QED
      BY <3>6, <3>7
  <2> QED
    BY <2>1, <2>5, <2>6
<1>5. CASE \/ RecvFooter \/ Poll \/ Timeout \/ FlushFull \/ AnyAnswer \/ Restart
           \/ RecvResUnit \/ RecvResFc \/ RecvResBody \/ RecvResFooter
  <2>1. phase' \notin {"fc", "fixed", "data", "footer"}
    BY <1>5 DEF RecvFooter, RecvFooterBad, RecvFooterIgnored, RecvFooterRefused,
                RecvFooterAccepted, Fail, Poll, Timeout, FlushFull, AnyAnswer, Answer, Return,
                Restart, Started, RecvResUnit, RecvResFc, RecvResBody, RecvResFooter
  <2> QED
    BY <2>1 DEF Places
<1>6. CASE Bus \/ UNCHANGED vars
  <2>1. phase' = phase /\ buf' = buf
    BY <1>6 DEF Bus, Send, Disturb, Overflow, Fault, StartAnew, vars, serverVars
  <2> QED
    BY <2>1 DEF Places, FixedEnd, WholeData, DataLen
<1> QED
  BY <1>2, <1>3, <1>4, <1>5, <1>6 DEF AnyNext, ServerStep

LEMMA CountedKept ==
  ASSUME Counted, [AnyNext]_vars
  PROVE  Counted'
<1>1. CASE ServerStep \/ AnyAnswer \/ UNCHANGED vars
  BY <1>1 DEF Counted, ServerStep, RecvUnit, RecvFc, RecvBody, RecvFooter, RecvFooterBad,
              RecvFooterIgnored, RecvFooterRefused, RecvFooterAccepted, RecvResUnit, RecvResFc,
              RecvResBody, RecvResFooter, Poll, Timeout, GiveUp, FlushFull, AnyAnswer, Answer,
              busVars, vars
<1>2. CASE Bus \/ Restart
  BY <1>2 DEF Counted, Bus, Send, Disturb, Overflow, Fault, StartAnew, Restart
<1> QED
  BY <1>1, <1>2 DEF AnyNext

LEMMA KeepInductive ==
  /\ Init => KeepInv
  /\ KeepInv /\ [AnyNext]_vars => KeepInv'
<1>1. ASSUME Init PROVE KeepInv
  BY <1>1, InitServed DEF Init, KeepInv, Places, Counted
<1>2. KeepInv /\ [AnyNext]_vars => KeepInv'
  BY ServedKept, PlacesKept, CountedKept DEF KeepInv
<1> QED
  BY <1>1, <1>2

\* A step keeps hold of every whole request.
LEMMA RequestsKept ==
  ASSUME KeepInv, [AnyNext]_vars
  PROVE  faults' = faults /\ restarts' = restarts =>
           \A frame \in Requests : InHand(frame) => InHand(frame)' \/ Settled(frame)
<1>1. \A frame \in Requests : frame \in Seq(Byte) /\ WholeRequest(frame)
  BY FramesAssumption DEF Requests
<1> QED
  BY <1>1, RequestKeptStep

\* A whole request that is at the head of the line when the server begins to read
\* is answered, or a broadcast carried out, whatever was read before it, whatever
\* comes behind it and whatever the callback returns: every read of it gets its
\* bytes, the checksum fits, and neither a timeout nor a flush comes in between
\* (nmbs_server_poll, recv_req_header, recv_msg_footer and the handlers).
THEOREM RequestKeptHolds == Spec => RequestKept
<1>1. KeepInv /\ [Next]_vars => KeepInv'
  BY NextIsAny, KeepInductive
<1>2. KeepInv /\ [Next]_vars =>
        [faults' = faults /\ restarts' = restarts =>
           \A frame \in Requests : InHand(frame) => InHand(frame)' \/ Settled(frame)]_vars
  BY NextIsAny, RequestsKept
<1> QED
  BY <1>1, <1>2, KeepInductive, PTL DEF Spec, RequestKept
-----------------------------------------------------------------------------
(***************************************************************************)
(* Every acknowledgement has a run of its own.                             *)
(***************************************************************************)
Acks(answers) == {i \in DOMAIN answers : answers[i].bytes[2] = Fc(answers[i].to)}

\* The i-th answer, if it is no exception, is that of callback run[i], one of the
\* first n.
Fits(run, answers, runs, n) ==
  /\ run \in [Acks(answers) -> 1..n]
  /\ \A i \in Acks(answers) : runs[run[i]] = answers[i].to
  /\ \A i, j \in Acks(answers) : i < j => run[i] < run[j]

\* More callbacks leave those of the answers where they are.
LEMMA FitsLonger ==
  ASSUME NEW run, NEW answers, NEW runs, NEW n \in Nat, Fits(run, answers, runs, n),
         NEW m \in Nat, n <= m, NEW more, \A k \in 1..n : more[k] = runs[k]
  PROVE  Fits(run, answers, more, m)
<1>1. run \in [Acks(answers) -> 1..m]
  <2>1. 1..n \subseteq 1..m
    OBVIOUS
  <2> QED
    BY <2>1 DEF Fits
<1>2. \A i \in Acks(answers) : run[i] \in 1..n
  BY DEF Fits
<1> QED
  BY <1>1, <1>2 DEF Fits

\* One more answer is the last one, and leaves the others where they are.
LEMMA AnswersBefore ==
  ASSUME NEW answers, IsSequence(answers), NEW one
  PROVE  /\ Len(answers) + 1 \in Nat /\ Len(answers) + 1 \notin DOMAIN answers
         /\ DOMAIN Append(answers, one) = (DOMAIN answers) \cup {Len(answers) + 1}
         /\ Append(answers, one)[Len(answers) + 1] = one
         /\ \A i \in DOMAIN answers :
              i \in Nat /\ i < Len(answers) + 1 /\ Append(answers, one)[i] = answers[i]
<1>1. PICK S : answers \in Seq(S)
  BY DEF IsSequence
<1>2. answers \in Seq(S \cup {one})
  BY <1>1
<1> DEFINE more == Append(answers, one)
           last == Len(answers) + 1
<1>3. /\ last \in Nat /\ DOMAIN answers = 1..Len(answers) /\ DOMAIN more = 1..last
      /\ more[last] = one /\ \A i \in 1..Len(answers) : more[i] = answers[i]
      /\ Len(answers) \in Nat
  BY <1>2
<1> HIDE DEF more
<1>4. DOMAIN more = (DOMAIN answers) \cup {last} /\ last \notin DOMAIN answers
  BY <1>3
<1>5. \A i \in DOMAIN answers : i \in Nat /\ i < last /\ more[i] = answers[i]
  BY <1>3
<1> QED
  BY <1>3, <1>4, <1>5 DEF more

\* It is an acknowledgement, or an exception.
LEMMA AcksOneMore ==
  ASSUME NEW answers, IsSequence(answers), NEW one
  PROVE  Acks(Append(answers, one)) =
           Acks(answers) \cup (IF one.bytes[2] = Fc(one.to) THEN {Len(answers) + 1} ELSE {})
<1> DEFINE more == Append(answers, one)
           last == Len(answers) + 1
<1>1. DOMAIN more = (DOMAIN answers) \cup {last} /\ last \notin DOMAIN answers /\ more[last] = one
  BY AnswersBefore
<1>2. \A i \in DOMAIN answers : more[i] = answers[i]
  BY AnswersBefore
<1> HIDE DEF more, last
<1>3. Acks(more) = Acks(answers) \cup (IF one.bytes[2] = Fc(one.to) THEN {last} ELSE {})
  BY <1>1, <1>2 DEF Acks
<1> QED
  BY <1>3 DEF more, last

\* An exception needs no callback.
LEMMA FitsException ==
  ASSUME NEW run, NEW answers, IsSequence(answers), NEW runs, NEW n,
         Fits(run, answers, runs, n), NEW one, one.bytes[2] # Fc(one.to)
  PROVE  Fits(run, Append(answers, one), runs, n)
<1> DEFINE more == Append(answers, one)
<1>1. Acks(more) = Acks(answers) /\ \A i \in Acks(answers) : more[i] = answers[i]
  <2>1. \A i \in DOMAIN answers : more[i] = answers[i]
    BY AnswersBefore
  <2>2. Acks(more) = Acks(answers)
    BY AcksOneMore
  <2> QED
    BY <2>1, <2>2 DEF Acks
<1> HIDE DEF more
<1>2. Fits(run, more, runs, n)
  BY <1>1 DEF Fits
<1> QED
  BY <1>2 DEF more

\* An acknowledgement takes the next callback.
LEMMA FitsAcknowledgement ==
  ASSUME NEW run, NEW answers, IsSequence(answers), NEW runs, NEW n \in Nat,
         Fits(run, answers, runs, n), NEW one, one.bytes[2] = Fc(one.to), runs[n + 1] = one.to
  PROVE  \E longer : Fits(longer, Append(answers, one), runs, n + 1)
<1> DEFINE more   == Append(answers, one)
           last   == Len(answers) + 1
<1>1. /\ Acks(more) = Acks(answers) \cup {last} /\ last \in Nat /\ more[last] = one
      /\ \A i \in Acks(answers) : i \in Nat /\ i < last /\ more[i] = answers[i]
  <2>1. Acks(more) = Acks(answers) \cup {last}
    BY AcksOneMore
  <2>2. last \in Nat /\ more[last] = one
    BY AnswersBefore
  <2>3. \A i \in DOMAIN answers : i \in Nat /\ i < last /\ more[i] = answers[i]
    BY AnswersBefore
  <2>4. Acks(answers) \subseteq DOMAIN answers
    BY DEF Acks
  <2> QED
    BY <2>1, <2>2, <2>3, <2>4, Zenon
<1>2. last \notin Acks(answers)
  BY <1>1
<1> HIDE DEF more, last
<1> DEFINE longer == [i \in Acks(more) |-> IF i \in Acks(answers) THEN run[i] ELSE n + 1]
<1>3. \A i \in Acks(answers) : longer[i] = run[i] /\ run[i] \in 1..n
  <2>1. \A i \in Acks(answers) : longer[i] = run[i]
    BY <1>1
  <2>2. \A i \in Acks(answers) : run[i] \in 1..n
    BY DEF Fits
  <2> QED
    BY <2>1, <2>2, Zenon
<1>4. longer[last] = n + 1
  BY <1>1, <1>2
<1>5. longer \in [Acks(more) -> 1..n + 1]
  <2>1. \A i \in Acks(answers) : run[i] \in 1..n + 1
    <3>1. 1..n \subseteq 1..n + 1
      OBVIOUS
    <3> QED
      BY <1>3, <3>1, Zenon
  <2>2. n + 1 \in 1..n + 1
    OBVIOUS
  <2> QED
    BY <1>1, <2>1, <2>2
<1> HIDE DEF longer
<1>6. \A i \in Acks(more) : runs[longer[i]] = more[i].to
  <2>1. \A i \in Acks(answers) : runs[run[i]] = answers[i].to
    BY DEF Fits
  <2>2. \A i \in Acks(answers) : runs[longer[i]] = more[i].to
    BY <1>1, <1>3, <2>1, Zenon
  <2>3. runs[longer[last]] = more[last].to
    BY <1>1, <1>4
  <2> QED
    BY <1>1, <2>2, <2>3
<1>7. \A i, j \in Acks(more) : i < j => longer[i] < longer[j]
  <2>1. SUFFICES ASSUME NEW i \in Acks(more), NEW j \in Acks(more), i < j
                 PROVE  longer[i] < longer[j]
    OBVIOUS
  <2>2. i \in Acks(answers)
    BY <1>1, <2>1
  <2>3. CASE j \in Acks(answers)
    BY <1>3, <2>1, <2>2, <2>3 DEF Fits
  <2>4. CASE j = last
    BY <1>3, <1>4, <2>2, <2>4
  <2> QED
    BY <1>1, <2>3, <2>4
<1> QED
  BY <1>5, <1>6, <1>7 DEF Fits, more

\* The callbacks that have returned, or ended with a restart.
RunsDone == IF phase = "callback" THEN Len(ran) - 1 ELSE Len(ran)

RunsInv ==
  /\ phase = "callback" => ran # <<>> /\ ran[Len(ran)] = buf
  /\ \E run : Fits(run, replies, ran, RunsDone)

FollowInv == ServedInv /\ Shape /\ RunsInv

LEMMA RunsDoneIsNat ==
  ASSUME ServedInv, RunsInv
  PROVE  RunsDone \in Nat /\ Len(ran) \in Nat /\ RunsDone <= Len(ran)
<1>1. PICK S : ran \in Seq(S)
  BY DEF ServedInv, IsSequence
<1> QED
  BY <1>1, EmptySeq DEF RunsInv, RunsDone

\* A request that is refused is answered by an exception.
LEMMA RefusedFits ==
  ASSUME FollowInv, RecvFooterRefused
  PROVE  RunsInv'
<1>1. /\ phase = "footer" /\ Reading /\ Receive /\ phase' = "returned" /\ ran' = ran
      /\ ServedInv /\ Shape /\ RunsInv /\ Addressed /\ IsSequence(replies)
  BY DEF RecvFooterRefused, Return, Reading, FollowInv, ServedInv
<1>2. PICK code : replies' = Reply(buf \o Received, ExceptionResponse(buf, code))
  BY DEF RecvFooterRefused
<1> DEFINE one == [to |-> buf \o Received, bytes |-> ExceptionResponse(buf, code)]
<1>3. Len(buf) >= 2 /\ buf \in Seq(Byte) /\ Received \in Seq(Byte)
  BY <1>1, ReceivedBytes DEF Shape, Addressed
<1>4. Fc(buf \o Received) = Fc(buf) /\ Fc(buf) \in Nat
  <2>1. 2 \in 1..Len(buf)
    BY <1>3
  <2>2. buf[2] \in Byte
    BY <1>3, <2>1, ElementOfSeq
  <2>3. Byte \subseteq Nat
    BY DEF Byte
  <2>4. Fc(buf) \in Nat
    BY <2>2, <2>3 DEF Fc
  <2>5. Fc(buf \o Received) = Fc(buf)
    BY <1>3, SameFunction
  <2> QED
    BY <2>4, <2>5
<1>5. one.to = buf \o Received /\ one.bytes[2] = Fc(buf) + 128
  BY ExceptionRepeats
<1>6. one.bytes[2] # Fc(one.to)
  BY <1>4, <1>5
<1>7. replies' = Append(replies, one)
  BY <1>2 DEF Reply
<1> HIDE DEF one
<1>8. PICK run : Fits(run, replies, ran, RunsDone)
  BY <1>1 DEF RunsInv
<1>9. RunsDone' = RunsDone
  BY <1>1 DEF RunsDone
<1>10. Fits(run, replies', ran', RunsDone')
  BY <1>1, <1>6, <1>7, <1>8, <1>9, FitsException
<1> QED
  BY <1>1, <1>10 DEF RunsInv

\* The callback that has returned is the one its response belongs to.
LEMMA AnswerFits ==
  ASSUME FollowInv, AnyAnswer
  PROVE  RunsInv'
<1>1. PICK code, regs : Answer(code, regs)
  BY DEF AnyAnswer
<1>2. /\ phase = "callback" /\ phase' = "returned" /\ ran' = ran
      /\ ServedInv /\ Shape /\ RunsInv /\ IsSequence(replies) /\ buf \in Seq(Byte)
  BY <1>1 DEF AnyAnswer, Answer, Return, FollowInv, ServedInv, Addressed
<1>3. PICK run : Fits(run, replies, ran, RunsDone)
  BY <1>2 DEF RunsInv
<1>4. /\ RunsDone \in Nat /\ Len(ran) \in Nat /\ RunsDone + 1 = Len(ran) /\ RunsDone' = Len(ran)
      /\ ran[RunsDone + 1] = buf
  BY <1>2, RunsDoneIsNat DEF RunsDone, RunsInv
<1>5. Fits(run, replies, ran, Len(ran))
  BY <1>3, <1>4, FitsLonger
<1>6. \E longer : Fits(longer, replies', ran, Len(ran))
  <2>1. CASE replies' = replies
    BY <1>5, <2>1
  <2>2. ASSUME NEW response, replies' = Reply(buf, response)
        PROVE  \E longer : Fits(longer, replies', ran, Len(ran))
    <3> DEFINE one == [to |-> buf, bytes |-> response]
    <3>1. replies' = Append(replies, one) /\ one.to = buf
      BY <2>2 DEF Reply
    <3> HIDE DEF one
    <3>2. CASE one.bytes[2] = Fc(one.to)
      BY <1>2, <1>3, <1>4, <3>1, <3>2, FitsAcknowledgement
    <3>3. CASE one.bytes[2] # Fc(one.to)
      BY <1>2, <1>5, <3>1, <3>3, FitsException
    <3> QED
      BY <3>2, <3>3
  <2> QED
    BY <1>1, <2>1, <2>2 DEF Answer
<1> QED
  BY <1>2, <1>4, <1>6 DEF RunsInv

LEMMA RunsKept ==
  ASSUME FollowInv, [AnyNext]_vars
  PROVE  RunsInv'
<1>1. /\ ServedInv /\ Shape /\ RunsInv /\ IsSequence(ran)
      /\ RunsDone \in Nat /\ Len(ran) \in Nat /\ RunsDone <= Len(ran)
  BY RunsDoneIsNat DEF FollowInv, ServedInv
<1>2. PICK run : Fits(run, replies, ran, RunsDone)
  BY <1>1 DEF RunsInv
<1>3. CASE RecvFooterRefused
  BY <1>3, RefusedFits
<1>4. CASE AnyAnswer
  BY <1>4, AnswerFits
<1>5. CASE RecvFooterAccepted
  <2>1. /\ ran' = Append(ran, buf') /\ replies' = replies /\ phase = "footer"
        /\ phase' = "callback"
    BY <1>5 DEF RecvFooterAccepted
  <2>2. /\ Len(ran') = Len(ran) + 1 /\ ran'[Len(ran')] = buf' /\ ran' # <<>>
        /\ \A k \in 1..Len(ran) : ran'[k] = ran[k]
    <3>1. PICK S : ran \in Seq(S)
      BY <1>1 DEF IsSequence
    <3> DEFINE x == buf'
    <3>2. ran \in Seq(S \cup {x}) /\ ran' = Append(ran, x)
      BY <2>1, <3>1
    <3> HIDE DEF x
    <3>3. /\ Len(ran') = Len(ran) + 1 /\ ran'[Len(ran')] = x /\ ran' # <<>>
          /\ \A k \in 1..Len(ran) : ran'[k] = ran[k]
      BY <3>2
    <3> QED
      BY <3>3 DEF x
  <2>3. RunsDone = Len(ran) /\ RunsDone' = Len(ran)
    BY <1>1, <2>1, <2>2 DEF RunsDone
  <2>4. Fits(run, replies, ran', Len(ran))
    BY <1>1, <1>2, <2>2, <2>3, FitsLonger
  <2> QED
    BY <2>1, <2>2, <2>3, <2>4 DEF RunsInv
<1>6. CASE StartAnew
  <2>1. phase' = "unit" /\ ran' = <<>> /\ replies' = <<>> /\ Acks(<<>>) = {}
    BY <1>6 DEF StartAnew, serverVars, Acks
  <2>2. [i \in {} |-> 0] \in [{} -> 1..RunsDone']
    OBVIOUS
  <2>3. Fits([i \in {} |-> 0], replies', ran', RunsDone')
    BY <2>1, <2>2 DEF Fits
  <2> QED
    BY <2>1, <2>3 DEF RunsInv
<1>7. CASE Restart
  <2>1. phase' = "unit" /\ ran' = ran /\ replies' = replies
    BY <1>7 DEF Restart, Started
  <2>2. RunsDone' = Len(ran)
    BY <2>1 DEF RunsDone
  <2>3. Fits(run, replies, ran, Len(ran))
    BY <1>1, <1>2, FitsLonger
  <2> QED
    BY <2>1, <2>2, <2>3 DEF RunsInv
<1>8. CASE \/ RecvUnit \/ RecvFc \/ RecvBody \/ RecvFooterBad \/ RecvFooterIgnored
           \/ RecvResUnit \/ RecvResFc \/ RecvResBody \/ RecvResFooter
           \/ Poll \/ Timeout \/ FlushFull
  <2>1. replies' = replies /\ ran' = ran /\ phase # "callback" /\ phase' # "callback"
    BY <1>8 DEF RecvUnit, RecvFc, RecvBody, RecvFooterBad, RecvFooterIgnored, RecvResUnit,
                RecvResFc, RecvResBody, RecvResFooter, Poll, Timeout, GiveUp, FlushFull,
                Fail, Return, NothingRead, Reading
  <2>2. RunsDone' = RunsDone
    BY <2>1 DEF RunsDone
  <2> QED
    BY <1>2, <2>1, <2>2 DEF RunsInv
<1>9. CASE (Bus /\ ~StartAnew) \/ UNCHANGED vars
  <2>1. replies' = replies /\ ran' = ran /\ phase' = phase /\ buf' = buf
    BY <1>9 DEF Bus, Send, Disturb, Overflow, Fault, serverVars, vars
  <2>2. RunsDone' = RunsDone
    BY <2>1 DEF RunsDone
  <2> QED
    BY <1>1, <1>2, <2>1, <2>2 DEF RunsInv
<1> QED
  BY <1>3, <1>4, <1>5, <1>6, <1>7, <1>8, <1>9 DEF AnyNext, ServerStep, RecvFooter

LEMMA FollowInductive ==
  /\ Init => FollowInv
  /\ FollowInv /\ [AnyNext]_vars => FollowInv'
<1>1. ASSUME Init PROVE FollowInv
  <2>1. Shape
    BY <1>1 DEF Init, Shape
  <2>2. phase # "callback" /\ Acks(replies) = {}
    BY <1>1 DEF Init, Acks
  <2>3. [i \in {} |-> 0] \in [{} -> 1..RunsDone]
    OBVIOUS
  <2>4. Fits([i \in {} |-> 0], replies, ran, RunsDone)
    BY <2>2, <2>3 DEF Fits
  <2> QED
    BY <1>1, <2>1, <2>2, <2>4, InitServed DEF FollowInv, RunsInv
<1>2. FollowInv /\ [AnyNext]_vars => FollowInv'
  BY ServedKept, ShapeKept, RunsKept DEF FollowInv
<1> QED
  BY <1>1, <1>2

LEMMA FollowInvMeans == FollowInv => RepliesFollowRuns
<1>1. SUFFICES ASSUME FollowInv PROVE RepliesFollowRuns
  OBVIOUS
<1>2. ServedInv /\ RunsInv /\ IsSequence(ran) /\ RunsDone \in Nat /\ Len(ran) \in Nat
      /\ RunsDone <= Len(ran)
  BY <1>1, RunsDoneIsNat DEF FollowInv, ServedInv
<1>3. PICK run : Fits(run, replies, ran, RunsDone)
  BY <1>2 DEF RunsInv
<1>4. Fits(run, replies, ran, Len(ran))
  BY <1>2, <1>3, FitsLonger
<1>5. DOMAIN ran = 1..Len(ran)
  BY <1>2 DEF IsSequence
<1>6. Acknowledgements = Acks(replies)
  BY Zenon DEF Acknowledgements, Acks
<1> QED
  BY <1>4, <1>5, <1>6 DEF Fits, RepliesFollowRuns

\* Every response that is no exception belongs to a callback of its own, called for
\* that request, in their order, whatever the callbacks answer, whatever the line
\* brings and wherever the controller restarts: what was refused, or ended by a
\* restart, is not acknowledged (the handlers' early returns, the callback, send_msg).
THEOREM RepliesFollowRunsHolds == Spec => []RepliesFollowRuns
<1>1. FollowInv /\ [Next]_vars => FollowInv'
  BY NextIsAny, FollowInductive
<1> QED
  BY <1>1, FollowInductive, FollowInvMeans, PTL DEF Spec
=============================================================================

------------------------------ MODULE NmbsServer ------------------------------
(***************************************************************************)
(* The Modbus RTU server of src/nanomodbus/nanomodbus.c, reading its bytes *)
(* through readUart of src/picoController/PicoController.cpp.              *)
(*                                                                         *)
(* nmbs_server_poll reads a request piece by piece; every piece is one     *)
(* call of readUart, which either gets all its bytes or gives up after a   *)
(* silence.  Here one such call is one step, and between two of them the   *)
(* bus may bring more bytes, lose one or garble one.  `phase' says which   *)
(* piece is read next, `buf' is msg.buf up to msg.buf_idx.                 *)
(*                                                                         *)
(* The server shares the bus: a request for another unit is read and       *)
(* ignored, and then the other unit's response is read so that the next    *)
(* request is found where it begins.                                       *)
(*                                                                         *)
(* Function codes 4 (read input registers) and 15 (write multiple coils)   *)
(* have a callback, the others answer with an exception (ModbusServer.cpp: *)
(* 19-21); code 6 is compiled out (nanomodbus.h:47).  The callbacks are    *)
(* ModbusServer's, and a parameter of this module.                         *)
(*                                                                         *)
(* A count of data in a message is believed before the checksum is looked  *)
(* at.  Data that does not fit into msg.buf, or into the array a handler   *)
(* copies it to, is written over what lies behind them, and a step that    *)
(* would do so is left out: the model says nothing of what comes after it  *)
(* (DataRoom, FooterFits).                                                 *)
(***************************************************************************)
EXTENDS Integers, Sequences, SequencesExt

CONSTANTS
  Address,       \* address_rtu: RTU_SERVER_ADDRESS
  Crc(_),        \* nmbs_crc_calc: the checksum of a sequence of bytes
  Results(_),    \* results the callback may return for a request, 0 for no error
  Registers(_),  \* registers the read callback may return for a request
  BufLen,        \* bytes a flush asks for: 260, sizeof(nmbs->msg.buf)
  FifoLen,       \* bytes the UART holds while nobody reads them, 32
  Frames,        \* the frames the masters and the other units send
  Noise,         \* bytes that a garbled byte may become
  MaxFrames,     \* bound: frames sent
  MaxFaults,     \* bound: bytes garbled, bytes lost, and overflows
  MaxRestarts,   \* bound: restarts of the controller
  Endless        \* whether the three bounds start anew once the line is quiet

Byte == 0..255

ASSUME AddressAssumption == Address \in 1..255
ASSUME CrcAssumption     == \A f \in Frames : Crc(f) \in 0..65535
ASSUME FramesAssumption  == Frames \subseteq Seq(Byte) /\ Noise \subseteq Byte
ASSUME BufAssumption     == BufLen \in Nat \ {0} /\ FifoLen \in Nat
ASSUME BoundsAssumption  == MaxFrames \in Nat /\ MaxFaults \in Nat /\ MaxRestarts \in Nat

VARIABLES
  line,     \* bytes received by the UART and not read yet
  phase,    \* the piece nmbs_server_poll is about to read
  buf,      \* msg.buf, up to msg.buf_idx
  ignored,  \* msg.ignored
  req,      \* of an ignored request, what its response is compared with
  result,   \* what nmbs_server_poll returned last
  led,      \* the communication LED
  heard,    \* history: the frames sent, in order
  faults,   \* history: how many bytes were garbled or lost, and overflows
  restarts, \* history: how often the controller was restarted
  ran,      \* history: the requests a callback was called for, in order
  replies,  \* history: the responses sent, each with its request
  late,     \* history: the wait for another unit's response was once given up
  fresh     \* history: bytes that arrived while a flush waited on an empty line

busVars    == <<heard, faults, restarts, late>>
serverVars == <<phase, buf, ignored, req, result, led>>
vars       == <<line, serverVars, busVars, ran, replies, fresh>>
-----------------------------------------------------------------------------
(***************************************************************************)
(* The layout of messages.                                                 *)
(***************************************************************************)

BROADCAST == 0

\* get_2 and put_2: most significant byte first.
Word(bytes, i) == 256 * bytes[i] + bytes[i + 1]
Bytes2(word)   == <<word \div 256, word % 256>>

WithCrc(bytes) == bytes \o Bytes2(Crc(bytes))

Unit(msg) == msg[1]
Fc(msg)   == msg[2]

\* The functions compiled in, by the shape of their request and response.
Reads          == {1, 2, 3, 4}
Writes         == {15, 16}
FileFunctions  == {20, 21}
Functions      == Reads \cup {5} \cup Writes \cup FileFunctions \cup {23}

\* Bytes read after the function code, the last one a count of the bytes
\* that follow if the function HasData.
FixedLen(fc) ==
  CASE fc \in Reads \cup {5} -> 4
    [] fc \in Writes         -> 5
    [] fc \in FileFunctions  -> 1
    [] OTHER                 -> 9   \* 23

HasData(fc) == fc \in Writes \cup FileFunctions \cup {23}

\* sizeof(nmbs->msg.buf).
MsgLen == 260

\* The data of a request that there is room for: in coils[250] and registers[123]
\* of the handlers, and in msg.buf behind the fixed part and with the checksum.
DataRoom(fc) ==
  CASE fc = 15 -> 250
    [] fc = 16 -> 2 * 123 + 1
    [] fc = 23 -> MsgLen - 13
    [] OTHER   -> 255
-----------------------------------------------------------------------------
(***************************************************************************)
(* Validation of a complete request, in the order of each handler: the set *)
(* of exceptions it may be answered with, {0} when the callback is called. *)
(***************************************************************************)
ILLEGAL_FUNCTION     == 1
ILLEGAL_DATA_ADDRESS == 2
ILLEGAL_DATA_VALUE   == 3

BeyondEnd(address, quantity) == address + quantity > 65536

\* Faulty variant: a quantity of zero passes.
ReadVerdictFaulty(msg, max) ==
  LET quantity == Word(msg, 5)
  IN  IF quantity \notin 0..max THEN {ILLEGAL_DATA_VALUE}
      ELSE IF BeyondEnd(Word(msg, 3), quantity) THEN {ILLEGAL_DATA_ADDRESS}
      ELSE IF Fc(msg) = 4 THEN {0} ELSE {ILLEGAL_FUNCTION}

\* handle_read_discrete, handle_read_registers: quantity, then the span.
ReadVerdict(msg, max) ==
  LET quantity == Word(msg, 5)
  IN  IF quantity \notin 1..max THEN {ILLEGAL_DATA_VALUE}
      ELSE IF BeyondEnd(Word(msg, 3), quantity) THEN {ILLEGAL_DATA_ADDRESS}
      ELSE IF Fc(msg) = 4 THEN {0} ELSE {ILLEGAL_FUNCTION}

\* handle_write_multiple_coils and _registers: quantity, span, byte count.
WriteVerdict(msg, max, size) ==
  LET quantity == Word(msg, 5)
  IN  IF quantity \notin 1..max THEN {ILLEGAL_DATA_VALUE}
      ELSE IF BeyondEnd(Word(msg, 3), quantity) THEN {ILLEGAL_DATA_ADDRESS}
      ELSE IF msg[7] = 0 \/ msg[7] # size THEN {ILLEGAL_DATA_VALUE}
      ELSE IF Fc(msg) = 15 THEN {0} ELSE {ILLEGAL_FUNCTION}

\* handle_read_file_record: the size, then every 7-byte sub-request.
ReadFileVerdict(msg) ==
  LET size == msg[3]
      Illegal(at) ==
        \/ msg[at] # 6
        \/ Word(msg, at + 1) = 0
        \/ Word(msg, at + 3) > 9999
        \/ Word(msg, at + 5) > 124
  IN  IF size % 7 # 0 \/ size \notin 7..245 THEN {ILLEGAL_DATA_VALUE}
      ELSE IF \E i \in 0..(size \div 7) - 1 : Illegal(4 + 7 * i)
           THEN {ILLEGAL_DATA_ADDRESS} ELSE {ILLEGAL_FUNCTION}

\* handle_read_write_registers: both quantities, the count, both spans.
ReadWriteVerdict(msg) ==
  LET readQuantity  == Word(msg, 5)
      writeQuantity == Word(msg, 9)
  IN  IF \/ readQuantity \notin 1..125
         \/ writeQuantity \notin 1..123
         \/ msg[11] # 2 * writeQuantity
      THEN {ILLEGAL_DATA_VALUE}
      ELSE IF \/ BeyondEnd(Word(msg, 3), readQuantity)
              \/ BeyondEnd(Word(msg, 7), writeQuantity)
           THEN {ILLEGAL_DATA_ADDRESS} ELSE {ILLEGAL_FUNCTION}

\* handle_write_file_record: the size, then sub-requests of 7 bytes and the data
\* they announce, until fewer than 7 bytes of the size are left.  A sub-request
\* that announces more than is left wraps the size around and what follows the
\* request is parsed: any of the three exceptions may come of it.
WriteFileVerdict(msg) ==
  LET size      == msg[3]
      After(at) == at + 7 + 2 * Word(msg, at + 5)
      Left(at)  == Len(msg) + 1 - After(at)
      Illegal(at) ==
        \/ msg[at] # 6
        \/ Word(msg, at + 1) = 0
        \/ Word(msg, at + 3) > 9999
        \/ Word(msg, at + 5) > 122
      LastFrom[at \in 4..Len(msg)] ==
        IF Illegal(at) \/ Left(at) < 7 THEN at ELSE LastFrom[After(at)]
  IN  IF size \notin 7..251 THEN {ILLEGAL_DATA_VALUE}
      ELSE LET last == LastFrom[4]
           IN  IF Illegal(last) THEN {ILLEGAL_DATA_ADDRESS}
               ELSE IF Left(last) < 0
                    THEN {ILLEGAL_FUNCTION, ILLEGAL_DATA_ADDRESS, ILLEGAL_DATA_VALUE}
               ELSE IF Left(last) > 0 THEN {ILLEGAL_DATA_VALUE} ELSE {ILLEGAL_FUNCTION}

Verdict(msg) ==
  CASE Fc(msg) \in {1, 2} -> ReadVerdict(msg, 2000)
    [] Fc(msg) \in {3, 4} -> ReadVerdict(msg, 125)
    [] Fc(msg) = 5        -> {ILLEGAL_FUNCTION}
    [] Fc(msg) = 15       -> WriteVerdict(msg, 1968, (Word(msg, 5) + 7) \div 8)
    [] Fc(msg) = 16       -> WriteVerdict(msg, 123, 2 * Word(msg, 5))
    [] Fc(msg) = 20       -> ReadFileVerdict(msg)
    [] Fc(msg) = 21       -> WriteFileVerdict(msg)
    [] OTHER              -> ReadWriteVerdict(msg)
-----------------------------------------------------------------------------
(***************************************************************************)
(* The responses.                                                          *)
(***************************************************************************)

\* send_exception_msg.
ExceptionResponse(msg, code) == WithCrc(<<Unit(msg), Fc(msg) + 128, code>>)

\* The end of handle_read_registers, with the registers of the callback.
ReadResponse(msg, regs) ==
  WithCrc(<<Unit(msg), Fc(msg), 2 * Len(regs)>> \o
          [i \in 1..2 * Len(regs) |-> Bytes2(regs[(i + 1) \div 2])[2 - (i % 2)]])

\* The end of handle_write_multiple_coils: address and quantity, repeated.
WriteResponse(msg) == WithCrc(SubSeq(msg, 1, 6))

Reply(msg, response) == Append(replies, [to |-> msg, bytes |-> response])
-----------------------------------------------------------------------------
(***************************************************************************)
(* The pieces of a message.                                                *)
(***************************************************************************)

\* How many bytes the next call of readUart asks for.
Need ==
  CASE phase \in {"unit", "fc", "resUnit", "resFc", "resCount", "resException"} -> 1
    [] phase = "fixed"    -> FixedLen(Fc(buf))
    [] phase \in {"data", "resData"} -> buf[Len(buf)]
    [] phase = "resFixed" -> 4
    [] phase \in {"footer", "resFooter"} -> 2
    [] phase = "flush"    -> BufLen

Reading == phase \notin {"callback", "returned"}

Received == SubSeq(line, 1, Need)

\* readUart with all its bytes: they leave the line.
Receive ==
  /\ Len(line) >= Need
  /\ line' = SubSeq(line, Need + 1, Len(line))

\* nmbs_server_poll returns.
Return(value) ==
  /\ phase' = "returned"
  /\ result' = value

\* The end of nmbs_server_poll for an error inside a request: what is left of
\* the frame is read away first if the request was for another unit.
Fail(value) ==
  IF ignored THEN phase' = "flush" /\ result' = value ELSE Return(value)

NothingRead == UNCHANGED <<ignored, req, ran, replies>>
-----------------------------------------------------------------------------
(***************************************************************************)
(* Steps of the server.                                                    *)
(***************************************************************************)

\* Faulty variant: msg_state_reset forgets the buffer's index.
PollFaulty ==
  /\ phase = "returned"
  /\ phase' = "unit"
  /\ ignored' = FALSE
  /\ UNCHANGED <<line, busVars, buf, req, result, led, ran, replies, fresh>>

\* The head of nmbs_server_poll: msg_state_reset.
Poll ==
  /\ phase = "returned"
  /\ phase' = "unit"
  /\ buf' = <<>>
  /\ ignored' = FALSE
  /\ UNCHANGED <<line, busVars, req, result, led, ran, replies, fresh>>

\* The unit id of a request: the LED goes on.
RecvUnit ==
  /\ phase = "unit"
  /\ Receive
  /\ buf' = buf \o Received
  /\ ignored' = (Unit(Received) \notin {BROADCAST, Address})
  /\ led' = TRUE
  /\ phase' = "fc"
  /\ UNCHANGED <<busVars, req, result, ran, replies, fresh>>

\* The function code, and handle_req_fc: an unknown one ends the poll at once,
\* with an exception that is not an error and is not sent.
RecvFc ==
  /\ phase = "fc"
  /\ Receive
  /\ buf' = buf \o Received
  /\ IF Received[1] \in Functions
     THEN phase' = "fixed" /\ UNCHANGED result
     ELSE Return("none")
  /\ NothingRead
  /\ UNCHANGED <<busVars, led, fresh>>

\* get_2 takes registers out of the message in whole: an odd last byte is not
\* counted into msg.buf_idx, and the footer is read over it.
WholeRegisters(msg) ==
  IF Len(msg) % 2 = 0 THEN SubSeq(msg, 1, Len(msg) - 1) ELSE msg

\* The fixed part of a request, and the data its last byte announces.
RecvBody ==
  /\ phase \in {"fixed", "data"}
  /\ Receive
  /\ phase = "data" => Need <= DataRoom(Fc(buf))
  /\ buf' = IF phase = "data" /\ Fc(buf) \in {16, 23}
            THEN WholeRegisters(buf \o Received) ELSE buf \o Received
  /\ phase' = IF phase = "fixed" /\ HasData(Fc(buf)) THEN "data" ELSE "footer"
  /\ NothingRead
  /\ UNCHANGED <<busVars, result, led, fresh>>

\* recv_msg_footer of a request, up to what the handler does next: wait for
\* the other unit's response, refuse the request, or call the callback.
\* Faulty variant: the sum is not looked at.
CrcMatchesFaulty == TRUE

CrcMatches == Word(Received, 1) = Crc(buf)

RecvFooterBad ==
  /\ phase = "footer"
  /\ Receive
  /\ ~CrcMatches
  /\ buf' = buf \o Received
  /\ led' = FALSE
  /\ Fail("crc")
  /\ fresh' = 0
  /\ NothingRead
  /\ UNCHANGED busVars

\* What recv_*_res compares a response with: the unit, the function, and the
\* byte count or the two words it must repeat.
Expected(msg) ==
  [unit |-> Unit(msg), fc |-> Fc(msg),
   body |-> CASE Fc(msg) \in {3, 4} -> <<2 * Word(msg, 5)>>
              [] Fc(msg) \in {5} \cup Writes -> SubSeq(msg, 3, 6)
              [] Fc(msg) = 23 -> SubSeq(msg, 7, 10)
              [] OTHER -> <<>>]

\* Faulty variant: the other unit's response is left on the line.
RecvFooterIgnoredFaulty ==
  /\ phase = "footer"
  /\ Receive
  /\ CrcMatches
  /\ ignored
  /\ buf' = buf \o Received
  /\ led' = FALSE
  /\ Return("none")
  /\ UNCHANGED <<busVars, ignored, req, ran, replies, fresh>>

RecvFooterIgnored ==
  /\ phase = "footer"
  /\ Receive
  /\ CrcMatches
  /\ ignored
  /\ req' = Expected(buf)
  /\ buf' = <<>>
  /\ ignored' = FALSE
  /\ led' = FALSE
  /\ phase' = "resUnit"
  /\ UNCHANGED <<busVars, result, ran, replies, fresh>>

\* Faulty variant: what was refused is acknowledged after all.
RecvFooterRefusedFaulty ==
  /\ phase = "footer"
  /\ Receive
  /\ CrcMatches
  /\ ~ignored
  /\ Verdict(buf) # {0}
  /\ replies' = Reply(buf \o Received, WriteResponse(buf))
  /\ buf' = buf \o Received
  /\ led' = FALSE
  /\ Return("none")
  /\ UNCHANGED <<busVars, ignored, req, ran, fresh>>

RecvFooterRefused ==
  /\ phase = "footer"
  /\ Receive
  /\ CrcMatches
  /\ ~ignored
  /\ \E code \in Verdict(buf) \ {0} :
       replies' = Reply(buf \o Received, ExceptionResponse(buf, code))
  /\ buf' = buf \o Received
  /\ led' = FALSE
  /\ Return("none")
  /\ UNCHANGED <<busVars, ignored, req, ran, fresh>>

\* Faulty variant: msg.ignored is not looked at.
RecvFooterAcceptedFaulty ==
  /\ phase = "footer"
  /\ Receive
  /\ CrcMatches
  /\ 0 \in Verdict(buf)
  /\ buf' = buf \o Received
  /\ led' = FALSE
  /\ ran' = Append(ran, buf \o Received)
  /\ phase' = "callback"
  /\ UNCHANGED <<busVars, ignored, req, result, replies, fresh>>

RecvFooterAccepted ==
  /\ phase = "footer"
  /\ Receive
  /\ CrcMatches
  /\ ~ignored
  /\ 0 \in Verdict(buf)
  /\ buf' = buf \o Received
  /\ led' = FALSE
  /\ ran' = Append(ran, buf \o Received)
  /\ phase' = "callback"
  /\ UNCHANGED <<busVars, ignored, req, result, replies, fresh>>

\* Faulty variant: a broadcast is answered like any other request.
AnswerFaulty(code, regs) ==
  /\ replies' =
       IF code # 0 THEN Reply(buf, ExceptionResponse(buf, code))
       ELSE Reply(buf, IF Fc(buf) = 4 THEN ReadResponse(buf, regs) ELSE WriteResponse(buf))
  /\ led' = FALSE
  /\ Return("none")
  /\ UNCHANGED <<line, busVars, buf, ignored, req, ran, fresh>>

\* The callback has returned: an exception goes out whoever was addressed, a
\* response only to a request for this unit alone.
Answer(code, regs) ==
  /\ replies' =
       IF code # 0 THEN Reply(buf, ExceptionResponse(buf, code))
       ELSE IF Unit(buf) = BROADCAST THEN replies
       ELSE Reply(buf, IF Fc(buf) = 4 THEN ReadResponse(buf, regs) ELSE WriteResponse(buf))
  /\ led' = FALSE
  /\ Return("none")
  /\ UNCHANGED <<line, busVars, buf, ignored, req, ran, fresh>>
-----------------------------------------------------------------------------
(***************************************************************************)
(* The response of another unit: recv_res_header and recv_*_res.  Its      *)
(* header resets msg.ignored, so an error from here on is not followed by  *)
(* a flush.                                                                *)
(***************************************************************************)

RecvResUnit ==
  /\ phase = "resUnit"
  /\ Receive
  /\ buf' = buf \o Received
  /\ led' = TRUE
  /\ phase' = "resFc"
  /\ NothingRead
  /\ UNCHANGED <<busVars, result, fresh>>

\* The unit is compared only after the function code was read too.
RecvResFc ==
  /\ phase = "resFc"
  /\ Receive
  /\ buf' = buf \o Received
  /\ IF Unit(buf) # req.unit THEN Return("unit")
     ELSE IF Received[1] = req.fc
          THEN /\ phase' = IF req.fc \in Reads \cup FileFunctions THEN "resCount" ELSE "resFixed"
               /\ UNCHANGED result
     ELSE IF Received[1] = req.fc + 128
          THEN phase' = "resException" /\ UNCHANGED result
     ELSE Return("response")
  /\ NothingRead
  /\ UNCHANGED <<busVars, led, fresh>>

\* Where recv_read_file_record_res and recv_write_file_record_res expect the
\* checksum: after the data that a length in the response announces, whatever the
\* response's own size.
FileResponseLen(msg) ==
  CASE Fc(msg) = 20 /\ Len(msg) >= 5  -> 5 + ((msg[4] + 255) % 256)
    [] Fc(msg) = 21 /\ Len(msg) >= 10 -> 10 + ((2 * Word(msg, 9)) % 65536)
    [] OTHER -> Len(msg) + 1

RecvResBody ==
  /\ phase \in {"resCount", "resData", "resFixed", "resException"}
  /\ Receive
  /\ buf' = LET msg == buf \o Received
            IN  IF phase = "resData" /\ req.fc \in {3, 4} THEN WholeRegisters(msg)
                ELSE IF phase = "resData" /\ req.fc \in FileFunctions /\ FileResponseLen(msg) < Len(msg)
                     THEN SubSeq(msg, 1, FileResponseLen(msg))
                ELSE msg
  /\ phase' = IF phase = "resCount" THEN "resData" ELSE "resFooter"
  /\ NothingRead
  /\ UNCHANGED <<busVars, result, led, fresh>>

\* The checksum is received at that place, so it has to be inside msg.buf.  A length
\* that was not received is taken to be one that keeps it there.
FooterFits == Fc(buf) \in FileFunctions => FileResponseLen(buf) + 2 <= MsgLen

\* The checksum of such a response is taken over what the buffer still holds of
\* earlier messages if the data announced is more than the response brings.
ChecksumOutcomes ==
  IF Fc(buf) \in FileFunctions /\ FileResponseLen(buf) > Len(buf) THEN BOOLEAN ELSE {CrcMatches}

\* What is left to check of a response whose checksum is right.
ResponseResult ==
  IF Fc(buf) # req.fc
  THEN IF buf[3] \in 1..4 THEN "none" ELSE "response"
  ELSE LET body == CASE req.fc \in {3, 4} -> <<buf[3]>>
                     [] req.fc \in {1, 2} \cup FileFunctions -> <<>>
                     [] OTHER -> SubSeq(buf, 3, 6)
       IN  IF body = req.body THEN "none" ELSE "response"

RecvResFooter ==
  /\ phase = "resFooter"
  /\ Receive
  /\ FooterFits
  /\ buf' = buf \o Received
  /\ led' = FALSE
  /\ \E matches \in ChecksumOutcomes :
       Return(IF matches THEN ResponseResult ELSE "crc")
  /\ NothingRead
  /\ UNCHANGED <<busVars, fresh>>
-----------------------------------------------------------------------------
(***************************************************************************)
(* Silence.  readUart gives up when the next byte does not come in time,   *)
(* after 200 ms for the first byte of a message and 500 ms for the others; *)
(* it never looks at byte_timeout_ms.  The bytes it did get are lost; those *)
(* of a request may lie beyond msg.buf, over fields the next poll resets.  *)
(***************************************************************************)

\* Faulty variants: the LED is left on; only a first byte is waited for in vain.
GiveUpLedOn ==
  /\ Reading
  /\ Len(line) < Need
  /\ line' = <<>>
  /\ late' = (late \/ phase = "resUnit")
  /\ UNCHANGED <<heard, faults, restarts, buf, req, led, ran, replies, fresh>>
GiveUpFirstOnly ==
  /\ phase \in {"unit", "resUnit"}
  /\ Len(line) < Need
  /\ line' = <<>>
  /\ led' = FALSE
  /\ late' = (late \/ phase = "resUnit")
  /\ UNCHANGED <<heard, faults, restarts, buf, req, ran, replies, fresh>>

GiveUp ==
  /\ Reading
  /\ Len(line) < Need
  /\ phase = "resFooter" /\ line # <<>> => FooterFits
  /\ line' = <<>>
  /\ led' = FALSE
  /\ late' = (late \/ phase = "resUnit")
  /\ UNCHANGED <<heard, faults, restarts, buf, req, ran, replies, fresh>>

TimeoutResult ==
  CASE phase = "unit"  -> "firstByteTimeout"
    [] phase = "flush" -> result
    [] OTHER           -> "timeout"

\* In a request or a response a timeout ends the poll, without a flush; it
\* also ends a flush, which is the longest of all reads.
Timeout ==
  /\ GiveUp
  /\ Return(TimeoutResult)
  /\ UNCHANGED ignored

\* A flush that fills the whole buffer ends without a silence.
FlushFull ==
  /\ phase = "flush"
  /\ Receive
  /\ Return(result)
  /\ NothingRead
  /\ UNCHANGED <<busVars, buf, led, fresh>>
-----------------------------------------------------------------------------
(***************************************************************************)
(* The bus.                                                                *)
(***************************************************************************)

\* A frame arrives, without a gap inside it that readUart would notice.
Send(frame) ==
  /\ Len(heard) < MaxFrames
  /\ line' = line \o frame
  /\ heard' = Append(heard, frame)
  /\ fresh' = IF phase = "flush" /\ (fresh > 0 \/ line = <<>>) THEN fresh + Len(frame) ELSE fresh
  /\ UNCHANGED <<serverVars, faults, restarts, ran, replies, late>>

Fault ==
  /\ faults < MaxFaults
  /\ faults' = faults + 1
  /\ UNCHANGED <<serverVars, heard, restarts, ran, replies, late, fresh>>

\* A byte is lost, or received as another one.
Disturb ==
  /\ Fault
  /\ \E i \in 1..Len(line) :
       line' \in {RemoveAt(line, i)} \cup {ReplaceAt(line, i, b) : b \in Noise \ {line[i]}}

\* While a callback runs, or the supply is talked to between two polls, nobody
\* empties the UART: what comes once it is full is lost, until it is read again.
Overflow ==
  /\ Fault
  /\ ~Reading
  /\ \E next \in FifoLen + 2..Len(line) + 1 :
       line' = SubSeq(line, 1, FifoLen) \o SubSeq(line, next, Len(line))

\* The bounds start anew, so that the traffic never ends.
StartAnew ==
  /\ Endless
  /\ phase = "unit"
  /\ line = <<>>
  /\ Len(heard) = MaxFrames
  /\ heard' = <<>>
  /\ ran' = <<>>
  /\ replies' = <<>>
  /\ faults' = 0
  /\ restarts' = 0
  /\ late' = FALSE
  /\ UNCHANGED <<line, serverVars, fresh>>
-----------------------------------------------------------------------------
(***************************************************************************)
(* The controller restarts: nmbs_server_create zeroes the server, and the  *)
(* UART starts empty.  The bus goes on: of what was under way only a tail  *)
(* is received.                                                            *)
(***************************************************************************)
NoRequest == [unit |-> 0, fc |-> 0, body |-> <<>>]

Started ==
  /\ phase' = "unit"
  /\ buf' = <<>>
  /\ ignored' = FALSE
  /\ req' = NoRequest
  /\ result' = "none"
  /\ led' = FALSE

Restart ==
  /\ restarts < MaxRestarts
  /\ restarts' = restarts + 1
  /\ Started
  /\ \E first \in 1..Len(line) + 1 : line' = SubSeq(line, first, Len(line))
  /\ fresh' = 0
  /\ UNCHANGED <<heard, faults, ran, replies, late>>
-----------------------------------------------------------------------------
Init ==
  /\ line = <<>>
  /\ phase = "unit"
  /\ buf = <<>>
  /\ ignored = FALSE
  /\ req = NoRequest
  /\ result = "none"
  /\ led = FALSE
  /\ heard = <<>>
  /\ faults = 0
  /\ restarts = 0
  /\ ran = <<>>
  /\ replies = <<>>
  /\ late = FALSE
  /\ fresh = 0

\* The callback of ModbusServer, with any result it may have.
Callback ==
  /\ phase = "callback"
  /\ \E code \in Results(buf) :
       \E regs \in IF Fc(buf) = 4 /\ code = 0 THEN Registers(buf) ELSE {<<>>} :
         Answer(code, regs)

RecvFooter ==
  \/ RecvFooterBad
  \/ RecvFooterIgnored
  \/ RecvFooterRefused
  \/ RecvFooterAccepted

ServerStep ==
  \/ Poll
  \/ RecvUnit
  \/ RecvFc
  \/ RecvBody
  \/ RecvFooter
  \/ RecvResUnit
  \/ RecvResFc
  \/ RecvResBody
  \/ RecvResFooter
  \/ Timeout
  \/ FlushFull

Bus ==
  \/ \E frame \in Frames : Send(frame)
  \/ Disturb
  \/ Overflow
  \/ StartAnew

Next == ServerStep \/ Callback \/ Bus \/ Restart

\* The server's loop never stops: it reads what has come, and every silence
\* ends in a timeout.  Nothing makes the others send.
Fairness ==
  /\ WF_vars(ServerStep)
  /\ WF_vars(Callback)

Spec == Init /\ [][Next]_vars /\ Fairness
-----------------------------------------------------------------------------
(***************************************************************************)
(* Properties.                                                             *)
(***************************************************************************)
ForUs(frame) == Unit(frame) \in {BROADCAST, Address}

Phases ==
  {"unit", "fc", "fixed", "data", "footer", "callback", "returned", "flush",
   "resUnit", "resFc", "resCount", "resData", "resFixed", "resException",
   "resFooter"}

\* Types.  What is read stays within msg.buf as long as the data of requests has
\* room (DataRoom); an ignored message never reaches a callback, and the callbacks
\* are those of functions 4 and 15.
TypeOK ==
  /\ line \in Seq(Byte)
  /\ phase \in Phases
  /\ buf \in Seq(Byte) /\ Len(buf) <= MsgLen
  /\ ignored \in BOOLEAN
  /\ req.unit \in Byte /\ req.fc \in Byte
  /\ result \in {"none", "firstByteTimeout", "timeout", "crc", "unit", "response"}
  /\ led \in BOOLEAN
  /\ heard \in Seq(Frames) /\ Len(heard) <= MaxFrames
  /\ faults \in 0..MaxFaults /\ restarts \in 0..MaxRestarts
  /\ late \in BOOLEAN
  /\ fresh \in Nat
  /\ phase = "callback" => ~ignored /\ Fc(buf) \in {4, 15}

\* The requests that replies were sent to, in order.
Answered == [i \in DOMAIN replies |-> replies[i].to]

\* `some' is `all' with elements left out: each element of it has a place of its own
\* there, behind those of the elements before it.
OccursIn(some, all) ==
  \E place \in [DOMAIN some -> DOMAIN all] :
    /\ \A i \in DOMAIN some : all[place[i]] = some[i]
    /\ \A i, j \in DOMAIN some : i < j => place[i] < place[j]

\* Nobody but this unit is served in its name: a callback runs, and a response is
\* sent, only for a message addressed to this unit or to all, whatever the line
\* brings and whatever became of the messages before (msg.ignored).
ServedForUs ==
  /\ \A i \in DOMAIN ran : ForUs(ran[i])
  /\ \A i \in DOMAIN replies : ForUs(replies[i].to)

\* A callback runs only for a frame that was sent, whole and unaltered, at most
\* once per frame and in the order of the frames: nothing that a lost byte, a
\* garbled byte, a foreign message, a timeout or a flush leaves on the line is
\* ever taken for a request (nanomodbus.c:229-333).
RanWereSent == OccursIn(ran, heard)

\* A response answers a frame that was sent, at most one response per frame and
\* in their order, whatever the line brings and whenever the controller restarts.
RepliesAnswerRequests == OccursIn(Answered, heard)

\* A response repeats the unit and the function code of its request, or the code
\* with the exception bit set, and a broadcast is answered by nothing but an
\* exception (send_msg, send_exception_msg, msg.broadcast).
RepliesRepeatRequests ==
  \A i \in DOMAIN replies :
    LET to == replies[i].to  bytes == replies[i].bytes
    IN  /\ bytes[1] = Unit(to)
        /\ \/ bytes[2] = Fc(to) + 128
           \/ bytes[2] = Fc(to) /\ Unit(to) # BROADCAST

\* A response that is no exception belongs to a callback of its own, which was called
\* for that request: nothing is acknowledged that was not carried out, nothing
\* twice, and in the order of the callbacks, wherever the controller restarted in
\* between (the handlers' callback, send_msg, the early returns before them).
Acknowledgements == {i \in DOMAIN replies : replies[i].bytes[2] = Fc(replies[i].to)}

RepliesFollowRuns ==
  \E run \in [Acknowledgements -> DOMAIN ran] :
    /\ \A i \in Acknowledgements : ran[run[i]] = replies[i].to
    /\ \A i, j \in Acknowledgements : i < j => run[i] < run[j]

\* A whole request for this unit, of a function that is compiled in, with the right
\* checksum, and with whole registers where the function writes any.
WholeRequest(frame) ==
  /\ Len(frame) >= 4 /\ ForUs(frame) /\ Fc(frame) \in Functions
  /\ LET fixed == 2 + FixedLen(Fc(frame))
     IN  /\ fixed + 2 <= Len(frame)
         /\ Len(frame) = fixed + (IF HasData(Fc(frame)) THEN frame[fixed] ELSE 0) + 2
         /\ Fc(frame) \in {16, 23} => frame[fixed] % 2 = 0
  /\ Word(frame, Len(frame) - 1) = Crc(SubSeq(frame, 1, Len(frame) - 2))

\* There is room for the data it announces.
RoomFor(frame) ==
  HasData(Fc(frame)) => frame[2 + FixedLen(Fc(frame))] <= DataRoom(Fc(frame))

Requests == {frame \in Frames : WholeRequest(frame) /\ RoomFor(frame)}

\* The pieces of a request from its function code on, until it is dealt with.
InRequest == {"fc", "fixed", "data", "footer"}

\* The server is about to read that frame, reads it, or runs its callback.
InHand(frame) ==
  \/ phase = "unit" /\ IsPrefix(frame, line)
  \/ phase \in InRequest /\ ~ignored /\ IsPrefix(frame, buf \o line)
  \/ phase = "callback" /\ buf = frame

\* The poll that read the frame ends with a response to it; or without one after
\* the callback of a broadcast.
Settled(frame) ==
  /\ phase' = "returned"
  /\ \/ Len(replies') = Len(replies) + 1 /\ Last(replies').to = frame
     \/ phase = "callback" /\ Unit(frame) = BROADCAST

\* A whole request that there is room for is never dropped: once it is at the head of
\* the line when the server begins to read, every step keeps hold of it until it is
\* answered, whatever was before it and whatever follows it.  Only a fault and a
\* restart may take it away; no timeout, no stale index or flag of the message
\* before, and no byte too many or too few for its function does.
RequestKept ==
  [][faults' = faults /\ restarts' = restarts =>
       \A frame \in Requests : InHand(frame) => InHand(frame)' \/ Settled(frame)]_vars

\* When the server waits for the first byte of a request, a request for it that
\* arrives alone gets exactly one response, whatever was sent, lost or garbled
\* before and wherever the controller restarted: no earlier message leaves state
\* that spoils a later one.  The request is the last one the bounds allow, so that
\* nothing follows it.  No further fault and restart is assumed (k).
AloneOnLine(k, r) ==
  /\ phase = "unit"
  /\ Len(heard) = MaxFrames
  /\ faults + restarts = k
  /\ Len(replies) = r
  /\ line = heard[MaxFrames]
  /\ Unit(line) = Address /\ Fc(line) \in Functions

AnsweredNow(r) ==
  /\ Len(heard) = MaxFrames
  /\ Len(replies) = r + 1
  /\ Last(Answered) = heard[MaxFrames]

QuietRequestAnswered ==
  \A k \in 0..MaxFaults + MaxRestarts, r \in 0..MaxFrames - 1 :
    AloneOnLine(k, r) ~> AnsweredNow(r) \/ faults + restarts > k

\* The server always comes back to wait for the first byte of a request, however
\* a message was cut short: no read waits for ever.
AlwaysPollsAgain == phase # "unit" ~> phase = "unit"

\* The communication LED goes on with the first byte of a message and off with its
\* last piece or in a timeout (gpio_put, PicoController.cpp:31-44).  A poll that ends
\* with the header of a message reads no such piece and leaves it on: after a function
\* code that is unknown (nanomodbus.c:1462), and where a response was awaited and one
\* of another unit or function came (nanomodbus.c:366-386).
EndedByHeader ==
  /\ phase = "returned" /\ Len(buf) = 2
  /\ Fc(buf) \notin Functions \/ result \in {"unit", "response"}

\* The LED never stays on, whatever cuts a message short and wherever the controller
\* restarts, unless polls go on and on to end with a header.
LedGoesOff == []<>EndedByHeader \/ (led ~> ~led)

\* nanomodbus.h:117-121: a read blocks until its byte timeout expires, and the
\* flush asks for a timeout of 0 (nanomodbus.c:1513).  So what arrives once the
\* line was found empty is not read away by it.
FlushLeavesNewcomers ==
  [][phase = "flush" /\ phase' = "returned" => Len(line') >= fresh]_vars

\* tests/modbusTests.cpp:224: a request for a function that is not handled gets
\* the exception ILLEGAL FUNCTION, here if it is all that was ever sent and the
\* server is done with it.
UnhandledFunctionAnswered ==
  /\ phase = "unit"
  /\ line = <<>>
  /\ faults = 0
  /\ Len(heard) = 1
  /\ Unit(heard[1]) = Address
  /\ Fc(heard[1]) \notin {4, 15}
  => \E i \in DOMAIN replies :
       replies[i].bytes = ExceptionResponse(heard[1], ILLEGAL_FUNCTION)
=============================================================================

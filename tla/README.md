# Verification of the power supply controller

This directory models the firmware that lets a Modbus RTU master control a 200 A
power supply of a cyclotron from a Raspberry Pi Pico. It holds TLA+ modules
translated from the C and C++ sources, configurations with which TLC checks them on
small instances, and theorems that TLAPS proves for every value of the constants.
`PROJECT.json` lists the runs, the properties, the faulty variants each property is
known to catch, the lines behind every definition, the findings and the hazards.

File names below are relative to the repository's `src/`.

## The system

| Component | Source | State | Operations |
|---|---|---|---|
| Main loop | `Main.cpp` | none | `waitAndHandleRequest` for ever |
| Request callbacks | `modbusServer/ModbusServer.cpp` | the power supply object | `handleReadData`, `handleWriteData`, `waitAndHandleRequest` |
| Modbus server | `nanomodbus/nanomodbus.c` | `msg`: buffer and index, unit, function code, `ignored`, `broadcast` | `nmbs_server_poll`, one handler per function code, `recv_*_res` for other units' responses |
| UART and LED | `picoController/PicoController.cpp` | the UART's receive line, the LED | `readUart`, `writeUart` |
| Supply driver | `powerSupply/PowerSupply200A.hpp` | `psBufOut`, `psBufIn`, `avrgCurrent`, `currentSet` | `safeCommunicationWithPS`, `setStatus`, the getters |
| The supply | hardware behind SPI | set current, circuit, remote or local, protection | takes a frame, returns its status; panel and protection act by themselves |
| Supply test program | `testPS.cpp` | the same driver object | talks to the supply in a loop, carries out typed commands |
| Linux controller, stub supply, mocks | | | development and tests |

The firmware has one thread. `main` calls `waitAndHandleRequest`, which calls
`nmbs_server_poll`; that reads a request through `readUart`, piece by piece, and calls
`handleReadData` or `handleWriteData`, which talk to the supply frame by frame in
`safeCommunicationWithPS` and return; the server then sends the response. If the poll
ended in an error, one of which is the 200 ms timeout of a request's first byte, the
loop talks to the supply too. Two things go on by themselves meanwhile: the bus, with
its master, other units, losses and garbling, and the supply, with its operator, its
remote/local key and its error protection.

### What is hard in it

* A status travels while the frame does, so it is always one frame old; writing must be
  enabled in one frame and no other; the mode may change between the frame that
  showed it and the frame that relies on it.
* The supply keeps running when the controller restarts with empty buffers, and so does
  the bus, in the middle of a message.
* Frames are put together bit by bit: numbers are reversed byte by byte, six control bits
  share a byte, and six words carry a frame of four.
* While the supply is talked to nobody empties the UART's FIFO of 32 bytes.
* The driver writes both parameters in every frame, and knows only one of them from
  the request.
* A serial line has no message boundaries. Requests for other units, their responses,
  lost bytes, garbled bytes, timeouts and an attempt to flush the line all move the
  place where the server believes a message begins.
* What a client is told is put together after many frames, during which the supply
  may have changed.

### What makes each component correct

* Driver: what it reports is the supply's state, what it is asked to write is carried
  out once and by the time it returns, nothing else changes, and in local mode its
  frame follows the panel.
* Server: only a whole frame that was sent to this unit is executed or answered, at most
  once and in order; nothing earlier spoils a later request; no message makes it wait
  for ever.
* Callbacks: what they refuse, decode and pack is what the tests say.
* Firmware: a response tells the truth about the supply, an acknowledgement means done,
  only write requests change the supply, and the supply is followed without requests.

## The modules

| Module | Models | Variables |
|---|---|---|
| `PowerSupply200A` | the driver with its supply and panel | `out` = `psBufOut`, `in` = `psBufIn`, `avrgCurrent`, `currentSet`; `pc`, `done`: the place inside `safeCommunicationWithPS`; `dev`: the supply; histories `touched`, `owned`, `copied`, `asked` |
| `PsBits` | the layout of the two frames and the bit operations on them, as operators | none |
| `PsFrames` | the driver with its buffers as bits, run by the firmware or by `testPS.cpp`; implements `PowerSupply200A` | `psBufOut`, `psBufIn`: functions from bit positions to values; the others as there; `program`: what is flashed; histories `sent`, `written`, `typed` |
| `Crc16` | `nmbs_crc_calc` | none |
| `ModbusHandlers` | what the callbacks refuse, decode and pack, as functions of the request's bytes | none |
| `NmbsServer` | `nmbs_server_poll` over `readUart`, and the bus | `line`: received and unread bytes; `phase`: the piece read next; `buf` = `msg.buf` up to `msg.buf_idx`; `ignored`; `req`: what an awaited foreign response must repeat; `result`; `led`; histories `heard`, `faults`, `restarts`, `ran`, `replies`, `late`, `fresh` |
| `ModbusServer` | the whole firmware: `NmbsServer`, with the callbacks made of `ModbusHandlers` and of calls of `PowerSupply200A` | those of both, and `caller`, `events`, `since` |
| `NmbsTraffic` | what the bus may leave for the server to read (`MayHold`), the two hypotheses about checksum and frames that proofs use, and the same computed for small instances (`TrafficIsSafe`) | none |
| `MCPsFrames`, `MCCrc16`, `MCNmbsServer`, `MCModbusServer` | values for the runs: readings, a table-driven checksum, frames, callbacks; the properties that speak of particular frames | none |
| `PowerSupply200A_proofs`, `PsBits_proofs`, `PsFrames_proofs`, `NmbsServer_proofs`, `NmbsTraffic_proofs`, `ModbusHandlers_proofs`, `ModbusServer_proofs` | theorems | none |

### How actions correspond to code

**PowerSupply200A.** A call is `Refresh`, `SetStatusIsOn` or `SetStatusCurrent`, which
run `setStatus` and the head of `safeCommunicationWithPS`. Then come as many `Exchange`
steps as the average has components, each one call of `comunicateWithPS` with its
trailing `setCurrentWrite(0)` and the sum of one measurement. `FinishAveraging` divides,
and in local mode makes the frame follow the supply; `SyncExchange` sends that frame.
`PanelMode`, `PanelAdjust` and `Trip` are the supply's own steps and may happen between
any two of those. `Reboot` makes a new `PowerSupply` object and leaves the supply as it
is. The float average is kept as an integer in a finer unit (`Scale`); its division
may leave it one unit off (`Rounded`).

**PsFrames.** The same actions, each with what it does to the bits: a buffer is the function
from the position of a bit, as `getBit` and `setBit` count them, to its value. The
supply's side is external: it shifts all words through a register that keeps the last 32
bits, and decodes from there (`Register`, `CurrentArrived`, `Arrived`). Under
`program = "test"` a turn of the loop of `testPS.cpp` is `TestTurn`, which writes back the
circuit bit that was read and does one typed command, followed by the `Exchange` steps of
`safeCommunicationWithPS`. A frame is exchanged in one step, as in `PowerSupply200A`.

**NmbsServer.** A message is read in pieces, and each piece is one call of `readUart`: a
step of its own, whose guard says whether the bytes are there (`Receive`) or a silence
ends it (`Timeout`). `RecvUnit`, `RecvFc` and `RecvBody` read a request; the footer has
four outcomes (`RecvFooterBad`, `Ignored`, `Refused`, `Accepted`), which include what
the handler does until it reads again or calls its callback. Announced data is read only if
there is room for it (`DataRoom`, `FooterFits`): the code believes the count before it has looked
at the checksum, and what follows a read beyond `msg.buf` is not modelled. `Answer` is the
handler after the callback. `RecvResUnit` to `RecvResFooter` read the response of
another unit, whose header has reset `msg.ignored`. The flush is a read of a whole
buffer. `Send` and `Disturb` are the bus. `Overflow` is the FIFO of the UART: while a callback
runs or the loop talks to the supply, bytes beyond `FifoLen` are lost up to any point at
which reading goes on. `Restart` is `nmbs_server_create` on an empty UART: of what was
under way only a tail is received. Sub-requests of the file functions are validated one
by one. Whether a timeout or more bytes come first is
open in every state, so the two timeout values of the build need no clock.

**ModbusServer.** `handleReadData` and `handleWriteData` either refuse or begin a call of
the supply; `CommunicateStep` is any step of that call; `CallbackReturns` sends the
response made of what the driver knows then. `PollStep` is a step of the server, taken
only while the supply is not talked to. `RefreshAfterError` and `PollAfterRefresh` are
the rest of `waitAndHandleRequest`. `BusStep` and `SupplyStep` may come anywhere, and so
may `FirmwareRestart`, which is `Restart` of the server and `Reboot` of the driver in one
step: the program is one, and the supply and the bus go on.

## The runs

| Run | Question | Answer |
|---|---|---|
| `ps_driver` | Does the driver report, write and follow rightly while panel, protection and restarts interfere between frames? Does no refresh close a circuit that the protection opened? | yes, all nine properties; the frame of local mode may close the circuit, under a key that was turned (`ClosedByWriteOrSync`) |
| `ps_restart` | Does write protection prevent unexpected changes of the set current? | no: see finding 1 |
| `ps_sync_race` | Does the frame of local mode change nothing? | no: see finding 2 |
| `ps_frames` | Does every field arrive at the supply as it was written last, and is every report as it was sent, to the bit, in any order of commands? Do the bits implement the records of `PowerSupply200A`, and change a supply that nobody touches only in what a write asked for? | yes |
| `nmbs_shared` | On a shared, orderly bus, is every request for this unit answered once and in order, and none for others? | yes |
| `nmbs_faults` | Does every request of `tests/modbusTests.cpp` get exactly the response expected there, to the byte, or none where none is expected, in pairs and in any alignment with the reads? With a lost or garbled byte, a full FIFO or a restart anywhere, is only what was sent executed and answered, is nothing acknowledged that no callback ran for, and is no whole request dropped that is being read? | yes |
| `nmbs_live` | On traffic, faults and restarts that never end, does the server recover from whatever a message left behind? Does the LED go off? | yes; the LED unless polls go on ending with the header of a message |
| `nmbs_flush` | Does the flush leave alone what arrives after it found the line empty? | no: see finding 3 |
| `nmbs_unknown_function` | Is every unhandled function answered with an exception? | no: see finding 4 |
| `modbus_server` | Does only what was sent reach a callback, do responses tell the truth, acknowledgements mean done, and only writes that were sent change the supply, also across restarts? Does every poll end in a bounded number of the firmware's own steps? | yes |
| `modbus_live` | On endless traffic, is the supply followed unless polls go on ending without an error, and does the firmware refine the server of `NmbsServer`? | yes |
| `modbus_starved` | Is the supply followed whatever comes over the bus? | no: see finding 5 |

`modbus_server` checks deadlock too: the firmware never stops. So do the `ps_*` runs.
The `nmbs_*` runs do not, because once the bounds of the bus are used up nothing more
is sent; the server itself goes on timing out and polling, which `nmbs_live` shows.

TLC evaluates assumptions on these runs too. `SameChecksum` compares the table-driven checksum
with the translated one; `LiveTraffic` (in `nmbs_live`) and `UndisturbedTraffic` (in `modbus_*`
without faults) compute `TrafficIsSafe`, the two hypotheses of the proofs about the server, for
the frames and the bounds of those runs.

### Findings

1. *A restart zeroes the set current* (`ps_restart`). The constructor zeroes `psBufOut`
   (`PowerSupply200A.hpp:48-51`); every frame carries its set current; an on/off request
   enables writing. The first one after a start sets the current to 0, although the
   comment at lines 68-69 says there will be no unexpected change in set current.
2. *The frame of local mode may be taken as a command* (`ps_sync_race`). Lines 82-86
   send the measured current, write-enabled, relying on a mode bit of the exchange before.
3. *The flush swallows newcomers* (`nmbs_flush`). It asks for a byte timeout of 0, which
   `nanomodbus.h:117-121` says `read()` obeys; `readUart` does not look at it.
4. *Function codes that are compiled out are not answered* (`nmbs_unknown_function`),
   unlike `tests/modbusTests.cpp:224` has it for "Modbus function that is not handled".
5. *A busy bus starves the supply* (`modbus_starved`). `CMakeLists.txt:9` defines
   `COMMUNICATION_WITH_PS_INTERVAL`, 200 ms. It is only the timeout of a poll's first byte,
   and `waitAndHandleRequest` (`ModbusServer.cpp:97-100`) talks to the supply only after an
   error. Foreign or refused messages that begin within 200 ms of one another are no
   error, and the driver's frame no longer follows the panel. `FollowedUnlessServing`
   is what does hold.

### Bounds, and why they are enough

* `MaxIn`, `MaxOut`, `Scale`: 2 measured and 3 set levels show truncation between levels
  and both ends of the range; a supply has neither more nor other transitions with more.
  `AvrgComponentCount` 3 gives a first, a middle and a last frame (the source has 5;
  the theorems hold for any number). In `modbus_*` the driver's data is smaller still,
  because `ps_driver` and the theorems cover it.
* `MaxFrames`: one message can disturb the next one, and the one after it through what
  is left on the line; three and four frames cover a foreign request, its response, and
  requests before and after. `nmbs_faults` uses pairs from all frames of the unit tests,
  and one of every other function code. The supply behind them is the mock of the tests, which
  takes POLARITY and RESET too; the 200 A supply, which refuses them, is in `modbus_server`.
* `LiveFrames`: a request, one for another unit, and one with an unknown function code, which
  is the traffic that leaves the LED on. What is read matters to no property of `nmbs_live`.
* `MaxFaults`: one byte lost, or altered to a value that matters to the layout, or one
  overflow. With several faults a 16-bit checksum can be met by chance, and the
  properties would say so of any implementation.
* `MaxRestarts`: one restart, at any place; a second one would begin from the same state.
* `FifoLen` is 32 on the Pico and shortened to 4 where overflow matters, so that one frame
  fills it. An overflow is one fault.
* `Endless`: when the line is quiet and the bounds are used up, they start anew. Without
  it every liveness property would speak of the last few messages only.
* `BufLen`: the flush reads 8 or 12 bytes at most instead of 260, so that it ends both
  ways: by silence and by a full buffer.
* `MaxEvents`: one thing happens to the supply by itself between any two steps; that it
  changes and changes back is in `ps_driver`, which has no such bound.
* `ps_frames`: the fields have their full width. Two readings and two setpoints, one of
  them 0, differ from their mirror images in every byte, and `MaxTyped` 1 puts one typed
  command after and before frames of every kind; which bits a write can reach does not
  depend on how many were typed, and is proved for every number.

### Fairness

`NmbsServer` and `ModbusServer` assume weak fairness of the controller's own steps: the
loop of `main` never ends and each of its calls returns, since `readUart` ends by bytes
or by timeout and SPI transfers are blocking but finite. Nothing is assumed about the
bus, the panel or the supply. `PowerSupply200A` and `PsFrames` assume it of the frames of
a call. `modbus_starved` is checked under the same fairness as `modbus_live`: every
controller step is taken, and it is the traffic that never ends.

### Refinement

`ImplementsServer` says that the firmware, with the supply hidden, is the server of
`NmbsServer` with callbacks that always return: `ModbusServer` has the variables of
`NmbsServer` unchanged, so the refinement mapping is the identity on them. What the
`nmbs_*` runs show of the server therefore holds in the firmware, fairness included:
a callback that waits for the supply is a callback that returns after a while.

`ImplementsDriver` says that, under the firmware, `PsFrames` implements `PowerSupply200A`
with `out` replaced by what the supply decodes from the bits of `psBufOut` and `in` by what
the driver decodes from `psBufIn`. What `ps_driver` shows of frames as records, with small
numbers, then holds of 32 and 48 bits with their reversals and repeated words. The steps
are named with the inputs of `PsFrames`, since those of `PowerSupply200A` range over all
65536 setpoints. The mapping carries the initial states and the steps, not the fairness:
it is stated with ENABLED of a step whose variables are expressions here, which TLC does
not evaluate. The fair action of both modules is the same, and enabled in the same states.

Both refinements are also proved for every value of the constants, as far as steps go
(`ImplementsDriverHolds`, `ServerStepsOnly`): see below.

## What is proved

All theorems hold for every value of the constants that meets the named assumptions of
the modules: positive levels and scale, any number of averaged frames (`CountAssumption`,
`ScaleAssumption`, `SupplyAssumption`); readings that fit their bits (`ReadingsAssumption`,
`WidthAssumption`: a measured current fits the 12 bits of its register); any checksum of two
bytes, any frames of bytes, any callbacks, any bound. Of the server they speak up to the first
message whose data has no room: a behaviour of the model stops reading there.

**`PowerSupply200A_proofs`**: `TypeOK`, `WriteEnabledOnce`, `OwnedAgrees`, `ReportFresh`,
`LocalTracks`, `WriteTakesEffect`, `SetCurrentReported`, and the action properties
`OnlyWhatWasAsked` and `ClosedByWriteOrSync`. Types need a bound that relates the partial sum to
the number of frames exchanged (`LoopBound`) and a lemma about integer division
(`PartOfScale`). The rest follows from `SafetyInv`. None of the properties is inductive:
that a report is fresh when a call returns depends on what each earlier frame of the
call did. `SafetyInv` adds what is true in the middle of a call: a supply that runs on
the driver's frame is in remote mode and shows it (`OwnedRemote`); a supply left alone
shows its mode after one frame and its circuit after two (`StatusFresh`); a waiting
request sits in a write-enabled frame (`RequestCarried`) that repeats the other
parameter (`OtherFieldKept`); a frame that was not measured holds the last current
asked for (`FrameAsked`). There is one lemma per action, and each lemma has one step
per conjunct that the action can disturb. `ClosedByWriteOrSync` needs one more part,
`ReadsAreProtected`: before the frame of local mode, a call that writes nothing sends no
write-enabled frame. That frame itself closes the circuit only of a supply that was touched and
had reported it closed, in local mode (`SyncCloses`). All of it is proved for a set `V` of the values callers may ask for (`SafetyOf(V)`), since the firmware
may ask for more than a current the supply can set; the theorems of the module are the case
`0..MaxOut`.

**`PsBits_proofs`**: the operators on bits. The sum over the bits of a number, and the doubling
of `readUint` from the highest bit down, give the number back (`CurrentOfBits`,
`ReadOfBits`), by `NextBit`, division with one bit more. Each bit written by `setUint`, with its
two reversals, is found by the supply at its own weight (`CurrentOnWire`, `ArrivedAt`), and no
write reaches a bit of another field (`SetUintOutside`, `SetBitValue`).

**`PsFrames_proofs`**: `UnusedStayZero`, `ControlAsWritten`, `CurrentAsWritten`, `ReportAsSent`,
`FirmwareWritesOnly` and `ImplementsDriver`, for every reading, setpoint and command. The
invariant `FrameInv` says that every field of `psBufOut` holds bit by bit what was written to it
last, and that what is decoded stays within its width; `StepRefined` has one case per action.
`FirmwarePromisesHold` then carries the safety properties of `PowerSupply200A` over to the bits
through the mapping, with the theorems of the abstract module as lemmas and no second proof.
`FirmwareWritesOnly` does the same for its steps: a supply that nobody touches changes by the
first frame of a write only (`FrameWrites`, `SyncNeedsTouch`).

**`NmbsServer_proofs`**: `ServedForUs`, `TypeOK`, `RepliesRepeatRequests`, `RepliesFollowRuns` and
`RequestKept`, without a word about the checksum. The inductive invariant ties `ignored` to the
first byte of the buffer from the second byte of a request on (`Addressed`); most of the work is
to show that reading more, or leaving out half a register, keeps that byte. For `TypeOK` it
says how long the buffer is in each phase (`Shape`), so that every byte that is looked at was
read, and how long it may be (`Sized`), so that every piece of a message whose data has room,
its checksum included, ends within the 260 bytes of `msg.buf`; `RepliesRepeatRequests` assumes that the callback of a read returns sequences of registers.
`RepliesFollowRuns` (each acknowledgement has a callback run of its own, in order, however many
requests are refused between them) needs to know that while a callback runs, it is the one run
not yet answered (`FollowInv`). `RequestKept` needs the bytes on the line: the piece
read next never takes more than the request still has (`KeepInv`). `ServedInv` and `Shape` are
proved for a server whose callback may answer anything (`AnyNext`), of which both the server
alone and the firmware are special cases.

**`NmbsTraffic_proofs`**: `CallbacksWereSent`, `RanWereSent` and `RepliesAnswerRequests`: what
is run and answered is what was sent, each at most once and in the order sent, for any frames,
faults and bounds. No server can promise that of every checksum: with a constant one, any bytes
are a request. It is a matter of the frames and the checksum alone, so that is what the
hypotheses speak of. `MayHold(hs, n, s)` says that a reader may be left with the bytes `s` after
the frames `hs` were sent and at most `n` faults disturbed them; it is the least relation closed
under the rules of the bus, and knows nothing of the server. `ChecksumDetects` says that no such
`s` begins with a request nobody sent; `TrafficSeparates` that a request at its head is one of
the frames sent, and what follows it may be left of the frames after that one. What is proved is
that the server, through all its phases, its foreign responses, flushes, timeouts and restarts,
never gets hold of anything else: `TrafficInv` says that the buffer and the line together are
something the bus may have left (`MayHold(heard, faults, buf \o line)`) as long as the request
is read, and `OrderInv` that after the frames dealt with so far what is in hand is left of later
ones (`DealtWith`, `StillToCome`). The hypotheses are not empty: TLC evaluates them for the bus
of `nmbs_live`, with one fault, and for those of `modbus_*`, and finds them false when the
checksum is replaced by a constant.

**`ModbusHandlers_proofs`**: a number of up to 16 bits sent as coils is the number `handleWriteData`
decodes (`ValueIsWhatWasSent`), and every value of a report is found whole at its place in the
three registers (`RegistersCarryReport`).

**`ModbusServer_proofs`**: `OneThread` is inductive as it stands. `FirmwareInv` puts together
`OneThread`, the invariants of the server, `SafetyOf` of the driver through its instance, and
`CallInv`: a call made for a callback asks for what the request in the buffer names, and the
supply was not touched unless an event was counted since. The buffer cannot change during
such a call because of `OneThread`. From it follow

* `ReadTellsTruth` and `AcknowledgedIsDone`: the driver's `ReportFresh` and `WriteTakesEffect` at the
  moment the callback returns, carried into the bytes of the response: mode, circuit and set
  current of a read, the value of a write;
* `AcceptedWasSent` and, with it, `OnlyWritesChange`: what reaches a callback was sent, and the supply
  changes by a write that was sent only (`AcceptedWasSentHolds`, `OnlyRequestsChange`), if
  `ChecksumDetects` holds of the bus. Without that hypothesis `ChangesAreWritesHolds` says
  everything but that the request was sent;
* `RanWereSent` and `RepliesAnswerRequests` of the firmware (`FirmwareServesInOrder`), if
  `TrafficSeparates` holds of the bus, and `RepliesFollowRuns` and `RequestKept` of any bus;
* `PollsEnd`: the firmware comes back to waiting for a request within a number of its own steps
  that depends on the constants only. The measure `StepsLeft` counts the pieces the poll may
  still read and the frames the supply call may still exchange; each step of the
  controller lowers it, and neither the bus nor the supply can raise it;
* the driver's promises (`FirmwareKeepsSupplyPromises`), `ServedForUs` and
  `RepliesRepeatRequests` in the firmware, the last without an assumption about callbacks: what
  `handleReadData` returns is known here;
* `ServerStepsOnly`, the steps of the refinement `ImplementsServer`: every step of the firmware
  is one of `NmbsServer` or leaves its variables alone. It assumes of the constants `Results` and
  `Registers`, which describe callbacks to the server alone, that they allow what the handlers
  return (`CallbacksAllowed`); what the driver reports is within `Reports` by `FirmwareInv`.

### Only model-checked

* Liveness (`AlwaysPollsAgain`, `QuietRequestAnswered`, `LedGoesOff`, `FollowedUnlessServing`) and the
  fairness in `ImplementsServer`: ENABLED is out of the prover's reach. `PollsEnd` is the part of it
  that is an action property, and is proved.
* `AllAnswered`: that an orderly bus gets every response depends on the frames of that bus, foreign
  requests with their responses among them; and it counts them with a fold, which cannot be
  reasoned about for sequences of any length.
* `AnsweredAsTested`: the concrete bytes of the unit tests.
* `ChecksumDetects` and `TrafficSeparates` themselves, which are about one checksum and concrete frames.
  TLC computes them for `nmbs_live` and `modbus_*`. For the frames of `nmbs_faults` (every function
  code, in pairs, with one fault) that takes too long; there TLC checks `RanWereSent` and
  `RepliesAnswerRequests` of the server's own states.
* `Crc16`: its recursion over the bytes of a message is compared with the tables by TLC.
  Recursion over the bits of one number is another matter: its depth is the width of a field, and
  `PsBits_proofs` and `ModbusHandlers_proofs` treat it by induction over a set of numbers
  (`BoundedInduction`).

`MCCrc16` computes the checksum with tables; its assumption `SameChecksum`, which TLC
evaluates, says that a byte adds what `Crc16`, the translation of the source, adds.

## What is not modelled

* The exchange of a frame word by word: the supply acts on a frame as a whole, so a key
  turned or a restart in the middle of one is a key turned or a restart before or after it.
* In `ModbusServer`, voltage, error bits and polarity, which the driver passes on:
  `PsFrames` shows that they are read as they were sent, and `nmbs_faults` covers their
  place in the registers, with the values of the tests.
* Data that there is no room for. A count of data is believed before the checksum is looked at:
  more than 250 bytes for function 15, 247 for 16 and for 23, or a foreign response of a file
  function that announces a length beyond `msg.buf`, are written over what lies behind `msg.buf` or
  behind the array of the handler (`nanomodbus.c:941`, `1014`, `1304`, `635`). A step that would do
  so is left out. A length that was not received is taken for one that fits. A read that ends
  early may write beyond `msg.buf` too, but only over fields that the next poll sets anew.
* The LED after a poll that ends with a header stays on until the next message or timeout
  (`EndedByHeader`); nothing in the repository says that it should not.
* Writes of more than 32 coils, whose shifts leave an `int`, and which the callback has
  no use for.
* What lies beyond the received bytes in `msg.buf`: a write of file records that announces
  more than it brings may be refused in any way, and a foreign response of that kind may
  be found right or wrong (`WriteFileVerdict`, `ChecksumOutcomes`).
* Times. A read gets its bytes or gives up, whichever comes first, and an overflow of the
  FIFO may happen whenever nobody reads and enough bytes have come.
* The TCP transport and the client half of nanoMODBUS, which the firmware never runs.
* The Linux controller and the mock of the Pico's controller. Their read functions take
  five parameters where `nmbs_platform_conf` (`nanomodbus.h:133`) asks for six, so neither
  compiles at this commit, and there is no behaviour to be faithful to. Were a parameter
  added, the read of `LinuxController.cpp:45` would put what follows a short read at the
  front of the buffer.
* The stub supply (`PowerSupply.hpp`), for builds without a supply: it stores what it is given
  and returns it, with no protocol, concurrency or failure.

## Plan

Done, in this order: `PowerSupply200A` and its proofs; `Crc16`, `ModbusHandlers` and
`NmbsServer`; their composition `ModbusServer`; restarts, overflow and endless traffic in
both; `PsBits` and `PsFrames` with the refinement; the proofs of the refinement to the
bits, of the callbacks, and of what the firmware promises as a whole; then the order of requests
and responses on a disturbed bus, the bound on a poll, and the writes on the bits. What could be
added, most important first:

1. A frame as six words, with the supply or the controller failing between two of them.
2. The measured current in a read response as a property: it is proved where it sits in the
   registers (`RegistersCarryReport`), and that what the supply sent is what is read
   (`ReportAsSent`); the average over several frames has no single state to be compared with.
3. A composition of `ModbusServer` with `PsFrames` in the place of `PowerSupply200A`, to state
   response and bits in one formula. Its steps follow from the two refinements proved here.

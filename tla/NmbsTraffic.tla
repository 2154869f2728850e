------------------------------ MODULE NmbsTraffic ------------------------------
(***************************************************************************)
(* What the line may bring the Modbus server of NmbsServer, whatever the   *)
(* server does with it, and what is asked of the checksum: it can be       *)
(* fooled, and whether it is, within the bounds, is a matter of the frames *)
(* on the bus and of the disturbances, not of the server.                  *)
(***************************************************************************)
EXTENDS NmbsServer

\* Where the fixed part of a request ends, and how much data it announces.
FixedEnd(msg)  == 2 + FixedLen(Fc(msg))
DataLen(msg)   == IF HasData(Fc(msg)) THEN msg[FixedEnd(msg)] ELSE 0
WholeData(msg) == Fc(msg) \in {16, 23} => msg[FixedEnd(msg)] % 2 = 0

\* All of a request but its checksum, and what the buffer holds of it.
WholeBody(raw) ==
  /\ Len(raw) >= 2 /\ Fc(raw) \in Functions
  /\ FixedEnd(raw) <= Len(raw) /\ Len(raw) = FixedEnd(raw) + DataLen(raw)

AsTaken(raw) == IF Fc(raw) \in {16, 23} THEN WholeRegisters(raw) ELSE raw

\* A request that reaches a callback: whole, for this unit, with its checksum, and
\* not refused by the handler before.
Callable(f) == WholeRequest(f) /\ 0 \in Verdict(SubSeq(f, 1, Len(f) - 2))
-----------------------------------------------------------------------------
\* What a server that has read its fill may still hold, in the buffer and on the
\* line, when the frames hs were sent and the line was disturbed at most n times.
\* The rules are those of the bus: a frame comes behind what is there, a byte is lost
\* or garbled, what does not fit into the UART is lost (Send, Disturb, Overflow).
\* What is read and dealt with goes from the head.
FollowsBus(S) ==
  /\ <<<<>>, 0, <<>>>> \in S
  /\ \A hs \in Seq(Frames), n \in Nat, s \in Seq(Byte) : <<hs, n, s>> \in S =>
       /\ <<hs, n + 1, s>> \in S
       /\ \A f \in Frames : <<Append(hs, f), n, s \o f>> \in S
       /\ \A k \in 1..Len(s) + 1 : <<hs, n, SubSeq(s, k, Len(s))>> \in S
       /\ \A i \in 1..Len(s) :
            /\ <<hs, n + 1, RemoveAt(s, i)>> \in S
            /\ \A b \in Noise : <<hs, n + 1, ReplaceAt(s, i, b)>> \in S
       /\ \A next \in FifoLen + 2..Len(s) + 1 :
            <<hs, n + 1, SubSeq(s, 1, FifoLen) \o SubSeq(s, next, Len(s))>> \in S

MayHold(hs, n, s) == \A S : FollowsBus(S) => <<hs, n, s>> \in S

\* Within the bounds no disturbance and no unlucky stretch of the traffic makes a
\* request that nobody sent.
ChecksumDetects ==
  \A hs \in Seq(Frames), n \in 0..MaxFaults, s \in Seq(Byte) :
    Len(hs) <= MaxFrames /\ MayHold(hs, n, s) =>
      \A f \in Seq(Byte) : IsPrefix(f, s) /\ Callable(f) => f \in Range(hs)

\* Within the bounds what is taken for a request is a frame that was sent, and what
\* is behind it is what the later frames left.
TrafficSeparates ==
  \A hs \in Seq(Frames), n \in 0..MaxFaults,
     raw \in Seq(Byte), sum \in Seq(Byte), rest \in Seq(Byte) :
    /\ Len(hs) <= MaxFrames /\ MayHold(hs, n, raw \o (sum \o rest))
    /\ WholeBody(raw) /\ ForUs(raw) /\ Len(sum) = 2 /\ Word(sum, 1) = Crc(AsTaken(raw))
    => \E j \in 1..Len(hs) :
         /\ hs[j] = AsTaken(raw) \o sum
         /\ MayHold(SubSeq(hs, j + 1, Len(hs)), n, rest)
-----------------------------------------------------------------------------
(***************************************************************************)
(* The same computed, for frames and bounds small enough.                  *)
(***************************************************************************)
Tails(s) == {SubSeq(s, k, Len(s)) : k \in 1..Len(s) + 1}

Disturbed(s) ==
  {s} \cup {RemoveAt(s, i) : i \in DOMAIN s}
      \cup {ReplaceAt(s, i, b) : i \in DOMAIN s, b \in Noise}
      \cup {SubSeq(s, 1, FifoLen) \o SubSeq(s, next, Len(s)) : next \in FifoLen + 2..Len(s) + 1}

\* Every s with MayHold(hs, n, s).
Held(hs, n) ==
  LET held[k \in 0..Len(hs), m \in 0..n] ==
        LET sent == IF k = 0 THEN {<<>>} ELSE {s \o hs[k] : s \in held[k - 1, m]}
            hit  == IF m = 0 THEN {} ELSE UNION {Disturbed(s) : s \in held[k, m - 1]}
        IN  UNION {Tails(s) : s \in sent \cup hit}
  IN  held[Len(hs), n]

Detected(hs, s) ==
  \A f \in {SubSeq(s, 1, k) : k \in 4..Len(s)} : Callable(f) => f \in Range(hs)

KeptApart(hs, n, s) ==
  \A k \in 2..Len(s) - 2 :
    LET raw  == SubSeq(s, 1, k)
        sum  == SubSeq(s, k + 1, k + 2)
        rest == SubSeq(s, k + 3, Len(s))
    IN  WholeBody(raw) /\ ForUs(raw) /\ Word(sum, 1) = Crc(AsTaken(raw)) =>
          \E j \in DOMAIN hs :
            hs[j] = AsTaken(raw) \o sum /\ rest \in Held(SubSeq(hs, j + 1, Len(hs)), n)

\* ChecksumDetects and TrafficSeparates of a run's frames and bounds.
TrafficIsSafe(frames) ==
  \A hs \in UNION {[1..k -> frames] : k \in 0..MaxFrames} : \A n \in 0..MaxFaults :
    \A s \in Held(hs, n) : Detected(hs, s) /\ KeptApart(hs, n, s)
=============================================================================

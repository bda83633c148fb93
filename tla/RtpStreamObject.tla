--------------------------- MODULE RtpStreamObject ---------------------------
(***************************************************************************)
(* The detector object of src/src/RtpStream.cpp (struct RtpStreamImpl) as  *)
(* a record and one operator per method.  The modules that own such        *)
(* objects (RtpStream, MQmon) apply the operators to the streams they      *)
(* hold.                                                                   *)
(*                                                                         *)
(* A packet is a record of the fields the detector reads, or NotRtp when   *)
(* RtpPacketParser::Parse refuses the bytes (version other than 2, more    *)
(* than three CSRCs, or shorter than its header).  The header length the   *)
(* code compares is 12 + 4 * cc, so cc stands for both; a parsed version   *)
(* is always 2.  Capture and transmission times kept for the unreachable   *)
(* half of CalculateOneWayDelay are left out.                              *)
(***************************************************************************)
EXTENDS Integers, Sequences

CONSTANTS
    MaxSeq,         \* RtpPacketParser::MAX_SEQ_NUM, 2^16 - 1 in the code
    TimeMod,        \* number of RTP timestamps, 2^32 in the code
    CountMod,       \* number of values of the UINT32 nRecvPackts
    LossMod,        \* number of UINT64 values, 2^64 in the code
    CCs,            \* CSRC counts of the packets
    Sources,        \* SSRCs of the packets
    Times,          \* RTP timestamps of the packets
    Payloads,       \* payload types of the packets
    DetectSizes,    \* values given to MQmon::SetRtpDetectionPacketsNum
    NotRtp          \* bytes that do not parse as RTP

ASSUME WidthAssumption ==
    /\ MaxSeq \in Nat /\ TimeMod \in Nat \ {0} /\ CountMod \in Nat
    /\ CountMod > MaxSeq + 1
    /\ LossMod \in Nat /\ LossMod > 2 * CountMod

ASSUME PacketAssumption ==
    /\ CCs \subseteq 0..3
    /\ Sources \subseteq Nat
    /\ Times \subseteq 0..(TimeMod - 1)
    /\ Payloads \subseteq 0..127
    /\ 0 \in Payloads

\* A window of fewer than two packets makes DetectStream step before the
\* first list node, which is undefined.
ASSUME DetectAssumption == DetectSizes \subseteq Nat \ {0, 1}

SeqNums == 0..MaxSeq

Packet == [cc: CCs, ssrc: Sources, seq: SeqNums, ts: Times, pt: Payloads]

ASSUME NotRtpAssumption == NotRtp \notin Packet

MAX_NOISE_PACKETS == 1

Stream ==
    [nlast: DetectSizes, valid: BOOLEAN, window: Seq(Packet),
     minSeq: SeqNums, maxSeq: SeqNums, received: 0..(CountMod - 1),
     noise: Nat, codec: 0..127, ssrc: Nat]

-----------------------------------------------------------------------------

\* Constructor, and reset() which constructs in place.  The noise counter
\* starts at the number of detection packets.
NewStream(nDetect) ==
    [nlast |-> nDetect, valid |-> FALSE, window |-> <<>>,
     minSeq |-> 0, maxSeq |-> 0, received |-> 0,
     noise |-> nDetect, codec |-> 0, ssrc |-> 0]

\* fastCheckRTP
Consistent(p, q) == p.cc = q.cc /\ p.ssrc = q.ssrc

Back(q) == q[Len(q)]

\* BoundedQueue::push_back on a queue that never exceeds max.
PushBack(q, v, max) ==
    IF Len(q) < max THEN Append(q, v) ELSE Tail(Append(q, v))

MinOf(a, b) == IF b < a THEN b ELSE a
MaxOf(a, b) == IF b > a THEN b ELSE a

\* Faulty variants of invalidateStream: the minimum starts one above the
\* sequence numbers; the stream is not marked invalid.
InvalidatedPastWidth(s) ==
    [s EXCEPT !.valid = FALSE, !.minSeq = MaxSeq + 1, !.maxSeq = 0, !.noise = 0]

InvalidatedStaysValid(s) ==
    [s EXCEPT !.minSeq = MaxSeq, !.maxSeq = 0, !.noise = 0]

\* invalidateStream: the window is kept.
Invalidated(s) ==
    [s EXCEPT !.valid = FALSE, !.minSeq = MaxSeq, !.maxSeq = 0, !.noise = 0]

\* handleNoisePacket
NoiseStops(s) == s.noise + 1 > MAX_NOISE_PACKETS

AfterNoise(s) ==
    CASE ~s.valid                   -> s
      [] s.valid /\ NoiseStops(s)   -> Invalidated(s)
      [] s.valid /\ ~NoiseStops(s)  -> [s EXCEPT !.noise = @ + 1]

-----------------------------------------------------------------------------

\* Faulty variants of the packet tests: a packet of another source is let
\* into a valid stream; equal numbers pass; only equal numbers are dropped.
IsNoiseUnparsedOnly(s, p) == p = NotRtp

IsDuplicateLateOnly(s, p) ==
    /\ s.window # <<>>
    /\ Consistent(Back(s.window), p)
    /\ Back(s.window).seq > p.seq

IsDuplicateEqualOnly(s, p) ==
    /\ s.window # <<>>
    /\ Consistent(Back(s.window), p)
    /\ Back(s.window).seq = p.seq

\* IndicateRtpPacket: the three ways a packet leaves the method.
IsNoise(s, p) ==
    \/ p = NotRtp
    \/ s.window # <<>> /\ s.valid /\ ~Consistent(Back(s.window), p)

IsDuplicate(s, p) ==
    /\ s.window # <<>>
    /\ Consistent(Back(s.window), p)
    /\ Back(s.window).seq >= p.seq

\* Faulty variant: an accepted packet does not forget the noise before it.
AcceptedKeepsNoise(s, p) ==
    [s EXCEPT !.window = PushBack(s.window, p, s.nlast),
              !.minSeq = MinOf(s.minSeq, p.seq),
              !.maxSeq = MaxOf(s.maxSeq, p.seq),
              !.received = (s.received + 1) % CountMod]

Accepted(s, p) ==
    [s EXCEPT !.noise = 0,
              !.window = PushBack(s.window, p, s.nlast),
              !.minSeq = MinOf(s.minSeq, p.seq),
              !.maxSeq = MaxOf(s.maxSeq, p.seq),
              !.received = (s.received + 1) % CountMod]

AfterIndicate(s, p) ==
    CASE IsNoise(s, p)                           -> AfterNoise(s)
      [] ~IsNoise(s, p) /\ IsDuplicate(s, p)     -> s
      [] ~IsNoise(s, p) /\ ~IsDuplicate(s, p)    -> Accepted(s, p)

\* The boolean the method returns.
IndicateReturns(s, p) == IsNoise(s, p) => (s.valid /\ ~NoiseStops(s))

-----------------------------------------------------------------------------

\* DetectStream.  Sequence numbers are promoted to int before subtracting;
\* timestamps are subtracted as UINT32 and only then widened to INT64.
SignsDiffer(p, q) ==
    LET dSeq  == q.seq - p.seq
        dTime == (q.ts - p.ts) % TimeMod
    IN  (dSeq < 0) # (dTime < 0)

Full(s) == Len(s.window) >= s.nlast

HeadersAgree(w) == \A i \in 1..(Len(w) - 1) : Consistent(w[i], w[i + 1])

WindowMin(w) == CHOOSE m \in {w[i].seq : i \in 1..Len(w)} :
                    \A i \in 1..Len(w) : m <= w[i].seq

WindowMax(w) == CHOOSE m \in {w[i].seq : i \in 1..Len(w)} :
                    \A i \in 1..Len(w) : w[i].seq <= m

Detects(s) ==
    /\ Full(s)
    /\ HeadersAgree(s.window)
    /\ \A i \in 1..(Len(s.window) - 1) :
           ~SignsDiffer(s.window[i], s.window[i + 1])
    /\ WindowMin(s.window) + s.nlast - 2 <= WindowMax(s.window)

\* Faulty variant: detection does not restart the count of packets.
DetectedKeepsCount(s) ==
    LET last == s.window[Len(s.window) - 1]
    IN  [s EXCEPT !.valid = TRUE,
                  !.minSeq = WindowMin(s.window),
                  !.maxSeq = WindowMax(s.window),
                  !.codec = last.pt,
                  !.ssrc = last.ssrc]

\* The codec and the SSRC are those of the last packet but one, where the
\* iterator prev stands after its final decrement.
Detected(s) ==
    LET last == s.window[Len(s.window) - 1]
    IN  [s EXCEPT !.valid = TRUE,
                  !.minSeq = WindowMin(s.window),
                  !.maxSeq = WindowMax(s.window),
                  !.received = s.nlast % CountMod,
                  !.codec = last.pt,
                  !.ssrc = last.ssrc]

AfterDetect(s) == IF Detects(s) THEN Detected(s) ELSE Invalidated(s)

\* CalculatePacketLossRate without an RTCP report: the rate is
\* LossNumerator / Span, the numerator being a UINT64 difference.
Span(s) == s.maxSeq - s.minSeq + 1

LossNumerator(s) == (s.received - Span(s)) % LossMod

-----------------------------------------------------------------------------

(***************************************************************************)
(* What the methods preserve, for any object that starts as a NewStream.   *)
(***************************************************************************)

\* Wherever the headers of a stretch of a window agree, its sequence numbers
\* strictly increase: IndicateRtpPacket drops what does not advance.
RunsIncrease(w) ==
    \A i, j \in 1..Len(w) :
        (i < j /\ \A k \in i..j : Consistent(w[k], w[j]))
            => w[i].seq < w[j].seq

\* All packets of a window carry one header and advance.
OneStream(w) ==
    \A i, j \in 1..Len(w) :
        Consistent(w[i], w[j]) /\ (i < j => w[i].seq < w[j].seq)

\* The figures behind the loss rate of a valid stream.
FiguresAgree(s) ==
    /\ s.received <= Span(s)
    /\ s.maxSeq = Back(s.window).seq
    /\ s.minSeq <= s.window[1].seq

ObjectInv(s) ==
    /\ s \in Stream
    /\ Len(s.window) <= s.nlast
    /\ RunsIncrease(s.window)
    /\ s.valid => /\ Len(s.window) = s.nlast
                  /\ OneStream(s.window)
                  /\ FiguresAgree(s)
=============================================================================

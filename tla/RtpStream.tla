------------------------------ MODULE RtpStream ------------------------------
(***************************************************************************)
(* One CMQmonStream and the callers of its public methods: packets are     *)
(* indicated, detection is asked for, the stream is reset and its codec    *)
(* overridden, in any order (src/include/mqa/RtpStream.h puts no order on  *)
(* them).                                                                  *)
(***************************************************************************)
EXTENDS RtpStreamObject, FiniteSets

VARIABLES
    stream,     \* the RtpStreamImpl
    counted     \* history: sequence numbers counted since the last detection

vars == <<stream, counted>>

Init ==
    /\ \E n \in DetectSizes : stream = NewStream(n)
    /\ counted = {}

\* The counted packets are those of the window when detection succeeds, and
\* each packet accepted after that.
IndicateRtpPacket(p) ==
    /\ stream' = AfterIndicate(stream, p)
    /\ counted' = IF ~IsNoise(stream, p) /\ ~IsDuplicate(stream, p)
                  THEN counted \cup {p.seq} ELSE counted

DetectStream ==
    /\ stream' = AfterDetect(stream)
    /\ counted' = IF Detects(stream)
                  THEN {stream.window[i].seq : i \in 1..Len(stream.window)}
                  ELSE {}

Reset(n) ==
    /\ stream' = NewStream(n)
    /\ counted' = {}

SetCodecType(c) ==
    /\ stream' = [stream EXCEPT !.codec = c]
    /\ UNCHANGED counted

Next ==
    \/ \E p \in Packet \cup {NotRtp} : IndicateRtpPacket(p)
    \/ DetectStream
    \/ \E n \in DetectSizes : Reset(n)
    \/ \E c \in Payloads : SetCodecType(c)

Spec == Init /\ [][Next]_vars

-----------------------------------------------------------------------------

\* Types of the detector's fields.
TypeOK ==
    /\ stream \in Stream
    /\ counted \in SUBSET SeqNums

\* While the stream is valid its window is full, all its packets carry one
\* header, and their sequence numbers strictly increase: noise and late
\* packets that were let through never reached the window.
ValidWindow ==
    stream.valid => Len(stream.window) = stream.nlast /\ OneStream(stream.window)

\* The figures behind the loss rate: while the stream is valid, the packets
\* counted are exactly the distinct sequence numbers accepted since
\* detection, and the range they span is the one they were taken from.
LossAccounting ==
    stream.valid =>
        /\ stream.received = Cardinality(counted)
        /\ stream.minSeq \in counted /\ stream.maxSeq \in counted
        /\ counted \subseteq stream.minSeq .. stream.maxSeq

\* What CalculatePacketLossRate divides never exceeds one: no more packets
\* are counted than the range has numbers, and the newest packet tops it.
ReceivedWithinSpan == stream.valid => FiguresAgree(stream)

\* Detection comes down to a full window with one header: in every reachable
\* state the sign test and the span test of DetectStream are decided by that.
DetectionExact ==
    Detects(stream) <=> Full(stream) /\ HeadersAgree(stream.window)

\* While the stream stays valid its range only grows to newer numbers, except
\* that asking for detection again moves its start up to the window.
RangeAdvances ==
    [][stream.valid /\ stream'.valid =>
           stream'.maxSeq >= stream.maxSeq /\ stream'.minSeq >= stream.minSeq]_vars

\* CalculatePacketLossRate without an RTCP report computes the numerator of
\* the rate from UINT32 and UINT64 operands, in UINT64; it clamps a rate below
\* zero to zero, so it claims a fraction of the span.
LossRateIsFraction ==
    stream.valid => LossNumerator(stream) <= Span(stream)
=============================================================================

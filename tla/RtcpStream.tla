----------------------------- MODULE RtcpStream -----------------------------
(***************************************************************************)
(* The RTCP half of the detector in src/src/RtpStream.cpp, next to its RTP *)
(* half (RtpStreamObject), and src/src/RtcpPacketParser.cpp.               *)
(*                                                                         *)
(* An RTCP packet is a record: whether its header is valid, its report     *)
(* type (SR, RR, OTHER), its ssrc, the NTP time with the sender's counts   *)
(* as one number (sender, not zero in a sender report), whether the sender *)
(* information and the blocks fit the length the header claims, and the    *)
(* blocks.  Packets come through CMQmonStream, so they are not parsed yet. *)
(***************************************************************************)
EXTENDS RtpStreamObject, TimeSec

CONSTANTS
    Reports,        \* the RTCP packets
    RtpPackets,     \* the RTP packets
    CaptureTimes,   \* capture times, in sub-seconds
    DelayUnit,      \* units of dlxr in a second, 65536 in the code
    MaxRtcp         \* NLAST_RTCP

ReportBlock == [ssrc: Nat, dlxr: Nat]

ASSUME RtcpAssumption ==
    /\ RtpPackets \subseteq Packet /\ CaptureTimes \subseteq Int
    /\ DelayUnit \in Nat \ {0} /\ MaxRtcp \in Nat \ {0}
    /\ \A r \in Reports : r.ssrc \in Nat /\ r.sender \in Nat /\ r.blocks \in Seq(ReportBlock)

VARIABLES
    rtp,            \* the RTP half: a Stream
    rtcp,           \* lastRtcpPackets and captureDelay
    exactDelay      \* history: the delay in sub-seconds, from integers

rtcpVars == <<rtp, rtcp, exactDelay>>

NewRtcp == [packets |-> <<>>, delay |-> Zero]

RtcpInit == (\E n \in DetectSizes : rtp = NewStream(n)) /\ rtcp = NewRtcp /\ exactDelay = 0

-----------------------------------------------------------------------------

\* ParseReceptionReports: blocks about no source are skipped.
Blocks(r) ==
    LET taken[n \in 0..Len(r.blocks)] ==
            IF n = 0 THEN <<>>
            ELSE IF r.blocks[n].ssrc > 0 THEN Append(taken[n - 1], r.blocks[n]) ELSE taken[n - 1]
    IN  taken[Len(r.blocks)]

\* Parse.  A sender report whose blocks do not fit is taken as one without
\* sender information and blocks, and so is a packet of another type.
Parsed(r) ==
    CASE r.type = "SR" /\ r.fits -> [ssrc |-> r.ssrc, sender |-> r.sender, blocks |-> Blocks(r)]
      [] r.type = "RR"           -> [ssrc |-> r.ssrc, sender |-> 0, blocks |-> Blocks(r)]
      [] OTHER                   -> [ssrc |-> r.ssrc, sender |-> 0, blocks |-> <<>>]

Front(q) == q[1]

IsAssociated(p, packet) == p.ssrc = packet.ssrc \/ p.blocks[1].ssrc = packet.ssrc

\* The sender information of the packet before is compared with that of the
\* packet as it came, which is not parsed and zero.
Repeated(q, r) == q # <<>> /\ Back(q).sender = 0

\* Faulty variant of the acceptance: a packet without blocks is stored.
StoresEmpty(r) ==
    /\ r.valid /\ ~Repeated(rtcp.packets, r) /\ rtp.window # <<>>
    /\ \/ Parsed(r).ssrc = Front(rtp.window).ssrc
       \/ Parsed(r).blocks # <<>> /\ IsAssociated(Parsed(r), Front(rtp.window))

Stores(r) ==
    /\ r.valid /\ ~Repeated(rtcp.packets, r)
    /\ Parsed(r).blocks # <<>> /\ rtp.window # <<>>
    /\ IsAssociated(Parsed(r), Front(rtp.window))

\* ToTimeSec of dlxr, cut off behind the sub-second.
DelaySinceReport(b) == OfCount((b.dlxr * SubSec) \div DelayUnit)

\* Faulty variant of calcRtcpDelay: a negative delay is kept.
RtcpDelaySigned(curr, prev) ==
    Minus(Minus(curr.capTime, prev.capTime), DelaySinceReport(curr.blocks[1]))

\* calcRtcpDelay
RtcpDelay(curr, prev) ==
    LET delay == Minus(Minus(curr.capTime, prev.capTime), DelaySinceReport(curr.blocks[1]))
    IN  IF Before(delay, Zero) THEN Zero ELSE delay

Measures(curr) ==
    /\ rtcp.packets # <<>>
    /\ curr.blocks[1].ssrc = rtp.ssrc /\ Back(rtcp.packets).ssrc = rtp.ssrc

\* IndicateRtcpPacket
IndicateRtcpPacket(r, t) ==
    LET p    == Parsed(r)
        curr == [ssrc |-> p.ssrc, sender |-> p.sender, blocks |-> p.blocks, capTime |-> OfCount(t)]
        prev == Back(rtcp.packets)
    IN  /\ Stores(r)
        /\ rtcp' = [packets |-> PushBack(rtcp.packets, curr, MaxRtcp),
                    delay |-> IF Measures(curr) THEN RtcpDelay(curr, prev) ELSE rtcp.delay]
        /\ exactDelay' =
               IF Measures(curr)
               THEN MaxOf(0, t - Count(prev.capTime) - (curr.blocks[1].dlxr * SubSec) \div DelayUnit)
               ELSE exactDelay
        /\ UNCHANGED rtp

\* Any RTP packet through the interface: indicated, and detected if the
\* stream is not valid yet.
IndicateRtp(p) ==
    LET s == AfterIndicate(rtp, p)
    IN  /\ rtp' = IF IndicateReturns(rtp, p) /\ ~s.valid THEN AfterDetect(s) ELSE s
        /\ UNCHANGED <<rtcp, exactDelay>>

ResetRtcp ==
    /\ rtp' = NewStream(rtp.nlast) /\ rtcp' = NewRtcp /\ exactDelay' = 0

RtcpNext ==
    \/ \E r \in Reports, t \in CaptureTimes : IndicateRtcpPacket(r, t)
    \/ \E p \in RtpPackets \cup {NotRtp} : IndicateRtp(p)
    \/ ResetRtcp

RtcpSpec == RtcpInit /\ [][RtcpNext]_rtcpVars

-----------------------------------------------------------------------------

\* Faulty variant: only the newest packet is looked at.
OwnReportNewest(s, q) == IF q # <<>> /\ Back(q).blocks[1].ssrc = s.ssrc THEN Len(q) ELSE 0

\* GetRtcpStatsReport: the index of the newest packet whose first block is
\* about the stream, 0 for NULL.
OwnReport(s, q) ==
    LET own == {n \in 1..Len(q) : q[n].blocks[1].ssrc = s.ssrc}
    IN  IF own = {} THEN 0 ELSE CHOOSE n \in own : \A m \in own : m <= n

\* CalculatePacketLossRate and CalculateJitter take their figures from it.
LossFromRtcp == OwnReport(rtp, rtcp.packets) # 0

RtcpTypeOK ==
    /\ rtp \in Stream /\ exactDelay \in Nat
    /\ Len(rtcp.packets) <= MaxRtcp
    /\ rtcp.delay \in [sec: Nat, nsec: 0..SubSec]

\* Every stored packet has a block, which GetRtcpStatsReport and the delay
\* read without a test, and it is about a source other than none.
BlocksPresent ==
    \A n \in 1..Len(rtcp.packets) :
        rtcp.packets[n].blocks # <<>> /\ rtcp.packets[n].blocks[1].ssrc > 0

\* The delay is the exact difference of the capture times less the delay at
\* the receiver, with the carries of timesec, and never negative.
DelayExact == Count(rtcp.delay) = exactDelay

\* What is kept of RTCP can be read without a test, and its delay is exact.
RtcpInv == RtcpTypeOK /\ BlocksPresent /\ DelayExact

\* The only own report left is the oldest of a full queue: the next packet that
\* is kept pushes it out.
NextToLeave == OwnReport(rtp, rtcp.packets) = 1 /\ Len(rtcp.packets) = MaxRtcp

\* A valid stream never loses the loss rate it has from RTCP to its own count
\* but by reset, or when newer packets push the report out of the full queue.
LossRateStays ==
    [][(LossFromRtcp /\ rtp.ssrc = rtp'.ssrc /\ ~LossFromRtcp')
          => (rtcp' = NewRtcp \/ NextToLeave)]_rtcpVars
=============================================================================

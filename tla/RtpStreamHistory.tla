-------------------------- MODULE RtpStreamHistory --------------------------
(***************************************************************************)
(* RtpStream with a record of the noise packets it was given, to state     *)
(* when handleNoisePacket of src/src/RtpStream.cpp may stop a stream.      *)
(***************************************************************************)
EXTENDS RtpStream

VARIABLE noiseSince     \* noise packets since the last accepted one, up to RunBound

\* Bound of the history counter: one more than the noise a stream stands.
RunBound == MAX_NOISE_PACKETS + 1

HistoryInit == Init /\ noiseSince = 0

Indicate(p) ==
    /\ IndicateRtpPacket(p)
    /\ noiseSince' = CASE IsNoise(stream, p) -> MinOf(RunBound, noiseSince + 1)
                       [] ~IsNoise(stream, p) /\ IsDuplicate(stream, p) -> noiseSince
                       [] OTHER -> 0

ResetHistory(n) == Reset(n) /\ noiseSince' = 0

HistoryNext ==
    \/ \E p \in Packet \cup {NotRtp} : Indicate(p)
    \/ DetectStream /\ UNCHANGED noiseSince
    \/ \E n \in DetectSizes : ResetHistory(n)
    \/ \E c \in Payloads : SetCodecType(c) /\ UNCHANGED noiseSince

HistorySpec == HistoryInit /\ [][HistoryNext]_<<vars, noiseSince>>

-----------------------------------------------------------------------------

\* A packet that is not noise and not late makes the stream forget the noise
\* before it: a valid stream is stopped by Reset, or after more noise packets
\* since the last accepted one than MAX_NOISE_PACKETS, and not by DetectStream.
StopNeedsNoise ==
    [][(stream.valid /\ ~stream'.valid) =>
           \/ noiseSince' > MAX_NOISE_PACKETS
           \/ \E n \in DetectSizes : stream' = NewStream(n)]_<<vars, noiseSince>>
=============================================================================

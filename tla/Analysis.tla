------------------------------ MODULE Analysis ------------------------------
(***************************************************************************)
(* The detector and what works above and beside it, one part per           *)
(* behaviour: the RTP half of a detector and its RTCP half, an analyzer    *)
(* with its tables and its dumper, a direction of the test driver, and the *)
(* time arithmetic all rely on.  The parts share no state.                 *)
(***************************************************************************)
EXTENDS RtpStreamHistory, AnalyzerImpl, StreamDriver, TimeRegister

VARIABLE part

detectorVars == <<vars, noiseSince>>

analysisVars == <<part, detectorVars, analyzerVars, rtcpVars, driverVars, timeVars>>

\* A part that is not used keeps one of its initial states.
Pinned(n) == \A m \in DetectSizes : n <= m

AnalysisInit ==
    /\ part \in {"detector", "analyzer", "rtcp", "driver", "time"}
    /\ HistoryInit /\ AnalyzerInit /\ RtcpInit /\ DriverInit /\ TimeInit
    /\ part # "detector" => Pinned(stream.nlast)
    /\ part # "analyzer" => traffic = (CHOOSE t \in Traffics : TRUE) /\ ~asserting
    /\ part # "rtcp" => Pinned(rtp.nlast)
    /\ part # "driver" => Pinned(indirect.nlast)

UseDetector ==
    /\ part = "detector" /\ HistoryNext
    /\ UNCHANGED <<part, analyzerVars, rtcpVars, driverVars, timeVars>>

UseAnalyzer ==
    /\ part = "analyzer" /\ AnalyzerNext
    /\ UNCHANGED <<part, detectorVars, rtcpVars, driverVars, timeVars>>

UseRtcp ==
    /\ part = "rtcp" /\ RtcpNext
    /\ UNCHANGED <<part, detectorVars, analyzerVars, driverVars, timeVars>>

UseDriver ==
    /\ part = "driver" /\ DriverNext
    /\ UNCHANGED <<part, detectorVars, analyzerVars, rtcpVars, timeVars>>

UseTime ==
    /\ part = "time" /\ TimeNext
    /\ UNCHANGED <<part, detectorVars, analyzerVars, rtcpVars, driverVars>>

AnalysisNext == UseDetector \/ UseAnalyzer \/ UseRtcp \/ UseDriver \/ UseTime

AnalysisSpec == AnalysisInit /\ [][AnalysisNext]_analysisVars
=============================================================================

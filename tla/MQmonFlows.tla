----------------------------- MODULE MQmonFlows -----------------------------
(***************************************************************************)
(* Users of MQmon who feed every packet through an interface and go by its *)
(* answers (src/include/mqa/MQmonIf.h): what they were told, and how many  *)
(* RTP packets in a row each stream was given.                             *)
(***************************************************************************)
EXTENDS MQmon

VARIABLES
    active,     \* streams the user takes for active, by the answers
    run         \* RTP packets in a row of one header, up to MaxRun

flowVars == <<vars, active, run>>

\* Bound of run; no smaller than any detection size.
MaxRun == CHOOSE n \in DetectSizes : \A m \in DetectSizes : m <= n

ASSUME BoundAssumption == \E n \in DetectSizes : \A m \in DetectSizes : m <= n

NewRun(o, p, r) ==
    CASE IsNoise(o.rtp, p) -> 0
      [] ~IsNoise(o.rtp, p) /\ IsDuplicate(o.rtp, p) -> r
      [] OTHER -> IF o.rtp.window # <<>> /\ Consistent(Back(o.rtp.window), p)
                  THEN MinOf(MaxRun, r + 1) ELSE 1

FlowsInit == Init /\ active = {} /\ run = [s \in Streams |-> 0]

Feed(i, f, s, p) ==
    /\ IndicateRtpPacket(i, f, s, p)
    /\ active' = CASE Answer(ObjectOf(i, s), p) = "ACTIVATING" -> active \cup {s}
                    [] Answer(ObjectOf(i, s), p) = "NORTP"      -> active \ {s}
                    [] Answer(ObjectOf(i, s), p) = "RTP"        -> active
    /\ run' = [run EXCEPT ![s] = NewRun(ObjectOf(i, s), p, run[s])]

\* Deleted streams are forgotten by their users.
Forget ==
    LET gone == {s \in Streams : Alive(s) /\ object'[s] = NoStream}
    IN  /\ active' = active \ gone
        /\ run' = [s \in Streams |-> IF s \in gone THEN 0 ELSE run[s]]

Quietly ==
    \/ \E n \in DetectSizes : SetRtpDetectionPacketsNum(n)
    \/ \E i \in Interfaces : CreateInterface(i)

Removing ==
    \/ \E i \in Interfaces :
          \/ DestroyInterface(i)
          \/ ClearFlows(i)
          \/ \E f \in Flows : RemoveFlow(i, f)
    \/ \E s \in Streams : DestroyStream(s)
    \/ Destroy

FlowsNext ==
    \/ \E i \in Interfaces, f \in Flows, s \in Streams, p \in Packet \cup {NotRtp} :
          Feed(i, f, s, p)
    \/ Quietly /\ UNCHANGED <<active, run>>
    \/ Removing /\ Forget

FlowsSpec == FlowsInit /\ [][FlowsNext]_flowVars

-----------------------------------------------------------------------------

\* Although MQmon never sends MQMON_NOTIFY_DEACTIVATING, a user who takes
\* MQMON_NOTIFY_ACTIVATING for the start and MQMON_NOTIFY_NORTP for the end
\* of a stream always knows which streams are valid.
AnswersTellValidity ==
    active = {s \in Streams : Alive(s) /\ object[s].rtp.valid}

\* As MQmonIf.h says of SetRtpDetectionPacketsNum: once the stream was given
\* its number of RTP packets in a row of one header, it is detected, also
\* after noise stopped it before.
PromptDetection ==
    \A s \in Streams :
        (Alive(s) /\ run[s] >= object[s].rtp.nlast) => object[s].rtp.valid
=============================================================================

-------------------------------- MODULE MQmon --------------------------------
(***************************************************************************)
(* The facade of src/src/MQmonIf.cpp: the singleton MQmon, the interfaces  *)
(* that sort packets into flows, and the streams they create.  A stream is *)
(* reachable by two paths that have to agree: the list MQmon owns and the  *)
(* flow map of an interface.                                               *)
(*                                                                         *)
(* An element of Interfaces or Streams stands for one object from its      *)
(* construction on, so each is created at most once; the two sets bound    *)
(* how many objects a behaviour creates.  Callers use a pointer only while *)
(* its object lives.                                                       *)
(***************************************************************************)
EXTENDS RtpStreamObject, FiniteSets

CONSTANTS
    Interfaces,     \* CMQmonInterfaceDt objects
    Streams,        \* CMQmonStreamDt objects
    Flows,          \* flow ids
    NoStream        \* no entry in a flow map, no object behind a pointer

VARIABLES
    nDetectPackets, \* MQmonPriv::nDetectPackets
    interfaces,     \* MQmonPriv::interfaces
    streams,        \* MQmonPriv::streams
    streamMap,      \* CMQmonInterfaceDt::streamMap of each interface
    object,         \* the living CMQmonStreamDt objects
    deletes,        \* history: how often each stream was deleted, up to 2
    destroyed,      \* history: interfaces deleted so far
    direct          \* history: streams users created with CreateStream

vars == <<nDetectPackets, interfaces, streams, streamMap, object, deletes, destroyed, direct>>

\* A CMQmonStreamDt: its interface (m_Interface), its detector, and the codec
\* it shows to its users (m_codecType).
Object == [intf: Interfaces, rtp: Stream, codecType: 0..127]

ASSUME NoStreamAssumption == NoStream \notin Streams \cup Object

NewObject(i) == [intf |-> i, rtp |-> NewStream(nDetectPackets), codecType |-> 0]

Alive(s) == s \in Streams /\ object[s] # NoStream

\* Streams that were never created.
Fresh == {s \in Streams : ~Alive(s) /\ deletes[s] = 0}

Mapped(i) == {streamMap[i][f] : f \in Flows} \ {NoStream}

AllMapped == UNION {Mapped(i) : i \in interfaces}

-----------------------------------------------------------------------------

Init ==
    /\ nDetectPackets \in DetectSizes
    /\ interfaces = {}
    /\ streams = {}
    /\ streamMap = [i \in Interfaces |-> [f \in Flows |-> NoStream]]
    /\ object = [s \in Streams |-> NoStream]
    /\ deletes = [s \in Streams |-> 0]
    /\ destroyed = {}
    /\ direct = {}

SetRtpDetectionPacketsNum(n) ==
    /\ nDetectPackets' = n
    /\ UNCHANGED <<interfaces, streams, streamMap, object, deletes, destroyed, direct>>

CreateInterface(i) ==
    /\ i \in Interfaces \ (interfaces \cup destroyed)
    /\ interfaces' = interfaces \cup {i}
    /\ UNCHANGED <<nDetectPackets, streams, streamMap, object, deletes, destroyed, direct>>

\* Faulty variant: detection does not show the codec it found.
DetectedObjectHidesCodec(o) == [o EXCEPT !.rtp = AfterDetect(o.rtp)]

\* CMQmonStreamDt::DetectStream.
DetectedObject(o) ==
    [o EXCEPT !.rtp = AfterDetect(o.rtp),
              !.codecType = IF Detects(o.rtp) THEN AfterDetect(o.rtp).codec ELSE @]

\* Faulty variants of feeding: detection is left to the caller; it is asked
\* for whenever the stream is not valid, after noise too.
FedObjectNotDetected(o, p) == [o EXCEPT !.rtp = AfterIndicate(o.rtp, p)]

FedObjectDetectedOnNoise(o, p) ==
    LET fed == [o EXCEPT !.rtp = AfterIndicate(o.rtp, p)]
    IN  IF ~fed.rtp.valid THEN DetectedObject(fed) ELSE fed

\* What CMQmonInterfaceDt::IndicateRtpPacket does to the stream of the flow.
FedObject(o, p) ==
    LET fed == [o EXCEPT !.rtp = AfterIndicate(o.rtp, p)]
    IN  IF IndicateReturns(o.rtp, p) /\ ~fed.rtp.valid THEN DetectedObject(fed) ELSE fed

\* What it answers.
Answer(o, p) ==
    CASE ~IndicateReturns(o.rtp, p) -> "NORTP"
      [] IndicateReturns(o.rtp, p) /\ ~AfterIndicate(o.rtp, p).valid
            /\ FedObject(o, p).rtp.valid -> "ACTIVATING"
      [] OTHER -> "RTP"

\* The stream of a flow: the one in the map, else a new one, which the
\* packet creates even when it is not RTP.
StreamOf(i, f) == IF streamMap[i][f] # NoStream THEN {streamMap[i][f]} ELSE Fresh

ObjectOf(i, s) == IF Alive(s) THEN object[s] ELSE NewObject(i)

IndicateRtpPacket(i, f, s, p) ==
    /\ i \in interfaces /\ s \in StreamOf(i, f)
    /\ streams' = streams \cup {s}
    /\ streamMap' = [streamMap EXCEPT ![i][f] = s]
    /\ object' = [object EXCEPT ![s] = FedObject(ObjectOf(i, s), p)]
    /\ UNCHANGED <<nDetectPackets, interfaces, deletes, destroyed, direct>>

-----------------------------------------------------------------------------

Deleted(gone) == [s \in Streams |-> IF s \in gone THEN MinOf(2, deletes[s] + 1) ELSE deletes[s]]

Freed(gone) == [s \in Streams |-> IF s \in gone THEN NoStream ELSE object[s]]

\* Faulty variant: destroyFlow forgets MQmon's list.
DestroyFlowsKeepListed(i, fs) ==
    LET gone == {streamMap[i][f] : f \in fs} \ {NoStream}
    IN  /\ streams' = streams
        /\ deletes' = Deleted(gone)
        /\ object' = Freed(gone)
        /\ streamMap' = [streamMap EXCEPT ![i] =
                             [f \in Flows |-> IF f \in fs THEN NoStream ELSE streamMap[i][f]]]

\* destroyFlow for each flow of fs: the stream leaves MQmon's list and the
\* interface's map, and is deleted.
DestroyFlows(i, fs) ==
    LET gone == {streamMap[i][f] : f \in fs} \ {NoStream}
    IN  /\ streams' = streams \ gone
        /\ deletes' = Deleted(gone)
        /\ object' = Freed(gone)
        /\ streamMap' = [streamMap EXCEPT ![i] =
                             [f \in Flows |-> IF f \in fs THEN NoStream ELSE streamMap[i][f]]]

\* removeFlow(flowId) finds the flow or does nothing; clearFlows.
RemoveFlow(i, f) ==
    /\ i \in interfaces
    /\ DestroyFlows(i, {f})
    /\ UNCHANGED <<nDetectPackets, interfaces, destroyed, direct>>

ClearFlows(i) ==
    /\ i \in interfaces
    /\ DestroyFlows(i, Flows)
    /\ UNCHANGED <<nDetectPackets, interfaces, destroyed, direct>>

\* The destructor of the interface clears its flows.
DestroyInterface(i) ==
    /\ i \in interfaces
    /\ interfaces' = interfaces \ {i}
    /\ destroyed' = destroyed \cup {i}
    /\ DestroyFlows(i, Flows)
    /\ UNCHANGED <<nDetectPackets, direct>>

\* DestroyStream: the first interface whose removeFlow(strm) succeeds has
\* destroyed the stream; without one the stream is deleted as it is, and
\* stays in MQmon's list.
DestroyStream(s) ==
    /\ Alive(s)
    /\ \/ \E i \in interfaces : \E f \in Flows :
              streamMap[i][f] = s /\ DestroyFlows(i, {f})
       \/ /\ s \notin AllMapped
          /\ deletes' = Deleted({s})
          /\ object' = Freed({s})
          /\ UNCHANGED <<streams, streamMap>>
    /\ UNCHANGED <<nDetectPackets, interfaces, destroyed, direct>>

\* Faulty variant: the interfaces' destructors do not empty the list.
RemainingAll == streams

\* Destroy deletes the interfaces, whose destructors clear their flows, and
\* then what is left in the list.
Remaining == streams \ AllMapped

Destroy ==
    /\ interfaces' = {}
    /\ destroyed' = destroyed \cup interfaces
    /\ streams' = {}
    /\ streamMap' = [i \in Interfaces |-> [f \in Flows |-> NoStream]]
    /\ object' = Freed(AllMapped \cup Remaining)
    /\ deletes' = [s \in Streams |->
           MinOf(2, deletes[s] + (IF s \in AllMapped THEN 1 ELSE 0)
                               + (IF s \in Remaining THEN 1 ELSE 0))]
    /\ UNCHANGED <<nDetectPackets, direct>>

\* CreateStream called by the user: the stream is in no flow map.
CreateStream(i, s) ==
    /\ i \in interfaces /\ s \in Fresh
    /\ streams' = streams \cup {s}
    /\ object' = [object EXCEPT ![s] = NewObject(i)]
    /\ direct' = direct \cup {s}
    /\ UNCHANGED <<nDetectPackets, interfaces, streamMap, deletes, destroyed>>

-----------------------------------------------------------------------------

\* The methods of a stream, called through a pointer the user was given.
Update(s, o) ==
    /\ object' = [object EXCEPT ![s] = o]
    /\ UNCHANGED <<nDetectPackets, interfaces, streams, streamMap, deletes, destroyed, direct>>

StreamIndicateRtpPacket(s, p) ==
    Alive(s) /\ Update(s, [object[s] EXCEPT !.rtp = AfterIndicate(object[s].rtp, p)])

StreamDetectStream(s) == Alive(s) /\ Update(s, DetectedObject(object[s]))

\* Reset leaves the codec the stream shows.
StreamReset(s) == Alive(s) /\ Update(s, [object[s] EXCEPT !.rtp = NewStream(nDetectPackets)])

StreamSetCodecType(s, c) ==
    Alive(s) /\ Update(s, [object[s] EXCEPT !.rtp.codec = c, !.codecType = c])

-----------------------------------------------------------------------------

\* Users who know streams by their flows only.
FlowNext ==
    \/ \E n \in DetectSizes : SetRtpDetectionPacketsNum(n)
    \/ \E i \in Interfaces :
          \/ CreateInterface(i)
          \/ DestroyInterface(i)
          \/ ClearFlows(i)
          \/ \E f \in Flows :
                \/ RemoveFlow(i, f)
                \/ \E s \in Streams, p \in Packet \cup {NotRtp} : IndicateRtpPacket(i, f, s, p)
    \/ \E s \in Streams : DestroyStream(s)
    \/ Destroy

\* Users who also call the streams they were given.
StreamNext ==
    \E s \in Streams :
        \/ \E p \in Packet \cup {NotRtp} : StreamIndicateRtpPacket(s, p)
        \/ StreamDetectStream(s)
        \/ StreamReset(s)
        \/ \E c \in Payloads : StreamSetCodecType(s, c)

\* Users who create streams of their own.
DirectNext == \E i \in Interfaces, s \in Streams : CreateStream(i, s)

Next == FlowNext \/ StreamNext \/ DirectNext

Spec == Init /\ [][Next]_vars

-----------------------------------------------------------------------------

\* Types of the facade's state.
TypeOK ==
    /\ nDetectPackets \in DetectSizes
    /\ interfaces \subseteq Interfaces
    /\ streams \subseteq Streams
    /\ streamMap \in [Interfaces -> [Flows -> Streams \cup {NoStream}]]
    /\ object \in [Streams -> Object \cup {NoStream}]
    /\ deletes \in [Streams -> 0..2]
    /\ destroyed \subseteq Interfaces
    /\ direct \subseteq Streams

\* The two paths to a stream agree: of the streams that packets created,
\* MQmon's list holds exactly those of the flow maps and exactly the living
\* ones; it holds every living stream, whoever created it; no stream serves
\* two flows or another interface than its own, and a destroyed interface
\* maps none.
RegistryCoherent ==
    /\ streams \ direct = AllMapped
    /\ streams \ direct = {s \in Streams \ direct : Alive(s)}
    /\ {s \in Streams : Alive(s)} \subseteq streams
    /\ \A i, j \in Interfaces : \A f, g \in Flows :
           (streamMap[i][f] = streamMap[j][g] /\ streamMap[i][f] # NoStream)
               => i = j /\ f = g /\ object[streamMap[i][f]].intf = i
    /\ \A i \in Interfaces \ interfaces : Mapped(i) = {}

RegistryInv == TypeOK /\ RegistryCoherent

\* No stream that a packet created is deleted twice, by whichever of
\* removeFlow, clearFlows, DestroyStream, DestroyInterface and Destroy it is
\* reached.
DeletedOnce == \A s \in Streams \ direct : deletes[s] <= 1

\* A valid stream shows its users the codec its detector works with, whichever
\* of detection and SetCodecType came last.
CodecShown ==
    \A s \in Streams :
        (Alive(s) /\ object[s].rtp.valid) => object[s].codecType = object[s].rtp.codec

\* Claimed by the comment "remove from MQmon" of removeFromContainer: MQmon's
\* list holds no stream that was deleted.
DeletedLeavesMQmon == \A s \in streams : deletes[s] = 0
=============================================================================

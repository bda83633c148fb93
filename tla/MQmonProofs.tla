----------------------------- MODULE MQmonProofs -----------------------------
(***************************************************************************)
(* The invariants of the facade MQmon, for any number of interfaces, flows *)
(* and streams.                                                            *)
(***************************************************************************)
EXTENDS MQmonFlows, RtpStreamObjectProofs

(***************************************************************************)
(* The inductive invariant.                                                *)
(***************************************************************************)

\* What a flow map leads to: a living stream of that interface and in the
\* list, one of a packet's making, and no other entry leads there.  All
\* streams of the list that users did not create are reached this way.
Registered ==
    /\ \A i \in Interfaces : \A f \in Flows :
           streamMap[i][f] # NoStream =>
               /\ i \in interfaces
               /\ streamMap[i][f] \in streams \ direct
               /\ object[streamMap[i][f]] # NoStream
               /\ object[streamMap[i][f]].intf = i
    /\ \A i, j \in Interfaces : \A f, g \in Flows :
           (streamMap[i][f] = streamMap[j][g] /\ streamMap[i][f] # NoStream)
               => i = j /\ f = g
    /\ \A s \in streams \ direct :
           \E i \in Interfaces : \E f \in Flows : streamMap[i][f] = s
    /\ \A s \in Streams : object[s] # NoStream => s \in streams

\* What the history of deletions has to do with it: a living stream was not
\* deleted, and a stream that was never created is in no list.
Ledger ==
    \A s \in Streams :
        /\ s \notin direct => deletes[s] <= 1
        /\ s \notin direct /\ object[s] # NoStream => deletes[s] = 0
        /\ s \in streams \cup direct => object[s] # NoStream \/ deletes[s] # 0

\* A stream's detector satisfies the invariant of RtpStreamObject; if it is
\* valid the stream shows the detector's codec.
ObjectOK(o) ==
    /\ o \in Object
    /\ ObjectInv(o.rtp)
    /\ o.rtp.valid => o.codecType = o.rtp.codec

Detectors == \A s \in Streams : object[s] # NoStream => ObjectOK(object[s])

FacadeInv == TypeOK /\ Registered /\ Ledger /\ Detectors

-----------------------------------------------------------------------------

(***************************************************************************)
(* Streams, one by one.                                                    *)
(***************************************************************************)

\* A new stream of an interface.
LEMMA NewObjectOK ==
    ASSUME NEW i \in Interfaces, nDetectPackets \in DetectSizes
    PROVE  ObjectOK(NewObject(i)) /\ NewObject(i).intf = i
<1> DEFINE r == NewStream(nDetectPackets)
<1>1. ObjectInv(r)
    BY NewStreamInv
<1>2. r \in Stream
    BY <1>1 DEF ObjectInv
<1>3. ~r.valid
    BY DEF NewStream
<1> HIDE DEF r
<1>4. [intf |-> i, rtp |-> r, codecType |-> 0] \in Object
    BY <1>2 DEF Object
<1>5. QED BY <1>1, <1>3, <1>4 DEF ObjectOK, NewObject, r

\* A new detector in a stream, such that it shows the codec if it is valid.
LEMMA NewDetector ==
    ASSUME NEW o, ObjectOK(o), NEW r, ObjectInv(r),
           r.valid => o.codecType = r.codec
    PROVE  ObjectOK([o EXCEPT !.rtp = r]) /\ [o EXCEPT !.rtp = r].intf = o.intf
<1> DEFINE t == [o EXCEPT !.rtp = r]
<1>1. o \in Object /\ r \in Stream
    BY DEF ObjectOK, ObjectInv
<1>2. t \in Object /\ t.rtp = r /\ t.codecType = o.codecType /\ t.intf = o.intf
    BY <1>1 DEF Object
<1>3. QED BY <1>2 DEF ObjectOK

\* Feeding a detector neither makes it valid nor changes its codec.
LEMMA IndicateKeepsCodec ==
    ASSUME NEW r, ObjectInv(r), NEW p
    PROVE  /\ AfterIndicate(r, p).codec = r.codec
           /\ AfterIndicate(r, p).valid => r.valid
<1>1. r \in Stream
    BY DEF ObjectInv
<1>2. /\ Invalidated(r).codec = r.codec /\ ~Invalidated(r).valid
    BY <1>1 DEF Invalidated, Stream
<1>3. /\ AfterNoise(r).codec = r.codec
      /\ AfterNoise(r).valid => r.valid
    BY <1>1, <1>2 DEF AfterNoise, Stream
<1>4. Accepted(r, p).codec = r.codec /\ Accepted(r, p).valid = r.valid
    BY <1>1 DEF Accepted, Stream
<1>5. \/ AfterIndicate(r, p) = AfterNoise(r)
      \/ AfterIndicate(r, p) = r
      \/ AfterIndicate(r, p) = Accepted(r, p)
    BY DEF AfterIndicate
<1>6. QED BY <1>3, <1>4, <1>5

LEMMA IndicatedOK ==
    ASSUME NEW o, ObjectOK(o), NEW p \in Packet \cup {NotRtp}
    PROVE  /\ ObjectOK([o EXCEPT !.rtp = AfterIndicate(o.rtp, p)])
           /\ [o EXCEPT !.rtp = AfterIndicate(o.rtp, p)].intf = o.intf
<1> DEFINE r == AfterIndicate(o.rtp, p)
<1>1. ObjectInv(o.rtp) /\ (o.rtp.valid => o.codecType = o.rtp.codec)
    BY DEF ObjectOK
<1>2. ObjectInv(r)
    BY <1>1, IndicateInv
<1>3. r.codec = o.rtp.codec /\ (r.valid => o.rtp.valid)
    BY <1>1, IndicateKeepsCodec
<1> HIDE DEF r
<1>4. QED BY <1>1, <1>2, <1>3, NewDetector DEF r

\* Detection, which shows the codec it found.
LEMMA DetectedOK ==
    ASSUME NEW o, ObjectOK(o)
    PROVE  /\ ObjectOK(DetectedObject(o))
           /\ DetectedObject(o).intf = o.intf
           /\ DetectedObject(o).rtp = AfterDetect(o.rtp)
<1> DEFINE r == AfterDetect(o.rtp)
           c == IF Detects(o.rtp) THEN r.codec ELSE o.codecType
           t == DetectedObject(o)
<1>1. o \in Object /\ ObjectInv(o.rtp)
    BY DEF ObjectOK
<1>2. ObjectInv(r) /\ r \in Stream
    BY <1>1, DetectInv DEF ObjectInv
<1>3. r.valid => Detects(o.rtp)
    BY <1>1, InvalidatedInv DEF AfterDetect
<1>4. c \in 0..127
    <2>1. r.codec \in 0..127
        BY <1>2 DEF Stream
    <2>2. o.codecType \in 0..127
        BY <1>1 DEF Object
    <2>3. QED BY <2>1, <2>2
<1>5. t = [o EXCEPT !.rtp = r, !.codecType = c]
    BY DEF DetectedObject
<1> HIDE DEF r, c
<1>6. t \in Object /\ t.rtp = r /\ t.codecType = c /\ t.intf = o.intf
    BY <1>1, <1>2, <1>4, <1>5 DEF Object
<1>7. r.valid => c = r.codec
    BY <1>3 DEF c
<1>8. ObjectOK(t)
    BY <1>2, <1>6, <1>7 DEF ObjectOK
<1>9. QED BY <1>6, <1>8 DEF r

\* What an interface does to the stream it gives a packet to.
LEMMA FedOK ==
    ASSUME NEW o, ObjectOK(o), NEW p \in Packet \cup {NotRtp}
    PROVE  ObjectOK(FedObject(o, p)) /\ FedObject(o, p).intf = o.intf
<1> DEFINE fed == [o EXCEPT !.rtp = AfterIndicate(o.rtp, p)]
<1>1. ObjectOK(fed) /\ fed.intf = o.intf
    BY IndicatedOK
<1>2. ObjectOK(DetectedObject(fed)) /\ DetectedObject(fed).intf = fed.intf
    BY <1>1, DetectedOK
<1>3. QED BY <1>1, <1>2 DEF FedObject

\* SetCodecType sets both codecs.
LEMMA CodecOK ==
    ASSUME NEW o, ObjectOK(o), NEW c \in Payloads
    PROVE  /\ ObjectOK([o EXCEPT !.rtp.codec = c, !.codecType = c])
           /\ [o EXCEPT !.rtp.codec = c, !.codecType = c].intf = o.intf
<1> DEFINE r == [o.rtp EXCEPT !.codec = c]
           t == [o EXCEPT !.rtp.codec = c, !.codecType = c]
<1>1. o \in Object /\ ObjectInv(o.rtp) /\ c \in 0..127
    BY PacketAssumption DEF ObjectOK
<1>2. ObjectInv(r) /\ r \in Stream
    BY <1>1, CodecInv DEF ObjectInv
<1>3. r.codec = c
    BY <1>1 DEF ObjectInv, Stream
<1>4. t = [o EXCEPT !.rtp = r, !.codecType = c]
    BY <1>1 DEF Object
<1> HIDE DEF r
<1>5. t \in Object /\ t.rtp = r /\ t.codecType = c /\ t.intf = o.intf
    BY <1>1, <1>2, <1>4 DEF Object
<1>6. QED BY <1>2, <1>3, <1>5 DEF ObjectOK

-----------------------------------------------------------------------------

(***************************************************************************)
(* The actions of the facade.                                              *)
(***************************************************************************)

\* Types of one entry of each function.
LEMMA EntryTypes ==
    ASSUME TypeOK
    PROVE  /\ \A i \in Interfaces : \A f \in Flows :
                  streamMap[i][f] # NoStream => streamMap[i][f] \in Streams
           /\ \A s \in Streams : object[s] # NoStream => object[s] \in Object
           /\ \A s \in Streams : deletes[s] \in 0..2
           /\ \A s \in Streams : s # NoStream
           /\ \A o \in Object : o # NoStream
    BY NoStreamAssumption DEF TypeOK

\* A living stream gets another content: every method of a stream.
LEMMA UpdateKeepsInv ==
    ASSUME FacadeInv, NEW s \in Streams, object[s] # NoStream,
           NEW o, ObjectOK(o), o.intf = object[s].intf, Update(s, o)
    PROVE  FacadeInv'
<1>1. /\ object \in [Streams -> Object \cup {NoStream}]
      /\ o \in Object /\ o # NoStream
    BY EntryTypes DEF FacadeInv, TypeOK, ObjectOK
<1>2. /\ object' = [object EXCEPT ![s] = o]
      /\ UNCHANGED <<nDetectPackets, interfaces, streams, streamMap, deletes, destroyed, direct>>
    BY DEF Update
<1>3. /\ object' \in [Streams -> Object \cup {NoStream}]
      /\ \A t \in Streams : object'[t] = IF t = s THEN o ELSE object[t]
    BY <1>1, <1>2
<1>4. \A t \in Streams : (object'[t] # NoStream <=> object[t] # NoStream)
    BY <1>1, <1>3
<1>5. \A t \in Streams : object[t] # NoStream => object'[t].intf = object[t].intf
    BY <1>1, <1>3
<1>6. TypeOK'
    BY <1>2, <1>3 DEF FacadeInv, TypeOK
<1>7. Registered'
    BY <1>2, <1>4, <1>5, EntryTypes DEF FacadeInv, Registered
<1>8. Ledger'
    BY <1>2, <1>4 DEF FacadeInv, Ledger
<1>9. Detectors'
    BY <1>1, <1>3 DEF FacadeInv, Detectors
<1>10. QED BY <1>6, <1>7, <1>8, <1>9 DEF FacadeInv

\* Streams that were never created are in no list.
LEMMA FreshUnlisted ==
    ASSUME FacadeInv, NEW s \in Fresh
    PROVE  /\ s \in Streams /\ object[s] = NoStream /\ deletes[s] = 0
           /\ s \notin streams /\ s \notin direct
           /\ \A i \in Interfaces : \A f \in Flows : streamMap[i][f] # s
<1>1. s \in Streams /\ object[s] = NoStream /\ deletes[s] = 0
    BY DEF Fresh, Alive
<1>2. s \notin streams /\ s \notin direct
    BY <1>1 DEF FacadeInv, Ledger
<1>3. QED BY <1>1, <1>2, EntryTypes DEF FacadeInv, Registered

\* A packet of a known flow.
LEMMA FeedKnownKeepsInv ==
    ASSUME FacadeInv, NEW i \in interfaces, NEW f \in Flows, NEW s \in Streams,
           NEW p \in Packet \cup {NotRtp},
           streamMap[i][f] = s, IndicateRtpPacket(i, f, s, p)
    PROVE  FacadeInv'
<1>1. /\ i \in Interfaces /\ streamMap \in [Interfaces -> [Flows -> Streams \cup {NoStream}]]
      /\ s # NoStream
    BY EntryTypes DEF FacadeInv, TypeOK
<1>2. s \in streams /\ object[s] # NoStream
    BY <1>1 DEF FacadeInv, Registered
<1>3. ObjectOf(i, s) = object[s]
    BY <1>2 DEF ObjectOf, Alive
<1>4. streams' = streams /\ streamMap' = streamMap
    BY <1>1, <1>2 DEF IndicateRtpPacket
<1>5. ObjectOK(object[s])
    BY <1>2 DEF FacadeInv, Detectors
<1> DEFINE o == FedObject(object[s], p)
<1>6. ObjectOK(o) /\ o.intf = object[s].intf
    BY <1>5, FedOK
<1>7. Update(s, o)
    BY <1>3, <1>4 DEF IndicateRtpPacket, Update
<1> HIDE DEF o
<1>8. QED BY <1>2, <1>6, <1>7, UpdateKeepsInv

\* The first packet of a flow creates its stream.
LEMMA FeedNewKeepsInv ==
    ASSUME FacadeInv, NEW i \in interfaces, NEW f \in Flows, NEW s \in Fresh,
           NEW p \in Packet \cup {NotRtp},
           streamMap[i][f] = NoStream, IndicateRtpPacket(i, f, s, p)
    PROVE  FacadeInv'
<1>1. /\ i \in Interfaces
      /\ streamMap \in [Interfaces -> [Flows -> Streams \cup {NoStream}]]
      /\ object \in [Streams -> Object \cup {NoStream}]
      /\ nDetectPackets \in DetectSizes /\ streams \subseteq Streams
    BY DEF FacadeInv, TypeOK
<1>2. /\ s \in Streams /\ object[s] = NoStream /\ deletes[s] = 0 /\ s # NoStream
      /\ s \notin streams /\ s \notin direct
      /\ \A j \in Interfaces : \A g \in Flows : streamMap[j][g] # s
    BY FreshUnlisted, EntryTypes DEF FacadeInv
<1> DEFINE o == FedObject(NewObject(i), p)
<1>3. ObjectOK(o) /\ o.intf = i
    BY <1>1, NewObjectOK, FedOK
<1>4. /\ streams' = streams \cup {s}
      /\ streamMap' = [streamMap EXCEPT ![i][f] = s]
      /\ object' = [object EXCEPT ![s] = o]
      /\ UNCHANGED <<nDetectPackets, interfaces, deletes, destroyed, direct>>
    BY <1>2 DEF IndicateRtpPacket, ObjectOf, Alive
<1>5. o \in Object /\ o # NoStream
    BY <1>3, EntryTypes DEF ObjectOK, FacadeInv
<1> HIDE DEF o
<1>6. /\ streamMap' \in [Interfaces -> [Flows -> Streams \cup {NoStream}]]
      /\ \A j \in Interfaces : \A g \in Flows :
             streamMap'[j][g] = IF j = i /\ g = f THEN s ELSE streamMap[j][g]
    BY <1>1, <1>2, <1>4
<1>7. /\ object' \in [Streams -> Object \cup {NoStream}]
      /\ \A t \in Streams : object'[t] = IF t = s THEN o ELSE object[t]
    BY <1>1, <1>4, <1>5
<1>8. TypeOK'
    BY <1>2, <1>4, <1>6, <1>7 DEF FacadeInv, TypeOK
<1>9. Registered'
    <2>1. ASSUME NEW j \in Interfaces, NEW g \in Flows, streamMap'[j][g] # NoStream
          PROVE  /\ j \in interfaces'
                 /\ streamMap'[j][g] \in streams' \ direct'
                 /\ object'[streamMap'[j][g]] # NoStream
                 /\ object'[streamMap'[j][g]].intf = j
        <3>1. CASE j = i /\ g = f
            BY <1>2, <1>3, <1>4, <1>5, <1>6, <1>7, <3>1
        <3>2. CASE ~(j = i /\ g = f)
            <4>1. streamMap'[j][g] = streamMap[j][g] /\ streamMap[j][g] # s
                BY <1>2, <1>6, <3>2
            <4>2. QED BY <1>2, <1>4, <1>7, <2>1, <4>1, EntryTypes DEF FacadeInv, Registered
        <3>3. QED BY <3>1, <3>2
    <2>2. ASSUME NEW j \in Interfaces, NEW k \in Interfaces, NEW g \in Flows, NEW h \in Flows,
                 streamMap'[j][g] = streamMap'[k][h], streamMap'[j][g] # NoStream
          PROVE  j = k /\ g = h
        BY <1>2, <1>6, <2>2 DEF FacadeInv, Registered
    <2>3. ASSUME NEW t \in streams' \ direct'
          PROVE  \E j \in Interfaces : \E g \in Flows : streamMap'[j][g] = t
        <3>1. CASE t = s
            BY <1>1, <1>6, <3>1
        <3>2. CASE t # s
            <4>1. t \in streams \ direct
                BY <1>4, <3>2
            <4>2. PICK j \in Interfaces, g \in Flows : streamMap[j][g] = t
                BY <4>1 DEF FacadeInv, Registered
            <4>3. t # NoStream
                BY <1>1, <4>1, EntryTypes DEF FacadeInv
            <4>4. ~(j = i /\ g = f)
                BY <4>2, <4>3
            <4>5. QED BY <1>6, <4>2, <4>4
        <3>3. QED BY <3>1, <3>2
    <2>4. \A t \in Streams : object'[t] # NoStream => t \in streams'
        BY <1>4, <1>7 DEF FacadeInv, Registered
    <2>5. QED BY <2>1, <2>2, <2>3, <2>4 DEF Registered
<1>10. Ledger'
    BY <1>2, <1>4, <1>5, <1>7 DEF FacadeInv, Ledger
<1>11. Detectors'
    BY <1>3, <1>7 DEF FacadeInv, Detectors
<1>12. QED BY <1>8, <1>9, <1>10, <1>11 DEF FacadeInv

\* CreateStream: a stream of the user's making, in the list and in no map.
LEMMA CreateStreamKeepsInv ==
    ASSUME FacadeInv, NEW i \in Interfaces, NEW s \in Streams, CreateStream(i, s)
    PROVE  FacadeInv'
<1>1. /\ object \in [Streams -> Object \cup {NoStream}]
      /\ nDetectPackets \in DetectSizes
    BY DEF FacadeInv, TypeOK
<1>2. /\ object[s] = NoStream /\ deletes[s] = 0
      /\ s \notin streams /\ s \notin direct
      /\ \A j \in Interfaces : \A g \in Flows : streamMap[j][g] # s
    BY FreshUnlisted DEF CreateStream
<1> DEFINE o == NewObject(i)
<1>3. ObjectOK(o) /\ o \in Object /\ o # NoStream
    BY <1>1, NewObjectOK, EntryTypes DEF FacadeInv, ObjectOK
<1>4. /\ streams' = streams \cup {s}
      /\ object' = [object EXCEPT ![s] = o]
      /\ direct' = direct \cup {s}
      /\ UNCHANGED <<nDetectPackets, interfaces, streamMap, deletes, destroyed>>
    BY DEF CreateStream
<1> HIDE DEF o
<1>5. /\ object' \in [Streams -> Object \cup {NoStream}]
      /\ \A t \in Streams : object'[t] = IF t = s THEN o ELSE object[t]
    BY <1>1, <1>3, <1>4
<1>6. TypeOK'
    BY <1>4, <1>5 DEF FacadeInv, TypeOK
<1>7. Registered'
    <2>1. \A j \in Interfaces : \A g \in Flows :
              streamMap'[j][g] # NoStream =>
                  /\ j \in interfaces'
                  /\ streamMap'[j][g] \in streams' \ direct'
                  /\ object'[streamMap'[j][g]] # NoStream
                  /\ object'[streamMap'[j][g]].intf = j
        BY <1>2, <1>4, <1>5, EntryTypes DEF FacadeInv, Registered
    <2>2. \A j, k \in Interfaces : \A g, h \in Flows :
              (streamMap'[j][g] = streamMap'[k][h] /\ streamMap'[j][g] # NoStream)
                  => j = k /\ g = h
        BY <1>4 DEF FacadeInv, Registered
    <2>3. \A t \in streams' \ direct' :
              \E j \in Interfaces : \E g \in Flows : streamMap'[j][g] = t
        BY <1>4 DEF FacadeInv, Registered
    <2>4. \A t \in Streams : object'[t] # NoStream => t \in streams'
        BY <1>4, <1>5 DEF FacadeInv, Registered
    <2>5. QED BY <2>1, <2>2, <2>3, <2>4 DEF Registered
<1>8. Ledger'
    BY <1>2, <1>3, <1>4, <1>5 DEF FacadeInv, Ledger
<1>9. Detectors'
    BY <1>3, <1>5 DEF FacadeInv, Detectors
<1>10. QED BY <1>6, <1>7, <1>8, <1>9 DEF FacadeInv

\* Deleting a stream that was not deleted before counts one; what is not
\* deleted stays.
LEMMA FreedStreams ==
    ASSUME TypeOK, NEW gone,
           object' = Freed(gone), deletes' = Deleted(gone)
    PROVE  /\ object' \in [Streams -> Object \cup {NoStream}]
           /\ deletes' \in [Streams -> 0..2]
           /\ \A s \in Streams :
                  /\ s \in gone => object'[s] = NoStream /\ deletes'[s] # 0
                  /\ s \in gone /\ deletes[s] = 0 => deletes'[s] = 1
                  /\ s \notin gone => object'[s] = object[s] /\ deletes'[s] = deletes[s]
<1>1. /\ object \in [Streams -> Object \cup {NoStream}]
      /\ deletes \in [Streams -> 0..2]
    BY DEF TypeOK
<1>2. \A s \in Streams :
          /\ MinOf(2, deletes[s] + 1) \in 0..2 /\ MinOf(2, deletes[s] + 1) # 0
          /\ deletes[s] = 0 => MinOf(2, deletes[s] + 1) = 1
    BY <1>1 DEF MinOf
<1>3. \A s \in Streams :
          /\ object'[s] = IF s \in gone THEN NoStream ELSE object[s]
          /\ deletes'[s] = IF s \in gone THEN MinOf(2, deletes[s] + 1) ELSE deletes[s]
    BY DEF Freed, Deleted
<1>4. object' \in [Streams -> Object \cup {NoStream}]
    BY <1>1 DEF Freed
<1>5. deletes' \in [Streams -> 0..2]
    BY <1>1, <1>2 DEF Deleted
<1>6. QED BY <1>2, <1>3, <1>4, <1>5

\* destroyFlow for some flows of an interface, or for all of them while the
\* interface goes.
LEMMA DestroyFlowsKeepsInv ==
    ASSUME FacadeInv, NEW i \in interfaces, NEW fs \in SUBSET Flows,
           DestroyFlows(i, fs),
           UNCHANGED <<nDetectPackets, direct>>, destroyed' \subseteq Interfaces,
           interfaces' = interfaces \/ (interfaces' = interfaces \ {i} /\ fs = Flows)
    PROVE  FacadeInv'
<1> DEFINE gone == {streamMap[i][f] : f \in fs} \ {NoStream}
<1>1. /\ i \in Interfaces /\ interfaces \subseteq Interfaces /\ streams \subseteq Streams
      /\ streamMap \in [Interfaces -> [Flows -> Streams \cup {NoStream}]]
    BY DEF FacadeInv, TypeOK
<1>2. /\ streams' = streams \ gone
      /\ deletes' = Deleted(gone)
      /\ object' = Freed(gone)
      /\ streamMap' = [streamMap EXCEPT ![i] =
                           [f \in Flows |-> IF f \in fs THEN NoStream ELSE streamMap[i][f]]]
    BY DEF DestroyFlows
<1>3. \A s \in gone : s \in streams \ direct /\ s \in Streams /\ object[s] # NoStream
    BY <1>1 DEF FacadeInv, Registered
<1>4. \A f \in fs : streamMap[i][f] # NoStream => streamMap[i][f] \in gone
    OBVIOUS
<1>5. \A s \in gone : \E f \in fs : streamMap[i][f] = s /\ s # NoStream
    OBVIOUS
<1> HIDE DEF gone
<1>6. /\ streamMap' \in [Interfaces -> [Flows -> Streams \cup {NoStream}]]
      /\ \A j \in Interfaces : \A f \in Flows :
             streamMap'[j][f] = IF j = i /\ f \in fs THEN NoStream ELSE streamMap[j][f]
    BY <1>1, <1>2
<1>7. /\ object' \in [Streams -> Object \cup {NoStream}]
      /\ deletes' \in [Streams -> 0..2]
      /\ \A s \in Streams :
             /\ s \in gone => object'[s] = NoStream /\ deletes'[s] # 0
             /\ s \in gone /\ deletes[s] = 0 => deletes'[s] = 1
             /\ s \notin gone => object'[s] = object[s] /\ deletes'[s] = deletes[s]
    BY <1>2, FreedStreams DEF FacadeInv
<1>8. TypeOK'
    BY <1>1, <1>2, <1>6, <1>7 DEF FacadeInv, TypeOK
<1>9. \* entries that stay lead to streams that stay
      \A j \in Interfaces : \A f \in Flows :
          streamMap'[j][f] # NoStream =>
              /\ streamMap'[j][f] = streamMap[j][f] /\ ~(j = i /\ f \in fs)
              /\ streamMap[j][f] \notin gone
    BY <1>1, <1>5, <1>6 DEF FacadeInv, Registered
<1>10. Registered'
    <2>1. ASSUME NEW j \in Interfaces, NEW f \in Flows, streamMap'[j][f] # NoStream
          PROVE  /\ j \in interfaces'
                 /\ streamMap'[j][f] \in streams' \ direct'
                 /\ object'[streamMap'[j][f]] # NoStream
                 /\ object'[streamMap'[j][f]].intf = j
        <3>1. /\ streamMap'[j][f] = streamMap[j][f] /\ ~(j = i /\ f \in fs)
              /\ streamMap[j][f] \notin gone /\ streamMap[j][f] # NoStream
            BY <2>1, <1>9
        <3>2. /\ j \in interfaces /\ streamMap[j][f] \in streams \ direct
              /\ object[streamMap[j][f]] # NoStream /\ object[streamMap[j][f]].intf = j
            BY <3>1 DEF FacadeInv, Registered
        <3>3. j \in interfaces'
            BY <3>1, <3>2
        <3>4. QED BY <1>1, <1>2, <1>7, <3>1, <3>2, <3>3
    <2>2. \A j, k \in Interfaces : \A f, g \in Flows :
              (streamMap'[j][f] = streamMap'[k][g] /\ streamMap'[j][f] # NoStream)
                  => j = k /\ f = g
        BY <1>9 DEF FacadeInv, Registered
    <2>3. ASSUME NEW s \in streams' \ direct'
          PROVE  \E j \in Interfaces : \E f \in Flows : streamMap'[j][f] = s
        <3>1. s \in streams \ direct /\ s \notin gone /\ s # NoStream
            BY <1>1, <1>2, EntryTypes DEF FacadeInv
        <3>2. PICK j \in Interfaces, f \in Flows : streamMap[j][f] = s
            BY <3>1 DEF FacadeInv, Registered
        <3>3. ~(j = i /\ f \in fs)
            BY <1>4, <3>1, <3>2
        <3>4. QED BY <1>6, <3>2, <3>3
    <2>4. \A s \in Streams : object'[s] # NoStream => s \in streams'
        BY <1>2, <1>7 DEF FacadeInv, Registered
    <2>5. QED BY <2>1, <2>2, <2>3, <2>4 DEF Registered
<1>11. Ledger'
    <2> SUFFICES ASSUME NEW s \in Streams
                 PROVE  /\ s \notin direct' => deletes'[s] <= 1
                        /\ s \notin direct' /\ object'[s] # NoStream => deletes'[s] = 0
                        /\ s \in streams' \cup direct' => object'[s] # NoStream \/ deletes'[s] # 0
        BY DEF Ledger
    <2>1. CASE s \in gone
        <3>1. s \notin direct /\ deletes[s] = 0
            BY <1>3, <2>1 DEF FacadeInv, Ledger
        <3>2. QED BY <1>7, <2>1, <3>1
    <2>2. CASE s \notin gone
        BY <1>2, <1>7, <2>2 DEF FacadeInv, Ledger
    <2>3. QED BY <2>1, <2>2
<1>12. Detectors'
    BY <1>7 DEF FacadeInv, Detectors
<1>13. QED BY <1>8, <1>10, <1>11, <1>12 DEF FacadeInv

\* DestroyStream of a stream in no flow map: only users make such streams.
LEMMA DestroyUnmappedKeepsInv ==
    ASSUME FacadeInv, NEW s \in Streams, object[s] # NoStream, s \notin AllMapped,
           deletes' = Deleted({s}), object' = Freed({s}),
           UNCHANGED <<nDetectPackets, interfaces, streams, streamMap, destroyed, direct>>
    PROVE  FacadeInv'
<1>1. streams \subseteq Streams /\ s # NoStream
    BY EntryTypes DEF FacadeInv, TypeOK
<1>2. \A i \in Interfaces : \A f \in Flows : streamMap[i][f] # s
    <2> SUFFICES ASSUME NEW i \in Interfaces, NEW f \in Flows, streamMap[i][f] = s
                 PROVE  FALSE
        OBVIOUS
    <2>1. i \in interfaces
        BY <1>1 DEF FacadeInv, Registered
    <2>2. s \in Mapped(i)
        BY <1>1 DEF Mapped
    <2>3. QED BY <2>1, <2>2 DEF AllMapped
<1>3. s \in direct
    <2>1. s \in streams
        BY DEF FacadeInv, Registered
    <2>2. QED BY <1>2, <2>1 DEF FacadeInv, Registered
<1>4. /\ object' \in [Streams -> Object \cup {NoStream}]
      /\ deletes' \in [Streams -> 0..2]
      /\ object'[s] = NoStream /\ deletes'[s] # 0
      /\ \A t \in Streams \ {s} : object'[t] = object[t] /\ deletes'[t] = deletes[t]
    BY FreedStreams DEF FacadeInv
<1>5. TypeOK'
    BY <1>4 DEF FacadeInv, TypeOK
<1>6. Registered'
    <2>1. ASSUME NEW i \in Interfaces, NEW f \in Flows, streamMap'[i][f] # NoStream
          PROVE  /\ i \in interfaces'
                 /\ streamMap'[i][f] \in streams' \ direct'
                 /\ object'[streamMap'[i][f]] # NoStream
                 /\ object'[streamMap'[i][f]].intf = i
        <3>1. streamMap[i][f] # NoStream /\ streamMap[i][f] \in Streams \ {s}
            BY <1>2, <2>1, EntryTypes DEF FacadeInv
        <3>2. object'[streamMap[i][f]] = object[streamMap[i][f]]
            BY <1>4, <3>1
        <3>3. QED BY <3>1, <3>2 DEF FacadeInv, Registered
    <2>2. \A i, j \in Interfaces : \A f, g \in Flows :
              (streamMap'[i][f] = streamMap'[j][g] /\ streamMap'[i][f] # NoStream)
                  => i = j /\ f = g
        BY DEF FacadeInv, Registered
    <2>3. \A t \in streams' \ direct' :
              \E i \in Interfaces : \E f \in Flows : streamMap'[i][f] = t
        BY DEF FacadeInv, Registered
    <2>4. \A t \in Streams : object'[t] # NoStream => t \in streams'
        BY <1>4 DEF FacadeInv, Registered
    <2>5. QED BY <2>1, <2>2, <2>3, <2>4 DEF Registered
<1>7. Ledger'
    BY <1>3, <1>4 DEF FacadeInv, Ledger
<1>8. Detectors'
    BY <1>4 DEF FacadeInv, Detectors
<1>9. QED BY <1>5, <1>6, <1>7, <1>8 DEF FacadeInv

\* Mapped streams, seen from the streams.
LEMMA MappedStreams ==
    ASSUME FacadeInv
    PROVE  /\ AllMapped = streams \ direct
           /\ \A s \in AllMapped : s \in Streams /\ object[s] # NoStream
           /\ \A i \in Interfaces \ interfaces : Mapped(i) = {}
<1>1. interfaces \subseteq Interfaces /\ streams \subseteq Streams
    BY DEF FacadeInv, TypeOK
<1>2. ASSUME NEW s \in AllMapped
      PROVE  s \in streams \ direct /\ s \in Streams /\ object[s] # NoStream
    <2>1. PICK i \in interfaces : s \in Mapped(i)
        BY <1>2 DEF AllMapped
    <2>2. PICK f \in Flows : streamMap[i][f] = s /\ s # NoStream
        BY <2>1 DEF Mapped
    <2>3. QED BY <1>1, <2>2 DEF FacadeInv, Registered
<1>3. ASSUME NEW s \in streams \ direct
      PROVE  s \in AllMapped
    <2>1. PICK i \in Interfaces, f \in Flows : streamMap[i][f] = s
        BY DEF FacadeInv, Registered
    <2>2. s # NoStream
        BY <1>1, EntryTypes DEF FacadeInv
    <2>3. i \in interfaces
        BY <2>1, <2>2 DEF FacadeInv, Registered
    <2>4. s \in Mapped(i)
        BY <2>1, <2>2 DEF Mapped
    <2>5. QED BY <2>3, <2>4 DEF AllMapped
<1>4. \A i \in Interfaces \ interfaces : Mapped(i) = {}
    BY DEF Mapped, FacadeInv, Registered
<1>5. QED BY <1>2, <1>3, <1>4

\* MQmon::Destroy deletes the interfaces with their flows and then what is
\* left in the list; nothing of a packet's making is in both.
LEMMA DestroyKeepsInv ==
    ASSUME FacadeInv, Destroy
    PROVE  FacadeInv'
<1>1. /\ object \in [Streams -> Object \cup {NoStream}]
      /\ deletes \in [Streams -> 0..2] /\ streams \subseteq Streams
      /\ interfaces \subseteq Interfaces /\ destroyed \subseteq Interfaces
    BY DEF FacadeInv, TypeOK
<1>2. AllMapped \cup Remaining = streams
    BY MappedStreams DEF Remaining
<1>3. \A s \in Streams : object'[s] = NoStream
    <2>1. \A s \in Streams : object'[s] = IF s \in streams THEN NoStream ELSE object[s]
        BY <1>2 DEF Destroy, Freed
    <2>2. \A s \in Streams : s \notin streams => object[s] = NoStream
        BY DEF FacadeInv, Registered
    <2>3. QED BY <2>1, <2>2
<1>4. object' \in [Streams -> Object \cup {NoStream}]
    BY <1>1 DEF Destroy, Freed
<1>5. \A s \in Streams :
          deletes'[s] = IF s \in AllMapped \cup Remaining THEN MinOf(2, deletes[s] + 1)
                        ELSE deletes[s]
    <2> TAKE s \in Streams
    <2>1. deletes'[s] = MinOf(2, deletes[s] + (IF s \in AllMapped THEN 1 ELSE 0)
                                            + (IF s \in Remaining THEN 1 ELSE 0))
        BY DEF Destroy
    <2>2. ~(s \in AllMapped /\ s \in Remaining)
        BY DEF Remaining
    <2>3. deletes[s] \in 0..2
        BY <1>1
    <2>4. QED BY <2>1, <2>2, <2>3 DEF MinOf
<1>6. deletes' \in [Streams -> 0..2]
    <2>1. \A s \in Streams : deletes'[s] \in 0..2
        BY <1>1, <1>5 DEF MinOf
    <2>2. QED BY <2>1 DEF Destroy
<1>7. TypeOK'
    BY <1>1, <1>4, <1>6 DEF FacadeInv, TypeOK, Destroy
<1>8. Registered'
    BY <1>3 DEF Registered, Destroy
<1>9. Ledger'
    <2> SUFFICES ASSUME NEW s \in Streams
                 PROVE  /\ s \notin direct' => deletes'[s] <= 1
                        /\ s \in direct' => deletes'[s] # 0
        BY <1>3 DEF Ledger, Destroy
    <2>1. direct' = direct
        BY DEF Destroy
    <2>2. s \in direct => deletes[s] # 0 \/ s \in streams
        BY DEF FacadeInv, Ledger, Registered
    <2>3. s \in streams \ direct => deletes[s] = 0
        BY MappedStreams DEF FacadeInv, Ledger
    <2>4. s \notin direct => deletes[s] <= 1
        BY DEF FacadeInv, Ledger
    <2>5. QED BY <1>1, <1>2, <1>5, <2>1, <2>2, <2>3, <2>4 DEF MinOf
<1>10. Detectors'
    BY <1>3 DEF Detectors
<1>11. QED BY <1>7, <1>8, <1>9, <1>10 DEF FacadeInv

-----------------------------------------------------------------------------

LEMMA InitEstablishesInv ==
    ASSUME Init
    PROVE  FacadeInv
<1>1. TypeOK
    BY DEF Init, TypeOK
<1>2. \A s \in Streams : object[s] = NoStream
    BY DEF Init
<1>3. Registered
    BY <1>2 DEF Init, Registered
<1>4. Ledger
    BY <1>2 DEF Init, Ledger
<1>5. Detectors
    BY <1>2 DEF Detectors
<1>6. QED BY <1>1, <1>3, <1>4, <1>5 DEF FacadeInv

\* What users do who know streams by their flows.
LEMMA FlowStepKeepsInv ==
    ASSUME FacadeInv, FlowNext
    PROVE  FacadeInv'
<1>0. interfaces \subseteq Interfaces /\ destroyed \subseteq Interfaces
    BY DEF FacadeInv, TypeOK
<1>1. ASSUME NEW n \in DetectSizes, SetRtpDetectionPacketsNum(n)
      PROVE  FacadeInv'
    <2>1. /\ nDetectPackets' \in DetectSizes
          /\ UNCHANGED <<interfaces, streams, streamMap, object, deletes, destroyed, direct>>
        BY <1>1 DEF SetRtpDetectionPacketsNum
    <2>2. TypeOK'
        BY <2>1 DEF FacadeInv, TypeOK
    <2>3. QED BY <2>1, <2>2 DEF FacadeInv, Registered, Ledger, Detectors
<1>2. ASSUME NEW i \in Interfaces, CreateInterface(i)
      PROVE  FacadeInv'
    <2>1. /\ interfaces' = interfaces \cup {i}
          /\ UNCHANGED <<nDetectPackets, streams, streamMap, object, deletes, destroyed, direct>>
        BY <1>2 DEF CreateInterface
    <2>2. TypeOK'
        BY <2>1 DEF FacadeInv, TypeOK
    <2>3. Registered'
        BY <2>1 DEF FacadeInv, Registered
    <2>4. QED BY <2>1, <2>2, <2>3 DEF FacadeInv, Ledger, Detectors
<1>3. ASSUME NEW i \in Interfaces, DestroyInterface(i)
      PROVE  FacadeInv'
    BY <1>0, <1>3, DestroyFlowsKeepsInv DEF DestroyInterface
<1>4. ASSUME NEW i \in Interfaces, ClearFlows(i)
      PROVE  FacadeInv'
    BY <1>0, <1>4, DestroyFlowsKeepsInv DEF ClearFlows
<1>5. ASSUME NEW i \in Interfaces, NEW f \in Flows, RemoveFlow(i, f)
      PROVE  FacadeInv'
    BY <1>0, <1>5, DestroyFlowsKeepsInv DEF RemoveFlow
<1>6. ASSUME NEW i \in Interfaces, NEW f \in Flows, NEW s \in Streams,
             NEW p \in Packet \cup {NotRtp}, IndicateRtpPacket(i, f, s, p)
      PROVE  FacadeInv'
    <2>1. i \in interfaces /\ s \in StreamOf(i, f)
        BY <1>6 DEF IndicateRtpPacket
    <2>2. CASE streamMap[i][f] # NoStream
        BY <1>6, <2>1, <2>2, FeedKnownKeepsInv DEF StreamOf
    <2>3. CASE streamMap[i][f] = NoStream
        BY <1>6, <2>1, <2>3, FeedNewKeepsInv DEF StreamOf
    <2>4. QED BY <2>2, <2>3
<1>7. ASSUME NEW s \in Streams, DestroyStream(s)
      PROVE  FacadeInv'
    <2>1. object[s] # NoStream
        BY <1>7 DEF DestroyStream, Alive
    <2>2. ASSUME NEW i \in interfaces, NEW f \in Flows, DestroyFlows(i, {f})
          PROVE  FacadeInv'
        BY <1>0, <1>7, <2>2, DestroyFlowsKeepsInv DEF DestroyStream
    <2>3. ASSUME s \notin AllMapped, deletes' = Deleted({s}), object' = Freed({s}),
                 UNCHANGED <<streams, streamMap>>
          PROVE  FacadeInv'
        BY <1>7, <2>1, <2>3, DestroyUnmappedKeepsInv DEF DestroyStream
    <2>4. QED BY <1>7, <2>2, <2>3 DEF DestroyStream
<1>8. CASE Destroy
    BY <1>8, DestroyKeepsInv
<1>9. QED BY <1>1, <1>2, <1>3, <1>4, <1>5, <1>6, <1>7, <1>8 DEF FlowNext

\* The methods of a stream.
LEMMA StreamStepKeepsInv ==
    ASSUME FacadeInv, NEW s \in Streams,
           \/ \E p \in Packet \cup {NotRtp} : StreamIndicateRtpPacket(s, p)
           \/ StreamDetectStream(s)
           \/ StreamReset(s)
           \/ \E c \in Payloads : StreamSetCodecType(s, c)
    PROVE  FacadeInv'
<1>1. object[s] # NoStream
    BY DEF StreamIndicateRtpPacket, StreamDetectStream, StreamReset, StreamSetCodecType, Alive
<1>2. ObjectOK(object[s])
    BY <1>1 DEF FacadeInv, Detectors
<1>3. ASSUME NEW p \in Packet \cup {NotRtp}, StreamIndicateRtpPacket(s, p)
      PROVE  FacadeInv'
    BY <1>1, <1>2, <1>3, IndicatedOK, UpdateKeepsInv DEF StreamIndicateRtpPacket
<1>4. CASE StreamDetectStream(s)
    BY <1>1, <1>2, <1>4, DetectedOK, UpdateKeepsInv DEF StreamDetectStream
<1>5. CASE StreamReset(s)
    <2> DEFINE r == NewStream(nDetectPackets)
    <2>1. ObjectInv(r) /\ ~r.valid
        BY NewStreamInv DEF FacadeInv, TypeOK, NewStream
    <2>2. Update(s, [object[s] EXCEPT !.rtp = r])
        BY <1>5 DEF StreamReset
    <2> HIDE DEF r
    <2>3. QED BY <1>1, <1>2, <2>1, <2>2, NewDetector, UpdateKeepsInv
<1>6. ASSUME NEW c \in Payloads, StreamSetCodecType(s, c)
      PROVE  FacadeInv'
    BY <1>1, <1>2, <1>6, CodecOK, UpdateKeepsInv DEF StreamSetCodecType
<1>7. QED BY <1>3, <1>4, <1>5, <1>6

LEMMA StepKeepsInv ==
    ASSUME FacadeInv, [Next]_vars
    PROVE  FacadeInv'
<1>1. CASE FlowNext
    BY <1>1, FlowStepKeepsInv
<1>2. CASE StreamNext
    BY <1>2, StreamStepKeepsInv DEF StreamNext
<1>3. CASE DirectNext
    BY <1>3, CreateStreamKeepsInv DEF DirectNext
<1>4. CASE UNCHANGED vars
    BY <1>4 DEF vars, FacadeInv, TypeOK, Registered, Ledger, Detectors
<1>5. QED BY <1>1, <1>2, <1>3, <1>4 DEF Next

-----------------------------------------------------------------------------

(***************************************************************************)
(* The invariants of any use of MQmon.                                     *)
(***************************************************************************)

\* FacadeInv: the maps and lists of an interface, the owners of its streams and
\* its detectors agree after every call of MQmon and of CreateMQmonStream.
THEOREM FacadeInvariant == Spec => []FacadeInv
    BY InitEstablishesInv, StepKeepsInv, PTL DEF Spec

\* RegistryInv: the list, the flow maps and the objects agree, whatever
\* packets, removals and deletions come in whatever order.
THEOREM RegistryInvHolds == Spec => []RegistryInv
<1>1. FacadeInv => RegistryInv
    <2> SUFFICES ASSUME FacadeInv PROVE RegistryInv
        OBVIOUS
    <2>1. TypeOK /\ streams \subseteq Streams
        BY DEF FacadeInv, TypeOK
    <2>2. streams \ direct = AllMapped
        BY MappedStreams
    <2>3. streams \ direct = {s \in Streams \ direct : Alive(s)}
        <3>1. \A s \in streams \ direct : Alive(s)
            BY MappedStreams DEF Alive
        <3>2. \A s \in Streams : Alive(s) => s \in streams
            BY DEF Alive, FacadeInv, Registered
        <3>3. QED BY <2>1, <3>1, <3>2
    <2>4. {s \in Streams : Alive(s)} \subseteq streams
        BY DEF Alive, FacadeInv, Registered
    <2>5. \A i, j \in Interfaces : \A f, g \in Flows :
              (streamMap[i][f] = streamMap[j][g] /\ streamMap[i][f] # NoStream)
                  => i = j /\ f = g /\ object[streamMap[i][f]].intf = i
        BY DEF FacadeInv, Registered
    <2>6. QED BY <2>1, <2>2, <2>3, <2>4, <2>5, MappedStreams
              DEF RegistryInv, RegistryCoherent
<1>2. QED BY <1>1, FacadeInvariant, PTL

\* DeletedOnce: no stream of a packet's making is deleted by two of the five
\* paths that delete streams.
THEOREM DeletedOnceHolds == Spec => []DeletedOnce
<1>1. FacadeInv => DeletedOnce
    BY DEF FacadeInv, Ledger, DeletedOnce
<1>2. QED BY <1>1, FacadeInvariant, PTL

\* CodecShown: a valid stream shows the codec of its detector.
THEOREM CodecShownHolds == Spec => []CodecShown
<1>1. FacadeInv => CodecShown
    BY DEF FacadeInv, Detectors, ObjectOK, CodecShown, Alive
<1>2. QED BY <1>1, FacadeInvariant, PTL

-----------------------------------------------------------------------------

(***************************************************************************)
(* Users who feed through interfaces and go by the answers.                *)
(***************************************************************************)

\* The last r packets of a window carry one header; a run longer than the
\* window fills it.
WindowEndsInRun(rtp, r) ==
    /\ \A k \in 1..Len(rtp.window) :
           k + r > Len(rtp.window) => Consistent(rtp.window[k], Back(rtp.window))
    /\ r > Len(rtp.window) => Full(rtp)

\* How the count of packets in a row relates to the window, and that a run as
\* long as the detection number was detected.
RunOK(o, r) ==
    /\ r \in Nat
    /\ WindowEndsInRun(o.rtp, r)
    /\ r >= o.rtp.nlast => o.rtp.valid

Runs ==
    /\ run \in [Streams -> Nat]
    /\ \A s \in Streams :
           /\ object[s] = NoStream => run[s] = 0
           /\ object[s] # NoStream => RunOK(object[s], run[s])

FlowsInv == FacadeInv /\ AnswersTellValidity /\ Runs

LEMMA MaxRunType == MaxRun \in Nat
    BY BoundAssumption, DetectAssumption DEF MaxRun

\* An accepted packet extends the run at the end of the window, or starts one.
LEMMA AcceptedRun ==
    ASSUME NEW s, ObjectInv(s), NEW p \in Packet, NEW r \in Nat, WindowEndsInRun(s, r),
           NEW q \in Nat,
           IF s.window # <<>> /\ Consistent(Back(s.window), p) THEN q <= r + 1 ELSE q = 1
    PROVE  WindowEndsInRun(Accepted(s, p), q)
<1> DEFINE w == s.window
           t == Accepted(s, p)
           L == Len(w)
           K == Len(t.window)
<1>1. /\ w \in Seq(Packet) /\ L \in Nat /\ L <= s.nlast /\ s.nlast \in Nat \ {0}
    BY DetectAssumption, WindowElements DEF ObjectInv, Stream
<1>2. t.window = PushBack(w, p, s.nlast) /\ t.nlast = s.nlast
    BY AcceptedFields
<1>3. /\ K = IF L < s.nlast THEN L + 1 ELSE s.nlast
      /\ \A i \in 1..K : t.window[i] = IF i = K THEN p
                                       ELSE IF L < s.nlast THEN w[i] ELSE w[i + 1]
    <2> DEFINE n == s.nlast
               v == PushBack(w, p, n)
    <2>1. w \in Seq(Packet) /\ n \in Nat \ {0} /\ Len(w) <= n
        BY <1>1
    <2> HIDE DEF w, n
    <2>2. /\ Len(v) = IF Len(w) < n THEN Len(w) + 1 ELSE n
          /\ \A i \in 1..Len(v) : v[i] = IF i = Len(v) THEN p
                                         ELSE IF Len(w) < n THEN w[i] ELSE w[i + 1]
        BY <2>1, PushBackProperties
    <2>3. t.window = v
        BY <1>2 DEF w, n
    <2> HIDE DEF v, t
    <2>4. QED BY <2>2, <2>3 DEF n
<1>4. K \in Nat \ {0} /\ Back(t.window) = p
    BY <1>1, <1>3 DEF Back
<1>5. L = 0 <=> w = <<>>
    BY <1>1, EmptySeq
<1> HIDE DEF w, t, L, K
<1>6. ASSUME NEW k \in 1..K, k + q > K
      PROVE  Consistent(t.window[k], p)
    <2>1. CASE k = K
        BY <1>3, <2>1 DEF Consistent
    <2>2. CASE k # K
        <3>1. k < K /\ q # 1
            BY <1>4, <1>6, <2>2
        <3>2. w # <<>> /\ Consistent(Back(w), p) /\ q <= r + 1
            BY <3>1 DEF w
        <3> DEFINE j == IF L < s.nlast THEN k ELSE k + 1
        <3>3. j \in 1..L /\ j + r > L /\ t.window[k] = w[j]
            BY <1>1, <1>3, <1>6, <2>2, <3>1, <3>2
        <3> HIDE DEF j
        <3>4. Consistent(w[j], Back(w))
            BY <3>3 DEF WindowEndsInRun, w, L
        <3>5. QED BY <3>2, <3>3, <3>4 DEF Consistent
    <2>3. QED BY <2>1, <2>2
<1>7. ASSUME q > K
      PROVE  K >= s.nlast
    <2>1. CASE L < s.nlast
        <3>1. q > L + 1 /\ q # 1
            BY <1>1, <1>3, <1>7, <2>1
        <3>2. r > L
            BY <1>1, <3>1 DEF w
        <3>3. L >= s.nlast
            BY <3>2 DEF WindowEndsInRun, Full, w, L
        <3>4. QED BY <1>1, <2>1, <3>3
    <2>2. CASE ~(L < s.nlast)
        BY <1>1, <1>3, <2>2
    <2>3. QED BY <2>1, <2>2
<1>8. QED BY <1>2, <1>4, <1>6, <1>7 DEF WindowEndsInRun, Full, t, K

\* A run as long as the window should be is what detection accepts.
LEMMA FullRunDetected ==
    ASSUME NEW s, ObjectInv(s), NEW r \in Nat, WindowEndsInRun(s, r), r >= s.nlast
    PROVE  Detects(s)
<1> DEFINE w == s.window
<1>1. /\ w \in Seq(Packet) /\ Len(w) \in Nat /\ Len(w) <= s.nlast /\ s.nlast \in Nat
    BY DetectAssumption, WindowElements DEF ObjectInv, Stream
<1>2. Full(s)
    BY <1>1 DEF WindowEndsInRun, Full
<1>3. \A k \in 1..Len(w) : Consistent(w[k], Back(w))
    <2> TAKE k \in 1..Len(w)
    <2>1. k + r > Len(w)
        BY <1>1
    <2>2. QED BY <2>1 DEF WindowEndsInRun
<1>4. HeadersAgree(w)
    <2> SUFFICES ASSUME NEW i \in 1..(Len(w) - 1) PROVE Consistent(w[i], w[i + 1])
        BY DEF HeadersAgree
    <2>1. i \in 1..Len(w) /\ i + 1 \in 1..Len(w)
        BY <1>1
    <2>2. Consistent(w[i], Back(w)) /\ Consistent(w[i + 1], Back(w))
        BY <1>3, <2>1
    <2>3. QED BY <2>2 DEF Consistent
<1>5. QED BY <1>2, <1>4, DetectsExactly

\* The run that is counted for a packet is the one at the end of the window.
LEMMA IndicatedRun ==
    ASSUME NEW o, ObjectOK(o), NEW p \in Packet \cup {NotRtp},
           NEW r \in Nat, WindowEndsInRun(o.rtp, r)
    PROVE  /\ NewRun(o, p, r) \in Nat
           /\ IsNoise(o.rtp, p) => NewRun(o, p, r) = 0
           /\ WindowEndsInRun(AfterIndicate(o.rtp, p), NewRun(o, p, r))
<1> DEFINE s == o.rtp
           q == NewRun(o, p, r)
<1>1. ObjectInv(s) /\ s \in Stream /\ MaxRun \in Nat
    BY MaxRunType DEF ObjectOK, ObjectInv
<1>2. Len(s.window) \in Nat /\ s.nlast \in Nat
    BY <1>1, DetectAssumption, WindowElements DEF Stream
<1>3. CASE IsNoise(s, p)
    <2>1. q = 0
        BY <1>3 DEF NewRun
    <2>2. AfterIndicate(s, p) = AfterNoise(s)
        BY <1>3 DEF AfterIndicate
    <2>3. Len(AfterNoise(s).window) \in Nat
        <3>1. AfterNoise(s) \in Stream
            BY <1>1, AfterNoiseInv DEF ObjectInv
        <3>2. QED BY <3>1, WindowElements DEF Stream
    <2>4. WindowEndsInRun(AfterNoise(s), 0)
        BY <2>3 DEF WindowEndsInRun
    <2>5. QED BY <2>1, <2>2, <2>4
<1>4. CASE ~IsNoise(s, p) /\ IsDuplicate(s, p)
    <2>1. q = r
        BY <1>4 DEF NewRun
    <2>2. AfterIndicate(s, p) = s
        BY <1>4 DEF AfterIndicate
    <2>3. QED BY <1>4, <2>1, <2>2
<1>5. CASE ~IsNoise(s, p) /\ ~IsDuplicate(s, p)
    <2>1. p \in Packet /\ AfterIndicate(s, p) = Accepted(s, p)
        BY <1>5 DEF IsNoise, AfterIndicate
    <2>2. q = IF s.window # <<>> /\ Consistent(Back(s.window), p)
              THEN MinOf(MaxRun, r + 1) ELSE 1
        BY <1>5 DEF NewRun
    <2>3. /\ q \in Nat
          /\ IF s.window # <<>> /\ Consistent(Back(s.window), p) THEN q <= r + 1 ELSE q = 1
        BY <1>1, <2>2 DEF MinOf
    <2> HIDE DEF s, q
    <2>4. WindowEndsInRun(Accepted(s, p), q)
        BY <1>1, <2>1, <2>3, AcceptedRun DEF s
    <2>5. QED BY <1>5, <2>1, <2>3, <2>4 DEF s, q
<1>6. QED BY <1>3, <1>4, <1>5

\* What an interface does keeps the account of runs: detection is tried
\* whenever the run may have become long enough.
LEMMA FedRun ==
    ASSUME NEW o, ObjectOK(o), NEW p \in Packet \cup {NotRtp}, NEW r, RunOK(o, r)
    PROVE  RunOK(FedObject(o, p), NewRun(o, p, r))
<1> DEFINE q == NewRun(o, p, r)
           fed == [o EXCEPT !.rtp = AfterIndicate(o.rtp, p)]
<1>1. /\ q \in Nat /\ (IsNoise(o.rtp, p) => q = 0)
      /\ WindowEndsInRun(AfterIndicate(o.rtp, p), q)
    BY IndicatedRun DEF RunOK
<1>2. ObjectOK(fed) /\ fed.rtp = AfterIndicate(o.rtp, p)
    BY IndicatedOK DEF ObjectOK, Object
<1>3. ObjectInv(fed.rtp) /\ fed.rtp \in Stream /\ fed.rtp.nlast \in Nat \ {0}
    BY <1>2, DetectAssumption DEF ObjectOK, ObjectInv, Stream
<1> HIDE DEF q, fed
<1>4. CASE IndicateReturns(o.rtp, p) /\ ~fed.rtp.valid
    <2> DEFINE t == AfterDetect(fed.rtp)
    <2>1. FedObject(o, p) = DetectedObject(fed) /\ DetectedObject(fed).rtp = t
        BY <1>2, <1>4, DetectedOK DEF FedObject, fed
    <2>2. t.window = fed.rtp.window /\ t.nlast = fed.rtp.nlast
        BY <1>3 DEF AfterDetect, Detected, Invalidated, Stream
    <2>3. Detects(fed.rtp) => t.valid
        BY <1>3 DEF AfterDetect, Detected, Stream
    <2>4. q >= fed.rtp.nlast => t.valid
        BY <1>1, <1>2, <1>3, <2>3, FullRunDetected
    <2>5. WindowEndsInRun(t, q)
        BY <1>1, <1>2, <2>2 DEF WindowEndsInRun, Full
    <2> HIDE DEF t
    <2>6. QED BY <1>1, <2>1, <2>2, <2>4, <2>5 DEF RunOK, q
<1>5. CASE ~IndicateReturns(o.rtp, p) \/ fed.rtp.valid
    <2>1. FedObject(o, p) = fed
        BY <1>5 DEF FedObject, fed
    <2>2. ~IndicateReturns(o.rtp, p) => q = 0
        BY <1>1 DEF IndicateReturns
    <2>3. q >= fed.rtp.nlast => fed.rtp.valid
        BY <1>1, <1>3, <1>5, <2>2
    <2>4. QED BY <1>1, <1>2, <2>1, <2>3 DEF RunOK, q
<1>6. QED BY <1>4, <1>5

\* The answers: NORTP leaves the stream invalid, ACTIVATING makes it valid,
\* RTP leaves it as it was.
LEMMA AnswerTells ==
    ASSUME NEW o, ObjectOK(o), NEW p \in Packet \cup {NotRtp}
    PROVE  /\ Answer(o, p) \in {"NORTP", "ACTIVATING", "RTP"}
           /\ Answer(o, p) = "NORTP" => ~FedObject(o, p).rtp.valid
           /\ Answer(o, p) = "ACTIVATING" => FedObject(o, p).rtp.valid
           /\ Answer(o, p) = "RTP" => (FedObject(o, p).rtp.valid <=> o.rtp.valid)
<1> DEFINE r == AfterIndicate(o.rtp, p)
           fed == [o EXCEPT !.rtp = r]
<1>1. ObjectInv(o.rtp) /\ o.rtp \in Stream
    BY DEF ObjectOK, ObjectInv
<1>2. r \in Stream /\ (r.valid => o.rtp.valid)
    BY <1>1, IndicateInv, IndicateKeepsCodec DEF ObjectInv
<1>3. fed.rtp = r
    BY <1>2 DEF ObjectOK, Object
<1>4. ASSUME ~IndicateReturns(o.rtp, p)
      PROVE  ~r.valid
    <2>1. IsNoise(o.rtp, p) /\ (~o.rtp.valid \/ NoiseStops(o.rtp))
        BY <1>4 DEF IndicateReturns
    <2>2. r = AfterNoise(o.rtp)
        BY <2>1 DEF AfterIndicate
    <2>3. QED BY <1>1, <2>1, <2>2, InvalidatedInv DEF AfterNoise
<1>5. ASSUME IndicateReturns(o.rtp, p), o.rtp.valid
      PROVE  r.valid
    <2>1. CASE IsNoise(o.rtp, p)
        <3>1. ~NoiseStops(o.rtp)
            BY <1>5, <2>1 DEF IndicateReturns
        <3>2. r = [o.rtp EXCEPT !.noise = @ + 1]
            BY <1>5, <2>1, <3>1 DEF AfterIndicate, AfterNoise
        <3>3. QED BY <1>1, <1>5, <3>2 DEF Stream
    <2>2. CASE ~IsNoise(o.rtp, p)
        BY <1>1, <1>5, <2>2 DEF AfterIndicate, Accepted, Stream
    <2>3. QED BY <2>1, <2>2
<1> HIDE DEF r
<1>6. CASE ~IndicateReturns(o.rtp, p)
    <2>1. Answer(o, p) = "NORTP"
        BY <1>6 DEF Answer
    <2>2. FedObject(o, p) = fed
        BY <1>6 DEF FedObject, r
    <2>3. QED BY <1>3, <1>4, <1>6, <2>1, <2>2
<1>7. CASE IndicateReturns(o.rtp, p) /\ r.valid
    <2>1. Answer(o, p) = "RTP"
        BY <1>7 DEF Answer, r
    <2>2. FedObject(o, p) = fed
        BY <1>3, <1>7 DEF FedObject, r
    <2>3. QED BY <1>2, <1>3, <1>7, <2>1, <2>2
<1>8. CASE IndicateReturns(o.rtp, p) /\ ~r.valid
    <2>1. Answer(o, p) = IF FedObject(o, p).rtp.valid THEN "ACTIVATING" ELSE "RTP"
        BY <1>8 DEF Answer, r
    <2>2. ~o.rtp.valid
        BY <1>5, <1>8
    <2>3. QED BY <2>1, <2>2
<1>9. QED BY <1>6, <1>7, <1>8

\* A packet that users feed through an interface.
LEMMA FeedKeepsFlowsInv ==
    ASSUME FlowsInv, NEW i \in Interfaces, NEW f \in Flows, NEW s \in Streams,
           NEW p \in Packet \cup {NotRtp}, Feed(i, f, s, p)
    PROVE  FlowsInv'
<1> DEFINE o == ObjectOf(i, s)
           n == FedObject(o, p)
<1>1. IndicateRtpPacket(i, f, s, p) /\ i \in interfaces
    BY DEF Feed, IndicateRtpPacket
<1>2. FacadeInv /\ FacadeInv'
    <2>1. FlowNext
        BY <1>1 DEF FlowNext
    <2>2. QED BY <2>1, FlowStepKeepsInv DEF FlowsInv
<1>3. object \in [Streams -> Object \cup {NoStream}] /\ nDetectPackets \in DetectSizes
    BY <1>2 DEF FacadeInv, TypeOK
<1>4. object' = [object EXCEPT ![s] = n]
    BY <1>1 DEF IndicateRtpPacket
<1>5. ObjectOK(o) /\ RunOK(o, run[s]) /\ (s \in active <=> o.rtp.valid)
    <2>1. CASE object[s] # NoStream
        <3>1. o = object[s]
            BY <2>1 DEF ObjectOf, Alive
        <3>2. QED BY <1>2, <2>1, <3>1
                  DEF FacadeInv, Detectors, FlowsInv, Runs, AnswersTellValidity, Alive
    <2>2. CASE object[s] = NoStream
        <3>1. o = NewObject(i)
            BY <2>2 DEF ObjectOf, Alive
        <3>2. ObjectOK(o)
            BY <1>3, <3>1, NewObjectOK
        <3>3. run[s] = 0 /\ s \notin active
            BY <2>2 DEF FlowsInv, Runs, AnswersTellValidity, Alive
        <3>4. o.rtp.window = <<>> /\ ~o.rtp.valid /\ o.rtp.nlast = nDetectPackets
            BY <3>1 DEF NewObject, NewStream
        <3>5. RunOK(o, 0)
            BY <1>3, <3>4, EmptySeq, DetectAssumption DEF RunOK, WindowEndsInRun
        <3>6. QED BY <3>2, <3>3, <3>4, <3>5
    <2>3. QED BY <2>1, <2>2
<1>6. ObjectOK(n) /\ n # NoStream
    BY <1>2, <1>5, FedOK, EntryTypes DEF ObjectOK, FacadeInv
<1>7. RunOK(n, NewRun(o, p, run[s]))
    BY <1>5, FedRun
<1>8. /\ active' = CASE Answer(o, p) = "ACTIVATING" -> active \cup {s}
                     [] Answer(o, p) = "NORTP"      -> active \ {s}
                     [] Answer(o, p) = "RTP"        -> active
      /\ run' = [run EXCEPT ![s] = NewRun(o, p, run[s])]
    BY DEF Feed
<1>9. /\ Answer(o, p) \in {"NORTP", "ACTIVATING", "RTP"}
      /\ Answer(o, p) = "NORTP" => ~n.rtp.valid
      /\ Answer(o, p) = "ACTIVATING" => n.rtp.valid
      /\ Answer(o, p) = "RTP" => (n.rtp.valid <=> o.rtp.valid)
    BY <1>5, AnswerTells
<1> HIDE DEF o, n
<1>10. \A t \in Streams : object'[t] = IF t = s THEN n ELSE object[t]
    BY <1>3, <1>4
<1>11. Runs'
    <2> DEFINE q == NewRun(o, p, run[s])
    <2>1. run \in [Streams -> Nat] /\ q \in Nat
        BY <1>7 DEF FlowsInv, Runs, RunOK
    <2>2. run' = [run EXCEPT ![s] = q] /\ RunOK(n, q)
        BY <1>7, <1>8
    <2> HIDE DEF q
    <2>3. run' \in [Streams -> Nat] /\ \A t \in Streams : run'[t] = IF t = s THEN q ELSE run[t]
        BY <2>1, <2>2
    <2>4. QED BY <1>6, <1>10, <2>2, <2>3 DEF FlowsInv, Runs
<1>12. AnswersTellValidity'
    <2>1. active \subseteq Streams
        BY DEF FlowsInv, AnswersTellValidity
    <2>2. active' \subseteq Streams
        BY <1>8, <1>9, <2>1
    <2>3. s \in active' <=> n.rtp.valid
        BY <1>5, <1>8, <1>9
    <2>4. \A t \in Streams \ {s} : t \in active' <=> t \in active
        BY <1>8, <1>9
    <2>5. \A t \in Streams \ {s} :
              t \in active <=> object[t] # NoStream /\ object[t].rtp.valid
        BY DEF FlowsInv, AnswersTellValidity, Alive
    <2>6. \A t \in Streams : t \in active' <=> object'[t] # NoStream /\ object'[t].rtp.valid
        BY <1>6, <1>10, <2>3, <2>4, <2>5
    <2>7. QED BY <2>2, <2>6 DEF AnswersTellValidity, Alive
<1>13. QED BY <1>2, <1>11, <1>12 DEF FlowsInv

\* Removing streams leaves the others as they are.
LEMMA RemovingFrees ==
    ASSUME FacadeInv, Removing
    PROVE  /\ FacadeInv'
           /\ \A s \in Streams : object'[s] = object[s] \/ object'[s] = NoStream
<1>1. FacadeInv'
    <2>1. FlowNext
        BY DEF Removing, FlowNext
    <2>2. QED BY <2>1, FlowStepKeepsInv
<1>2. \E gone : object' = Freed(gone)
    BY DEF Removing, DestroyInterface, ClearFlows, RemoveFlow, DestroyStream, Destroy, DestroyFlows
<1>3. QED BY <1>1, <1>2 DEF Freed

LEMMA FlowsStepKeepsInv ==
    ASSUME FlowsInv, [FlowsNext]_flowVars
    PROVE  FlowsInv'
<1>1. CASE \E i \in Interfaces, f \in Flows, s \in Streams, p \in Packet \cup {NotRtp} :
               Feed(i, f, s, p)
    BY <1>1, FeedKeepsFlowsInv
<1>2. CASE Quietly /\ UNCHANGED <<active, run>>
    <2>1. FlowNext
        BY <1>2 DEF Quietly, FlowNext
    <2>2. FacadeInv'
        BY <2>1, FlowStepKeepsInv DEF FlowsInv
    <2>3. UNCHANGED <<object, active, run>>
        BY <1>2 DEF Quietly, SetRtpDetectionPacketsNum, CreateInterface
    <2>4. QED BY <2>2, <2>3 DEF FlowsInv, Runs, AnswersTellValidity, Alive
<1>3. CASE Removing /\ Forget
    <2> DEFINE gone == {s \in Streams : Alive(s) /\ object'[s] = NoStream}
    <2>1. /\ FacadeInv'
          /\ \A s \in Streams : object'[s] = object[s] \/ object'[s] = NoStream
        BY <1>3, RemovingFrees DEF FlowsInv
    <2>2. /\ active' = active \ gone
          /\ run' = [s \in Streams |-> IF s \in gone THEN 0 ELSE run[s]]
        BY <1>3 DEF Forget
    <2>3. \A s \in Streams : s \in gone <=> object[s] # NoStream /\ object'[s] = NoStream
        BY DEF Alive
    <2> HIDE DEF gone
    <2>4. AnswersTellValidity'
        <3>1. /\ active \subseteq Streams
              /\ \A s \in Streams : s \in active <=> object[s] # NoStream /\ object[s].rtp.valid
            BY DEF FlowsInv, AnswersTellValidity, Alive
        <3>2. \A s \in Streams : s \in active' <=> object'[s] # NoStream /\ object'[s].rtp.valid
            BY <2>1, <2>2, <2>3, <3>1
        <3>3. QED BY <2>2, <3>1, <3>2 DEF AnswersTellValidity, Alive
    <2>5. Runs'
        <3>1. run \in [Streams -> Nat]
            BY DEF FlowsInv, Runs
        <3>2. /\ run' \in [Streams -> Nat]
              /\ \A s \in Streams : run'[s] = IF s \in gone THEN 0 ELSE run[s]
            BY <2>2, <3>1
        <3>3. QED BY <2>1, <2>3, <3>2 DEF FlowsInv, Runs
    <2>6. QED BY <2>1, <2>4, <2>5 DEF FlowsInv
<1>4. CASE UNCHANGED flowVars
    BY <1>4 DEF flowVars, vars, FlowsInv, Runs, AnswersTellValidity, Alive,
                FacadeInv, TypeOK, Registered, Ledger, Detectors
<1>5. QED BY <1>1, <1>2, <1>3, <1>4 DEF FlowsNext

\* FlowsInv: FacadeInv, with the answers and the run of packets each detector's
\* window ends in, for users who feed and remove streams by their flows.
THEOREM FlowsInvariant == FlowsSpec => []FlowsInv
<1>1. FlowsInit => FlowsInv
    <2> SUFFICES ASSUME FlowsInit PROVE FlowsInv
        OBVIOUS
    <2>1. FacadeInv
        BY InitEstablishesInv DEF FlowsInit
    <2>2. \A s \in Streams : object[s] = NoStream
        BY DEF FlowsInit, Init
    <2>3. AnswersTellValidity
        BY <2>2 DEF FlowsInit, AnswersTellValidity, Alive
    <2>4. Runs
        BY <2>2 DEF FlowsInit, Runs
    <2>5. QED BY <2>1, <2>3, <2>4 DEF FlowsInv
<1>2. QED BY <1>1, FlowsStepKeepsInv, PTL DEF FlowsSpec

\* AnswersTellValidity: a user who goes by ACTIVATING and NORTP always knows
\* which streams are valid, through removals and deletions.
THEOREM AnswersTellValidityHolds == FlowsSpec => []AnswersTellValidity
    BY FlowsInvariant, PTL DEF FlowsInv

\* PromptDetection: a stream that was given its number of packets in a row is
\* valid.
THEOREM PromptDetectionHolds == FlowsSpec => []PromptDetection
<1>1. FlowsInv => PromptDetection
    BY DEF FlowsInv, Runs, RunOK, PromptDetection, Alive
<1>2. QED BY <1>1, FlowsInvariant, PTL
=============================================================================

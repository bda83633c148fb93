---------------------------- MODULE AnalyzerImpl ----------------------------
(***************************************************************************)
(* An analyzer of src/src/AnalyzerImpl.cpp with the engine ENGINE_TELCHM:  *)
(* frames are parsed and filed, a packet goes to the stream of its         *)
(* direction or to the interface of its entry, and statistics are put out  *)
(* as time passes.  The streams belong to the engine's library, which is   *)
(* not in the repository: it may activate a stream for a packet its        *)
(* interface was given, and deactivate an active one at any time.          *)
(*                                                                         *)
(* The other analyzers share MQmon with this one, and nothing else.  Each  *)
(* is started once at most, may then be stopped, and is released.  What an *)
(* analyzer does with the interfaces of an MQmon that was destroyed while  *)
(* it worked is not described.                                             *)
(***************************************************************************)
EXTENDS VQStatsRtsmDumper

CONSTANTS
    Analyzers, Main,    \* the analyzers of a program, and the one described
    Traffics,           \* the sets of frames that may be fed together
    Timestamps,              \* timestamps, in microseconds
    Intervals           \* of output, in microseconds

ASSUME AnalyzerAssumption ==
    /\ Main \in Analyzers /\ IsFiniteSet(Analyzers)
    /\ Timestamps \cup Intervals \subseteq Nat
    /\ MicroSec <= SubSec

\* Addresses and identifiers are numbers, and frames are as long as their
\* headers say: labels are followed by a header.
ASSUME FrameAssumption ==
    /\ JunkAddress \in Nat
    /\ \A frame \in UNION Traffics :
          /\ Len(frame) \in Nat /\ DOMAIN frame = 1..Len(frame)
          /\ \A i \in DOMAIN frame :
                /\ LooksIp(frame[i]) => frame[i].src \in Nat /\ frame[i].dst \in Nat
                /\ frame[i].is = "VLAN" => frame[i].id \in Nat
                /\ frame[i].is = "MPLS" => frame[i].ids \in Seq(Nat) /\ i < Len(frame)

\* A header stands where the one before it says: labels are one stack, a whole
\* packet and a first fragment have their transport header, only the ports of
\* GTP are followed by more, and nothing is listed behind data.
ASSUME GrammarAssumption ==
    \A frame \in UNION Traffics : \A i \in DOMAIN frame :
        LET h == frame[i]
            last == i = Len(frame)
        IN  /\ h.is = "MPLS" => frame[i + 1].is \notin {"VLAN", "MPLS"}
            /\ h.is = "IP4" /\ h.frag \notin {"middle", "last"} /\ h.next \in {"UDP", "TCP", "SCTP", "GRE"} =>
                  ~last /\ frame[i + 1].is = h.next
            /\ h.is \in {"UDP", "TCP", "SCTP"} =>
                  /\ h.ports \in Nat \X Nat
                  /\ IF h.is = "UDP" /\ {h.ports[1], h.ports[2]} \cap GtpPorts # {}
                     THEN ~last /\ frame[i + 1].is \in {"GTP", "DATA"}
                     ELSE last
            /\ h.is = "DATA" \/ (h.is = "GTP" /\ h.msg # "GPDU") => last

VARIABLES
    phase,          \* of each analyzer: NEW, STARTED, STOPPED, RELEASED
    nInstances,     \* g_nInstances
    up,             \* MQmon is initialised and not destroyed since
    overcounted,    \* history: analyzers counted down more often than up
    asserting,      \* a build whose assertions abort, not one with NDEBUG
    aborted,        \* the program ended in one
    entries,        \* VQStatsKeyMap
    interval,       \* m_Interval, in microseconds; 0 as constructed
    sampleEnd,      \* m_SampleEndTime
    fault,          \* the notification handler went on with NULL
    traffic,        \* the frames that are fed
    fed,            \* history: the frames that were filed
    armed           \* history: when sampleEnd was set, and for which interval

clockVars == <<interval, sampleEnd, armed>>
lifeVars == <<phase, nInstances, up, overcounted>>
buildVars == <<asserting, aborted>>
analyzerVars == <<lifeVars, clockVars, buildVars, entries, fault, traffic, fed>>

NotArmed == [at |-> 0, span |-> 0]

AnalyzerInit ==
    /\ phase = [a \in Analyzers |-> "NEW"] /\ nInstances = 0 /\ up = FALSE
    /\ overcounted = {} /\ asserting \in BOOLEAN /\ aborted = FALSE
    /\ entries = <<>> /\ fed = {} /\ traffic \in Traffics
    /\ interval = 0 /\ sampleEnd = Zero /\ armed = NotArmed /\ fault = FALSE

Working == phase[Main] = "STARTED" /\ up

-----------------------------------------------------------------------------

\* start, with InitVQStats
Start(a) ==
    /\ phase[a] = "NEW"
    /\ phase' = [phase EXCEPT ![a] = "STARTED"]
    /\ nInstances' = nInstances + 1
    /\ up' = (up \/ nInstances = 0)
    /\ UNCHANGED <<clockVars, buildVars, entries, fault, traffic, fed, overcounted>>

\* Faulty variant of FiniVQStats: the count is compared when it is lower.
LastInstanceEarly(n) == n - 1 = 1

LastInstance(n) == n = 1

\* FiniVQStats, called for an analyzer that is then in the given phase.
CountDown(a, then) ==
    /\ phase' = [phase EXCEPT ![a] = then]
    /\ nInstances' = nInstances - 1
    /\ up' = (up /\ ~LastInstance(nInstances))
    /\ overcounted' = IF phase[a] = "STARTED" THEN overcounted ELSE overcounted \cup {a}
    /\ UNCHANGED <<clockVars, buildVars, entries, fault, traffic, fed>>

Stop(a) == phase[a] = "STARTED" /\ CountDown(a, "STOPPED")

\* release calls stop, whether or not its user did before.
Release(a) == phase[a] # "RELEASED" /\ CountDown(a, "RELEASED")

SetResultOutputCallback(i) ==
    /\ interval' = i
    /\ UNCHANGED <<lifeVars, buildVars, sampleEnd, armed, entries, fault, traffic, fed>>

\* processTime of the analyzer and of the dumper; threw tells whether the
\* output left with an exception.  A result handler changes nothing here:
\* retrieveResults, called before the output, walks the tables as the output
\* does and throws when it does.
PassTime(t, threw) ==
    LET s == OfTimeval(interval)
        due == Due(sampleEnd, s, OfTimeval(t))
    IN  /\ threw \in IF due THEN {d.threw : d \in OutputStats(entries)} ELSE {FALSE}
        /\ sampleEnd' = SampleEnd(sampleEnd, s, OfTimeval(t))
        /\ armed' = IF due \/ (Count(s) > 0 /\ NeverSampled(sampleEnd))
                    THEN [at |-> t, span |-> interval] ELSE armed
        /\ UNCHANGED interval

ProcessTime(t) ==
    /\ Working /\ \E threw \in BOOLEAN : PassTime(t, threw)
    /\ UNCHANGED <<lifeVars, buildVars, entries, fault, traffic, fed>>

-----------------------------------------------------------------------------

\* VQStatsNotifyHandler, MQMON_NOTIFY_ACTIVATING: the stream set of the
\* direction is made anew, with an active stream.  The assertion in front is
\* meant for the opposite: it fails while there is no stream set yet.
Activate(e, key, idx) ==
    LET fails == key \in DOMAIN e /\ e[key][idx] = "ABSENT" /\ asserting
    IN  /\ aborted' = fails
        /\ entries' = IF key \in DOMAIN e /\ ~fails THEN [e EXCEPT ![key][idx] = "ACTIVE"] ELSE e
        /\ fault' = (fault \/ key \notin DOMAIN e)

\* feedPacket of a frame that parses: to the stream of its direction, or else
\* to the interface, which may activate one.
IndicatePacket(frame, p) ==
    LET e == WithEntry(entries, KeyOf(frame, p))
    IN  /\ fed' = fed \cup {frame}
        /\ \/ entries' = e /\ UNCHANGED <<fault, aborted>>
           \/ /\ e[KeyOf(frame, p)][FlowIdx(frame, p)] # "ACTIVE"
              /\ Activate(e, HandlerKey(frame, p), HandlerIdx(frame, p))

\* feedPacket: an exception of the output leaves before the frame is parsed.
FeedPacket(frame, t) ==
    /\ Working
    /\ \E threw \in BOOLEAN :
          /\ PassTime(t, threw)
          /\ IF threw \/ ~ParseFrame(frame).ok
             THEN UNCHANGED <<entries, fault, fed, aborted>>
             ELSE IndicatePacket(frame, ParseFrame(frame))
    /\ UNCHANGED <<lifeVars, asserting, traffic>>

\* VQStatsNotifyHandler, MQMON_NOTIFY_DEACTIVATING
Deactivate(key, idx) ==
    /\ Working /\ entries[key][idx] = "ACTIVE"
    /\ entries' = [entries EXCEPT ![key][idx] = "IDLE"]
    /\ UNCHANGED <<lifeVars, clockVars, buildVars, fault, traffic, fed>>

\* Nothing follows an assertion that aborted.
AnalyzerNext ==
    /\ ~aborted
    /\ \/ \E a \in Analyzers : Start(a) \/ Stop(a) \/ Release(a)
       \/ \E i \in Intervals : SetResultOutputCallback(i)
       \/ \E t \in Timestamps : ProcessTime(t) \/ \E frame \in traffic : FeedPacket(frame, t)
       \/ \E key \in DOMAIN entries, idx \in {1, 2} : Deactivate(key, idx)

AnalyzerSpec == AnalyzerInit /\ [][AnalyzerNext]_analyzerVars

-----------------------------------------------------------------------------

\* The parts of a frame that identify its conversation, found without the
\* parser: the identifiers in front of the first IP header, and what the
\* headers behind say.
FirstIp(frame) == CHOOSE i \in DOMAIN frame : IsIp(frame[i]) /\ \A j \in 1..(i - 1) : ~IsIp(frame[j])

\* The header of the conversation: the first one in a tunnel, or the only one.
InnerIp(frame) ==
    LET inner == {i \in DOMAIN frame : IsIp(frame[i]) /\ i > FirstIp(frame)}
    IN  IF inner = {} THEN FirstIp(frame) ELSE CHOOSE i \in inner : \A j \in inner : i <= j

Identifiers(frame) ==
    LET ids[n \in 0..FirstIp(frame)] ==
            IF n = 0 THEN <<>>
            ELSE ids[n - 1] \o (CASE frame[n].is = "VLAN" -> <<<<"VLAN", frame[n].id>>>>
                                  [] frame[n].is = "MPLS" ->
                                        [k \in DOMAIN frame[n].ids |-> <<"MPLS", frame[n].ids[k]>>]
                                  [] OTHER -> <<>>)
    IN  ids[FirstIp(frame)]

\* The frames whose conversation the parser can tell.  It cannot when a last
\* fragment, user data that is missing or more identifiers than it keeps leave
\* out what tells it, behind an IP header beyond the first octets, behind ESP,
\* of which the wrong fields are read, or when a MAC address behind labels
\* begins as an IP header does.
Clear(frame) ==
    /\ Len(Identifiers(frame)) <= MaxIds
    /\ \A i \in DOMAIN frame :
          /\ IsIp(frame[i]) => frame[i].frag # "last" /\ InOctet(frame, i)
          /\ frame[i].is = "IP6" => ~ExtensionsEnd(frame[i])
          /\ frame[i].is = "MAC" => ~LooksIp(frame[i])
    /\ frame[Len(frame)].is \in {"UDP", "TCP", "SCTP"}
    /\ FirstIp(frame) # InnerIp(frame) \/ frame[FirstIp(frame)].src # frame[FirstIp(frame)].dst

Endpoint(frame, i, side) ==
    <<IF side = 1 THEN frame[i].src ELSE frame[i].dst, frame[i + 1].ports[side]>>

\* A conversation of two endpoints outside tunnels, a direction inside one.
Tunnelled(frame) == FirstIp(frame) # InnerIp(frame)

Way(frame) == <<Endpoint(frame, InnerIp(frame), 1), Endpoint(frame, InnerIp(frame), 2)>>

Carrier(frame) ==
    LET h == frame[InnerIp(frame) - 1]
    IN  <<h.is, IF h.is = "GRE" /\ ~h.key THEN 0 ELSE h.tei,
          frame[FirstIp(frame)].src, frame[FirstIp(frame)].dst>>

Conversation(frame) ==
    <<Identifiers(frame), frame[InnerIp(frame)].next>>
    \o (IF Tunnelled(frame)
        THEN <<Carrier(frame), Way(frame)>>
        ELSE <<{Way(frame)[1], Way(frame)[2]}>>)

-----------------------------------------------------------------------------

AnalyzerTypeOK ==
    /\ phase \in [Analyzers -> {"NEW", "STARTED", "STOPPED", "RELEASED"}] /\ nInstances \in Int
    /\ up \in BOOLEAN /\ fault \in BOOLEAN /\ asserting \in BOOLEAN /\ aborted \in BOOLEAN
    /\ overcounted \subseteq Analyzers
    /\ \A k \in DOMAIN entries : k.table \in {"NONE", "GTP", "GRE"} /\
           entries[k] \in {"ABSENT", "IDLE", "ACTIVE"} \X {"ABSENT", "IDLE", "ACTIVE"}
    /\ interval \in Intervals \cup {0} /\ sampleEnd \in [sec: Nat, nsec: 0..(SubSec - 1)]
    /\ fed \subseteq traffic
    /\ armed \in [at: Timestamps \cup {0}, span: Intervals \cup {0}]

\* The count is that of the analyzers at work, less one for each that was
\* released behind a stop, or without a start.
InstancesCounted ==
    nInstances = Cardinality({a \in Analyzers : phase[a] = "STARTED"}) - Cardinality(overcounted)

\* MQmon, shared by all analyzers, is initialised with the first and destroyed
\* with the last: it is up as long as any analyzer works, and no longer, until
\* one is counted down that was not up.  That one may take MQmon from another
\* that works, but MQmon is not left up behind the last.
UpWhileWorking ==
    /\ overcounted = {} => (up <=> \E a \in Analyzers : phase[a] = "STARTED")
    /\ up => \E a \in Analyzers : phase[a] = "STARTED"

\* The tables tell conversations apart as the headers do: two frames are filed
\* together just if they are of one conversation, and under one direction of
\* it just if they go the same way.
EntriesAreConversations ==
    \A f, g \in {frame \in fed : Clear(frame)} :
        LET p == ParseFrame(f)
            q == ParseFrame(g)
        IN  /\ KeyOf(f, p) \in DOMAIN entries
            /\ KeyOf(f, p) = KeyOf(g, q) <=> Conversation(f) = Conversation(g)
            /\ KeyOf(f, p) = KeyOf(g, q) =>
                   (FlowIdx(f, p) = FlowIdx(g, q) <=> Way(f) = Way(g))

\* The handler, which looks the flow up again by the addresses and ports the
\* library gives it, finds the entry the packet was filed under: it never
\* goes on with NULL, and no direction becomes active that had no packet.  A
\* build whose assertions abort gets no further than the first activation.
ActivationFindsFlow ==
    /\ ~fault
    /\ asserting => \A k \in DOMAIN entries : entries[k] = NewSubEntry
    /\ \A k \in DOMAIN entries, i \in {1, 2} :
           entries[k][i] # "ABSENT" =>
               \E f \in fed : KeyOf(f, ParseFrame(f)) = k /\ FlowIdx(f, ParseFrame(f)) = i

\* Frames, tables and MQmon agree: what the types say, whose MQmon it is, and
\* which flow a stream became active for.
AnalyzerInv == AnalyzerTypeOK /\ InstancesCounted /\ UpWhileWorking /\ ActivationFindsFlow

\* Every block can be read alone: it fits the buffer, and each sub entry
\* stands behind an entry of its table, of its own connection, in the block.
BlockLength(b) ==
    LET sum[n \in 0..Len(b)] ==
            IF n = 0 THEN HeaderSize
            ELSE sum[n - 1] + (IF b[n].layer = 1 THEN Layer1Size(b[n].entry)
                               ELSE Layer2Size(b[n].key.table, b[n].sub))
    IN  sum[Len(b)]

BlocksSelfContained ==
    \A d \in OutputStats(entries) : \A n \in DOMAIN d.sent :
        LET b == d.sent[n]
        IN  /\ b # <<>> /\ BlockLength(b) <= BlockSize
            /\ \A i \in DOMAIN b : b[i].layer = 2 =>
                  \E j \in 1..(i - 1) :
                      /\ b[j].layer = 1 /\ b[j].table = b[i].key.table
                      /\ \A m \in (j + 1)..i : b[m].layer = 2
                      /\ b[j].table = "NONE" => b[j].entry = b[i].key.entry

\* While no tunnel was seen, an output shows every connection with an active
\* stream, each once, whatever the order of the tables.
ActiveReported ==
    (\A k \in DOMAIN entries : k.table = "NONE") =>
        \A d \in OutputStats(entries) :
            /\ ~d.threw
            /\ \A k \in DOMAIN entries :
                  Cardinality({at \in (DOMAIN d.sent) \X (1..BlockSize) :
                        /\ at[2] \in DOMAIN d.sent[at[1]]
                        /\ d.sent[at[1]][at[2]].layer = 2 /\ d.sent[at[1]][at[2]].key = k})
                  = IF HasData(entries[k]) THEN 1 ELSE 0

\* What is put out can be read back, and while no tunnel was seen it is all
\* there is to show.
DumpInv == BlocksSelfContained /\ ActiveReported

\* Outputs of an interval of whole seconds are more than the interval apart,
\* also behind a pause of the packets and when their times go back.
OutputsSpaced ==
    [][armed' # armed /\ armed # NotArmed /\ armed.span % MicroSec = 0
          => armed'.at - armed.at > armed.span]_analyzerVars

\* None is late: once a timestamp is beyond the interval by more than the
\* sub-seconds that OfTimeval cannot tell apart, the output is due.
OutputsPunctual ==
    (armed # NotArmed /\ armed.span % MicroSec = 0) =>
        \A t \in Timestamps : t - armed.at > armed.span + SubSec \div MicroSec =>
            Due(sampleEnd, OfTimeval(interval), OfTimeval(t))
=============================================================================

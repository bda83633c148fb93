--------------------------- MODULE VQStatsKeyMap ---------------------------
(***************************************************************************)
(* The keys under which src/src/VQStatsKeyMap.cpp files a packet (the      *)
(* classes of src/include/mqa/mqa_flowkeys.h), and the tables it keeps     *)
(* (mqa_flowentries.h).                                                    *)
(*                                                                         *)
(* A connection is found through three maps, one in the entries of the     *)
(* other: identifiers, addresses, ports.  A tunnel is found through two.   *)
(* The tables are the function from the whole key, the keys of all levels, *)
(* to the sub entry; the entries of the upper levels are made with their   *)
(* first sub entry and never removed.  The LIM port, a part of the first   *)
(* key like one more identifier, is left out.                              *)
(***************************************************************************)
EXTENDS StatsFrameParser

\* VQStatsConnEntry2Key: the smaller address is the source.
SortedPair(a) == IF a[1] > a[2] THEN <<a[2], a[1]>> ELSE a

\* Faulty variant: CreateConnSubEntryKey takes the ports as they come.
ConnSubEntryKeyUnsorted(a, info) == <<info.ports[1], info.ports[2], info.proto>>

\* CreateConnSubEntryKey
ConnSubEntryKey(a, info) ==
    IF a[1] > a[2] THEN <<info.ports[2], info.ports[1], info.proto>>
    ELSE <<info.ports[1], info.ports[2], info.proto>>

ConnKey(frame, p) ==
    LET a == Addresses(frame, p.lower)
    IN  [table |-> "NONE", entry |-> <<p.labels, SortedPair(a)>>,
         sub |-> ConnSubEntryKey(a, p.lower)]

\* CreateTunnelEntryKey, CreateTunnelSubEntryKey: a tunnel and what it
\* carries are not sorted.
TunnelKey(frame, p) ==
    LET a == Addresses(frame, p.upper)
    IN  [table |-> p.tunnel,
         entry |-> <<p.labels, Addresses(frame, p.lower), p.tei>>,
         sub |-> <<a, p.upper.ports, p.upper.proto>>]

\* FindStreamSet: the key of the sub entry a parsed frame belongs to, and
\* flowIdx, 1 for the direction from source to destination.
KeyOf(frame, p) ==
    IF p.tunnel = "NONE" THEN ConnKey(frame, p) ELSE TunnelKey(frame, p)

FlowIdx(frame, p) ==
    LET a == Addresses(frame, p.lower)
    IN  IF p.tunnel # "NONE" \/ a[1] = SortedPair(a)[1] THEN 1 ELSE 2

\* The notification handler of AnalyzerImpl.cpp looks the sub entry up again,
\* by the addresses and ports of the stream that is activating.
HandlerKey(frame, p) ==
    LET a == Addresses(frame, p.lower)
        forward == a[1] = SortedPair(a)[1]
    IN  IF p.tunnel # "NONE" THEN TunnelKey(frame, p)
        ELSE [table |-> "NONE", entry |-> <<p.labels, SortedPair(a)>>,
              sub |-> <<p.lower.ports[IF forward THEN 1 ELSE 2],
                        p.lower.ports[IF forward THEN 2 ELSE 1], p.lower.proto>>]

\* Faulty variant: every stream is taken for that of the first direction.
HandlerIdxFirst(frame, p) == 1

HandlerIdx(frame, p) ==
    IF p.tunnel # "NONE" \/ Addresses(frame, p.lower)[1] = SortedPair(Addresses(frame, p.lower))[1]
    THEN 1 ELSE 2

\* VQStatsSubEntry: whether each direction has a stream set yet (BiDirects),
\* and whether a stream of the set is active.
NewSubEntry == <<"ABSENT", "ABSENT">>

\* FindStreamSet answers whether the sub entry was there, and makes it.
WithEntry(entries, key) ==
    IF key \in DOMAIN entries THEN entries
    ELSE [k \in DOMAIN entries \cup {key} |->
             IF k = key THEN NewSubEntry ELSE entries[k]]

HasData(sub) == "ACTIVE" \in {sub[1], sub[2]}
=============================================================================

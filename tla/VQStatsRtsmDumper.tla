------------------------- MODULE VQStatsRtsmDumper -------------------------
(***************************************************************************)
(* src/src/VQStatsRtsmDumper.cpp: when statistics are due, and the blocks  *)
(* in which they are handed to the output callback.                        *)
(*                                                                         *)
(* A record of a block is the entry of a flow (layer 1) or one of its sub  *)
(* entries (layer 2).  A size stands for the bytes the code adds to        *)
(* nOffset; BlockSize and the maxima are constants of a header that is not *)
(* in the repository.                                                      *)
(***************************************************************************)
EXTENDS VQStatsKeyMap, TimeSec, FiniteSets

CONSTANTS
    HeaderSize, \* of the two headers every block starts with
    BlockSize   \* MAX_RTSM_VQSTATS_PACKET_SIZE

Layer1Max == 2 + MaxIds

Layer2Max(table) == IF table = "NONE" THEN 3 ELSE 2

ASSUME BlockAssumption ==
    /\ HeaderSize \in Nat /\ BlockSize \in Nat
    /\ HeaderSize + Layer1Max + Layer2Max("NONE") <= BlockSize

Layer1Size(entry) == 2 + Len(entry[1])

Layer2Size(table, sub) ==
    IF table = "NONE" /\ sub = <<"ACTIVE", "ACTIVE">> THEN 3 ELSE 2

-----------------------------------------------------------------------------

\* A dump under way: the blocks sent, the records of the block at hand,
\* nOffset, and whether the walk threw.
NewDump == [sent |-> <<>>, block |-> <<>>, offset |-> HeaderSize, threw |-> FALSE]

\* VQStatsOutputAndResetBlock
Flushed(d) ==
    [d EXCEPT !.sent = Append(@, d.block), !.block = <<>>, !.offset = HeaderSize]

\* bNeedDumpLayer1: at the first sub entry of an entry, and behind a flush.
NeedsLayer1(d, w) ==
    \A i \in 1..Len(d.block) :
        d.block[i] # [layer |-> 1, table |-> w.table, entry |-> w.entry]

WithRecord(d, record, size) ==
    [d EXCEPT !.block = Append(@, record), !.offset = @ + size]

WithLayer1(d, w) ==
    IF ~NeedsLayer1(d, w) THEN d
    ELSE WithRecord(d, [layer |-> 1, table |-> w.table, entry |-> w.entry],
                    Layer1Size(w.entry))

WithLayer2(d, w) ==
    WithRecord(d, [layer |-> 2, key |-> w.key, sub |-> w.sub], Layer2Size(w.table, w.sub))

\* Faulty variants: the entry is not repeated behind a flush; what did not fit
\* is not put in.
DumpSubEntryOnce(d, w) ==
    LET need == Layer2Max(w.table) + (IF NeedsLayer1(d, w) THEN Layer1Max ELSE 0)
    IN  IF d.offset + need > BlockSize /\ ~NeedsLayer1(d, w)
        THEN WithLayer2(Flushed(d), w)
        ELSE WithLayer2(WithLayer1(IF d.offset + need > BlockSize THEN Flushed(d) ELSE d, w), w)

DumpSubEntryLost(d, w) ==
    LET need == Layer2Max(w.table) + (IF NeedsLayer1(d, w) THEN Layer1Max ELSE 0)
    IN  IF d.offset + need > BlockSize THEN Flushed(d) ELSE WithLayer2(WithLayer1(d, w), w)

\* One sub entry of DumpConn or DumpTunnel.
DumpSubEntry(d, w) ==
    LET need == Layer2Max(w.table) + (IF NeedsLayer1(d, w) THEN Layer1Max ELSE 0)
    IN  WithLayer2(WithLayer1(
            IF d.offset + need > BlockSize THEN Flushed(d) ELSE d, w), w)

DumpAll(d0, walk) ==
    LET after[i \in 0..Len(walk)] ==
            IF i = 0 THEN d0 ELSE DumpSubEntry(after[i - 1], walk[i])
    IN  after[Len(walk)]

\* The orders in which a hash table may pass the members of a set.
Orders(S) == {f \in [1..Cardinality(S) -> S] : \A i, j \in DOMAIN f : f[i] = f[j] => i = j}

\* The entries of a table, and the visits to the sub entries of one of them
\* that have data, under the entry put into layer 1.
EntriesOf(entries, table) == {k.entry : k \in {k \in DOMAIN entries : k.table = table}}

SubWalks(entries, table, entry, shown) ==
    {[n \in DOMAIN f |-> [table |-> table, entry |-> shown, key |-> f[n], sub |-> entries[f[n]]]] :
        f \in Orders({k \in DOMAIN entries :
                        k.table = table /\ k.entry = entry /\ HasData(entries[k])})}

\* The dumps d may become by visits of entries, each shown as some entry.
DumpVisits(entries, table, visits, d) ==
    LET dumps[n \in 0..Len(visits)] ==
            IF n = 0 THEN {d}
            ELSE {DumpAll(before, walk) : before \in dumps[n - 1],
                     walk \in SubWalks(entries, table, visits[n].entry, visits[n].shown)}
    IN  dumps[Len(visits)]

DumpConn(entries, d) ==
    UNION {DumpVisits(entries, "NONE", [n \in DOMAIN f |-> [entry |-> f[n], shown |-> f[n]]], d) :
              f \in Orders(EntriesOf(entries, "NONE"))}

\* DumpTunnel steps on before it asks for the value: it shows the sub entries
\* of an entry under the entry before it, those of the first not at all, and
\* asks for a value behind the last, which throws.
DumpTunnel(entries, table, d) ==
    LET tunnels == EntriesOf(entries, table)
        late(f) == [n \in 1..(Len(f) - 1) |-> [entry |-> f[n + 1], shown |-> f[n]]]
    IN  IF tunnels = {} THEN {d}
        ELSE {[after EXCEPT !.threw = TRUE] :
                 after \in UNION {DumpVisits(entries, table, late(f), d) : f \in Orders(tunnels)}}

\* OutputStats: an exception passes the tables behind and the last block.
OutputStats(entries) ==
    LET gtp == DumpTunnel(entries, "GTP", NewDump)
        gre == UNION {IF d.threw THEN {d} ELSE DumpTunnel(entries, "GRE", d) : d \in gtp}
        all == UNION {IF d.threw THEN {d} ELSE DumpConn(entries, d) : d \in gre}
    IN  {IF d.threw \/ d.offset = HeaderSize THEN d ELSE Flushed(d) : d \in all}

-----------------------------------------------------------------------------

\* processTime: the end of the sample after it, and whether it is due.
NeverSampled(end) == Count(end) = 0

Due(end, interval, t) == Count(interval) > 0 /\ ~NeverSampled(end) /\ Before(end, t)

\* Faulty variants: the next sample ends an interval after the last one; or an
\* interval after every call.
SampleEndCatchingUp(end, interval, t) ==
    IF Count(interval) > 0 /\ NeverSampled(end) THEN Plus(t, interval)
    ELSE IF Due(end, interval, t) THEN Plus(end, interval) ELSE end

SampleEndPostponed(end, interval, t) ==
    IF Count(interval) > 0 THEN Plus(t, interval) ELSE end

SampleEnd(end, interval, t) ==
    IF Count(interval) > 0 /\ (NeverSampled(end) \/ Before(end, t))
    THEN Plus(t, interval) ELSE end
=============================================================================

-------------------------- MODULE HashTableObject --------------------------
(***************************************************************************)
(* The hash tables of the library as a record and one operator per method: *)
(*   "Map"     ftl::Map, src/include/ftl/ftlcollections.h                  *)
(*   "HashMap" ftl::HashMap of the same file, with its MaskHashPolicy      *)
(*   "fastl"   fastl::HashMap, src/include/ftl/HashMap.h                   *)
(* A node is known by its key.  A table that is not allocated has empty    *)
(* bins: no method tells the two apart.                                    *)
(***************************************************************************)
EXTENDS Integers, FiniteSets, Sequences

Seqs == INSTANCE SequencesExt

CONSTANTS
    HashOf,         \* KTraits::Hash, a function of the keys
    BinSizes,       \* bin counts to pick from, ascending: s_anPrimes, powers of two from 16 on
    MaskBins,       \* what MaskHashPolicy of ftl reserves for any number, 32 in the code
    MinLo,          \* low thresholds below this are 0; 17 in the code
    BlockSize       \* nBlockSize of ftl, nReserve of fastl's NodeBuffer

HashNULL == 0

EmptyBins(n) == [b \in 0..(n - 1) |-> <<>>]

\* load: the optimal, low and high load in percent.
NewTable(kind, n, load) ==
    [kind |-> kind, bins |-> EmptyBins(n), nElements |-> 0, nLockCount |-> 0, load |-> load,
     free |-> 0, nodes |-> 0]

BinCount(m) == Cardinality(DOMAIN m.bins)

\* The first listed size of at least n; behind the last one, n itself.
SizeFor(n) ==
    LET fit == {i \in DOMAIN BinSizes : BinSizes[i] >= n}
    IN  IF fit = {} THEN n ELSE BinSizes[CHOOSE i \in fit : \A j \in fit : i <= j]

\* PickSize of Map, ReserveBins of the two policies.
PickSize(m, n) ==
    CASE m.kind = "Map"     -> SizeFor((n * 100) \div m.load.optimal)
      [] m.kind = "HashMap" -> MaskBins
      [] m.kind = "fastl"   -> SizeFor(n)

HiThreshold(m) == (m.load.hi * BinCount(m)) \div 100

LoThreshold(m) ==
    LET lo == (m.load.lo * BinCount(m)) \div 100 IN IF lo < MinLo THEN 0 ELSE lo

BinOf(m, key) == HashOf[key] % BinCount(m)

\* GetNode: a key is looked for in its bin only.
Lookup(m, key) == Seqs!Contains(m.bins[BinOf(m, key)], key)

\* The place of a key in its bin.
PlaceOf(m, key) ==
    LET bin == m.bins[BinOf(m, key)] IN CHOOSE i \in 1..Len(bin) : bin[i] = key

\* The nodes, bin after bin.
NodesOf(m) ==
    LET before[b \in 0..BinCount(m)] == IF b = 0 THEN <<>> ELSE before[b - 1] \o m.bins[b - 1]
    IN  before[BinCount(m)]

\* Faulty variant: bins are chosen by the old number of bins, as after
\* ReserveBins of ftl::HashMap's PrimeNumberHashPolicy.
RewireOldCount(m, n) ==
    LET order == NodesOf(m)
        moved[i \in 0..Len(order)] ==
            IF i = 0 THEN EmptyBins(n)
            ELSE [moved[i - 1] EXCEPT ![BinOf(m, order[i]) % n] = <<order[i]>> \o @]
    IN  [m EXCEPT !.bins = moved[Len(order)]]

\* The loop of Rehash: one node after the other becomes the head of its new bin.
Rewire(m, n) ==
    LET order == NodesOf(m)
        moved[i \in 0..Len(order)] ==
            IF i = 0 THEN EmptyBins(n)
            ELSE [moved[i - 1] EXCEPT ![HashOf[order[i]] % n] = <<order[i]>> \o @]
    IN  [m EXCEPT !.bins = moved[Len(order)]]

\* Rehash; 0 asks for the number that fits.
Rehashed(m, n) ==
    LET target == IF n = 0 THEN PickSize(m, m.nElements) ELSE n
    IN  IF target = BinCount(m) THEN m ELSE Rewire(m, target)

AutoRehashed(m, due) ==
    IF m.kind # "fastl" /\ due /\ m.nLockCount = 0
    THEN Rehashed(m, PickSize(m, m.nElements)) ELSE m

\* A node from the free list, which ftl refills by a block when it is empty;
\* fastl's NodeBuffer allocates the node and a full reserve.
TakeNode(m) ==
    IF m.free > 0 THEN [m EXCEPT !.free = @ - 1]
    ELSE IF m.kind = "fastl" THEN [m EXCEPT !.free = BlockSize, !.nodes = @ + 1 + BlockSize]
    ELSE [m EXCEPT !.free = BlockSize - 1, !.nodes = @ + BlockSize]

\* A node back on the free list; NodeBuffer trims itself to the reserve when
\* it holds twice as much.
GiveNode(m) ==
    IF m.kind = "fastl" /\ m.free + 1 >= 2 * BlockSize
    THEN [m EXCEPT !.free = BlockSize, !.nodes = @ - (m.free + 1 - BlockSize)]
    ELSE [m EXCEPT !.free = @ + 1]

FreePlexes(m) == [m EXCEPT !.free = 0, !.nodes = 0]

\* Faulty variant: the table is rehashed while it is locked.
NewNodeUnlocked(m, key) ==
    LET linked == [TakeNode(m) EXCEPT !.bins[BinOf(m, key)] = <<key>> \o @, !.nElements = @ + 1]
    IN  IF linked.kind # "fastl" /\ linked.nElements > HiThreshold(linked)
        THEN Rehashed(linked, PickSize(linked, linked.nElements)) ELSE linked

\* CreateNode and NewNode: the node becomes the head of its bin.
NewNode(m, key) ==
    LET linked == [TakeNode(m) EXCEPT !.bins[BinOf(m, key)] = <<key>> \o @, !.nElements = @ + 1]
    IN  AutoRehashed(linked, linked.nElements > HiThreshold(linked))

\* FreeNode, the node being out of its bin.
FreeNode(m) ==
    LET given == [GiveNode(m) EXCEPT !.nElements = @ - 1]
        fit   == AutoRehashed(given, given.nElements < LoThreshold(given))
    IN  IF fit.kind # "fastl" /\ fit.nElements = 0 THEN FreePlexes(fit) ELSE fit

\* Faulty variant: the node is unlinked as the head of its bin, as erase(key)
\* does.
RemoveNodeAsHead(m, key) ==
    FreeNode([m EXCEPT !.bins[BinOf(m, key)] = SubSeq(@, PlaceOf(m, key) + 1, Len(@))])

\* RemoveNode with the predecessor GetNode or RemoveAtPos found.
RemoveNode(m, key) ==
    FreeNode([m EXCEPT !.bins[BinOf(m, key)] = Seqs!RemoveAt(@, PlaceOf(m, key))])

\* RemoveAll: the number of bins stays, as the method holds the lock itself.
Cleared(m) == FreePlexes([m EXCEPT !.bins = EmptyBins(BinCount(m)), !.nElements = 0])

\* The first node of the first bin from b on that has one.
FirstFrom(m, b) ==
    LET filled == {i \in b..(BinCount(m) - 1) : m.bins[i] # <<>>}
    IN  IF filled = {} THEN HashNULL
        ELSE Head(m.bins[CHOOSE i \in filled : \A j \in filled : i <= j])

GetStartPosition(m) == IF m.nElements = 0 THEN HashNULL ELSE FirstFrom(m, 0)

\* Faulty variant: the search of a further bin starts at the first.
FindNextNodeAgain(m, key) ==
    LET bin == m.bins[BinOf(m, key)]
        at  == PlaceOf(m, key)
    IN  IF at < Len(bin) THEN bin[at + 1] ELSE FirstFrom(m, BinOf(m, key))

\* Behind the node in its bin, or in the next bins.
FindNextNode(m, key) ==
    LET bin == m.bins[BinOf(m, key)]
        at  == PlaceOf(m, key)
    IN  IF at < Len(bin) THEN bin[at + 1] ELSE FirstFrom(m, BinOf(m, key) + 1)
=============================================================================

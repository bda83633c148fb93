--------------------------- MODULE MultiSizePool ---------------------------
(***************************************************************************)
(* ftl::MultiSizePool of src/include/ftl/MultiSizePool.h and a user who    *)
(* asks for blocks of one number of elements, a multiple of which fills    *)
(* the pool.  Blocks are known by the number of their first element slot,  *)
(* from 0 on; header is what is written in front of each slot.             *)
(***************************************************************************)
EXTENDS Integers, FiniteSets

CONSTANTS
    BlockSizes,     \* element counts users ask for; one per behaviour
    Units,          \* blocks the pool has room for
    SizeMod         \* size_t wraps here, 2^64 in the code

ASSUME MultiAssumption ==
    /\ BlockSizes \subseteq Nat \ {0} /\ Units \in Nat \ {0} /\ SizeMod \in Nat
    /\ \A size \in BlockSizes : size * Units < SizeMod

VARIABLES
    c,              \* elements per block
    header,         \* [bAlloc, nElem] in front of each slot
    nBuffers,       \* size()
    owned           \* history: blocks the user holds

multiVars == <<c, header, nBuffers, owned>>

MaxElems == c * Units

At == 0..(MaxElems - 1)

MultiInit ==
    /\ c \in BlockSizes
    /\ header = [b \in At |-> [bAlloc |-> FALSE, nElem |-> IF b = 0 THEN MaxElems ELSE 0]]
    /\ nBuffers = 0
    /\ owned = {}

NextBlock(b) == b + header[b].nElem

\* The blocks the headers chain, in address order.
Chained ==
    LET Reach[k \in 0..MaxElems] ==
            IF k = 0 THEN {0}
            ELSE Reach[k - 1] \cup {NextBlock(b) : b \in Reach[k - 1] \cap At}
    IN  Reach[MaxElems] \cap At

\* Free blocks of the chain with room for a block of the user's size.
Candidates == {b \in Chained : ~header[b].bAlloc /\ header[b].nElem >= c}

\* Faulty variant: the rest of the block found gets no header.
MultiAllocateNoRest(b) ==
    /\ nBuffers # MaxElems
    /\ b \in Candidates
    /\ \A o \in Candidates : header[b].nElem < header[o].nElem \/ (header[b].nElem = header[o].nElem /\ b <= o)
    /\ header' = [header EXCEPT ![b].bAlloc = TRUE]
    /\ nBuffers' = nBuffers + c
    /\ owned' = owned \cup {b}
    /\ UNCHANGED c

\* allocate gives the first of the smallest candidates (POLICY_COMPACT) and
\* makes a free block of its rest.
MultiAllocate(b) ==
    /\ nBuffers # MaxElems
    /\ b \in Candidates
    /\ \A o \in Candidates :
          header[b].nElem < header[o].nElem \/ (header[b].nElem = header[o].nElem /\ b <= o)
    /\ header' = [s \in At |->
          CASE s = b -> [bAlloc |-> TRUE, nElem |-> c]
            [] s = b + c /\ header[b].nElem > c ->
                 [bAlloc |-> FALSE, nElem |-> header[b].nElem - c]
            [] OTHER -> header[s]]
    /\ nBuffers' = nBuffers + c
    /\ owned' = owned \cup {b}
    /\ UNCHANGED c

\* Elements of the free blocks in a row from b on.
FreeRun(h, b) ==
    LET Run[k \in 0..MaxElems] ==
            IF k = MaxElems \/ h[k].bAlloc \/ h[k].nElem = 0 THEN 0
            ELSE h[k].nElem + Run[k + h[k].nElem]
    IN  Run[b]

\* Where merge_free ends when it steps back from b, and what it adds: each
\* step is as long as the block it leaves, and it stops at an allocated block
\* or the beginning of the buffer.
MergeBack(h, b) ==
    LET Back[k \in At] ==
            LET prev == k - h[k].nElem
            IN  IF prev < 0 \/ h[prev].bAlloc THEN [start |-> k, n |-> 0]
                ELSE [start |-> Back[prev].start, n |-> Back[prev].n + h[prev].nElem]
    IN  Back[b]

\* Faulty variant: the count falls by one block, whatever its elements.
MultiDeallocateByBlock(b) ==
    LET h    == [header EXCEPT ![b].bAlloc = FALSE]
        back == MergeBack(h, b)
    IN  /\ b \in owned
        /\ header' = [h EXCEPT ![back.start] = [bAlloc |-> TRUE, nElem |-> FreeRun(h, b) + back.n]]
        /\ nBuffers' = (nBuffers - 1) % SizeMod
        /\ owned' = owned \ {b}
        /\ UNCHANGED c

\* deallocate: merge_free marks the merged block allocated again and the
\* count falls by all of it.
MultiDeallocate(b) ==
    LET h    == [header EXCEPT ![b].bAlloc = FALSE]
        back == MergeBack(h, b)
        n    == FreeRun(h, b) + back.n
    IN  /\ b \in owned
        /\ header' = [h EXCEPT ![back.start] = [bAlloc |-> TRUE, nElem |-> n]]
        /\ nBuffers' = (nBuffers - n) % SizeMod
        /\ owned' = owned \ {b}
        /\ UNCHANGED c

MultiNext == \E b \in At : MultiAllocate(b) \/ MultiDeallocate(b)

MultiSpec == MultiInit /\ [][MultiNext]_multiVars

-----------------------------------------------------------------------------

\* Splitting and merging keep the chain of headers whole: it covers the
\* buffer, every block in use is on it with the size asked for, and what is
\* in use is not offered again.
ChainCoversPool ==
    /\ \A b \in Chained : NextBlock(b) \in Chained \cup {MaxElems}
    /\ \A b \in owned : b \in Chained /\ header[b] = [bAlloc |-> TRUE, nElem |-> c]
    /\ \A b \in Chained : header[b].nElem > 0

\* Blocks that are larger than what was asked for: a block that came back in
\* front of the free rest took all of it, and is marked allocated.
Swollen == {b \in Chained : header[b].bAlloc /\ header[b].nElem > c}

\* size() counts the elements in use, in whatever order blocks come back,
\* until one takes the free rest with it: from then on it is short of that
\* rest, modulo the width of size_t, and there is nothing left to allocate.
MultiSizeExact ==
    \/ Swollen = {} /\ nBuffers = c * Cardinality(owned)
    \/ \E b \in Swollen :
          /\ Swollen = {b} /\ b \notin owned /\ Candidates = {}
          /\ nBuffers = (c * Cardinality(owned) - (header[b].nElem - c)) % SizeMod

MultiInv == ChainCoversPool /\ MultiSizeExact
=============================================================================

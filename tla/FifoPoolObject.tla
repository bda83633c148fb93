--------------------------- MODULE FifoPoolObject ---------------------------
(***************************************************************************)
(* ftl::FifoPool of src/include/ftl/FifoPool.h as a record and one         *)
(* operator per method.  Pointers are offsets from _buf; header holds the  *)
(* size written in front of each block, at the offset it was written to.   *)
(***************************************************************************)
EXTENDS Integers, Sequences

HEADER_SIZE == 4

FULL_GAP == 1

NewFifo(maxsize) ==
    [max |-> maxsize + HEADER_SIZE + FULL_GAP,
     head |-> 0, tail |-> 0, end |-> 0, nBuffers |-> 0,
     header |-> [a \in 0..(maxsize + HEADER_SIZE + FULL_GAP) |-> 0]]

FifoEmpty(f) == f.head = f.tail

\* Faulty variant: the header in front of the block is not counted.
FitsFrontNoHeader(f, size) ==
    f.head >= f.tail /\ f.max - f.head < size + HEADER_SIZE /\ f.tail >= size

\* The three places allocate finds for a block, tested in this order: behind
\* the head, in front of the tail when the head wraps, and between a head
\* that has wrapped and the tail.
FitsBack(f, size) ==
    f.head >= f.tail /\ f.max - f.head >= size + HEADER_SIZE

FitsFront(f, size) ==
    f.head >= f.tail /\ ~FitsBack(f, size) /\ f.tail >= size + HEADER_SIZE

\* Faulty variant: allocate does not keep the gap behind a wrapped head.
FitsBetweenNoGap(f, size) ==
    f.head < f.tail /\ f.tail - f.head >= size + HEADER_SIZE

FitsBetween(f, size) ==
    f.head < f.tail /\ f.tail - f.head >= size + FULL_GAP + HEADER_SIZE

Fits(f, size) ==
    size # 0 /\ (FitsBack(f, size) \/ FitsFront(f, size) \/ FitsBetween(f, size))

\* Offset of the header of the block allocate returns.
BlockAt(f, size) == IF FitsFront(f, size) THEN 0 ELSE f.head

\* advance and the bookkeeping of allocate, for a block that fits.
Allocate(f, size) ==
    LET at == BlockAt(f, size)
    IN  [f EXCEPT !.header[at] = size,
                  !.head = at + HEADER_SIZE + size,
                  !.end = CASE FitsBack(f, size)    -> at + HEADER_SIZE + size
                            [] FitsFront(f, size)   -> f.head
                            [] FitsBetween(f, size) -> f.end,
                  !.nBuffers = @ + 1]

\* Faulty variant: pop does not go on at the front when it has released the
\* last block at the back.
PopPastEnd(f) ==
    LET next == f.tail + HEADER_SIZE + f.header[f.tail]
    IN  IF next = f.head
        THEN [f EXCEPT !.head = 0, !.tail = 0, !.end = 0, !.nBuffers = @ - 1]
        ELSE [f EXCEPT !.tail = next, !.nBuffers = @ - 1]

\* pop, on a pool that does not look empty.
Pop(f) ==
    LET next == f.tail + HEADER_SIZE + f.header[f.tail]
    IN  CASE next = f.head ->
               [f EXCEPT !.head = 0, !.tail = 0, !.end = 0, !.nBuffers = @ - 1]
          [] next # f.head /\ next = f.end ->
               [f EXCEPT !.tail = 0, !.end = f.head, !.nBuffers = @ - 1]
          [] next # f.head /\ next # f.end ->
               [f EXCEPT !.tail = next, !.nBuffers = @ - 1]

\* The blocks the pool holds, as its headers chain them from the tail on: a
\* chain that reaches the end of the back part goes on at offset zero.
NextAt(f, a) ==
    LET next == a + HEADER_SIZE + f.header[a]
    IN  IF next = f.end /\ next # f.head THEN 0 ELSE next

Chain(f) ==
    LET at[k \in 1..f.nBuffers] == IF k = 1 THEN f.tail ELSE NextAt(f, at[k - 1])
    IN  [k \in 1..f.nBuffers |-> [at |-> at[k], size |-> f.header[at[k]]]]
=============================================================================

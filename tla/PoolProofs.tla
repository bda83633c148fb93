----------------------------- MODULE PoolProofs -----------------------------
(***************************************************************************)
(* The pools and the linked list, each by itself, for every size and every *)
(* sequence of operations.                                                 *)
(***************************************************************************)
EXTENDS FifoPool, FixedSizePoolSet, MultiSizePool, LinkedList, SequenceTheorems, FiniteSetTheorems,
        WellFoundedInduction, TLAPS

(***************************************************************************)
(* FifoPool: where its blocks lie.  Either they lie one behind the other   *)
(* from the tail to the head; or the head has wrapped, and the older ones  *)
(* lie from the tail to the end, the others from the front to the head,    *)
(* with a gap to the tail.                                                 *)
(***************************************************************************)

\* Every nonempty set of natural numbers has a least element.
LEMMA LeastNatural ==
    ASSUME NEW T, T \subseteq Nat, T # {}
    PROVE  \E m \in T : \A k \in T : m <= k
<1>1. IsWellFoundedOn(OpToRel(<, Nat), Nat)
    BY NatLessThanWellFounded
<1>2. PICK m \in T : \A k \in T : ~(<<k, m>> \in OpToRel(<, Nat))
    BY <1>1, WFMin
<1>3. \A k \in T : ~(k < m)
    BY <1>2 DEF OpToRel
<1>4. QED
    BY <1>3

Top == MaxSize + HEADER_SIZE + FULL_GAP

Fifo == [max: {Top}, head: 0..Top, tail: 0..Top, end: 0..Top, nBuffers: Nat,
         header: [0..Top -> Nat]]

Block == [at: 0..Top, size: Sizes]

\* The offset behind a block.
Behind(b) == b.at + HEADER_SIZE + b.size

\* Not wrapped: the blocks lie between the tail and the head, in order.
InOneRow(f, bs) ==
    /\ f.end = f.head
    /\ bs = <<>> => f.head = 0
    /\ \A i \in 1..Len(bs) : f.tail <= bs[i].at /\ Behind(bs[i]) <= f.head
    /\ \A i, j \in 1..Len(bs) : i < j => Behind(bs[i]) <= bs[j].at

AtBack(f, b) == f.tail <= b.at /\ Behind(b) <= f.end

AtFront(f, b) == Behind(b) <= f.head

\* Wrapped: what lies in front is younger than what lies at the back.
InTwoRows(f, bs) ==
    /\ bs # <<>>
    /\ \A i \in 1..Len(bs) : AtBack(f, bs[i]) \/ AtFront(f, bs[i])
    /\ \A i, j \in 1..Len(bs) : i < j =>
           \/ Behind(bs[i]) <= bs[j].at
           \/ AtBack(f, bs[i]) /\ AtFront(f, bs[j])

\* The headers lead from each block to the next one.
HeadersLink(f, bs) ==
    /\ f.nBuffers = Len(bs)
    /\ bs # <<>> => f.tail = bs[1].at /\ f.head = Behind(bs[Len(bs)])
    /\ \A i \in 1..Len(bs) : f.header[bs[i].at] = bs[i].size
    /\ \A i \in 1..(Len(bs) - 1) : bs[i + 1].at = NextAt(f, bs[i].at)

Layout(f, bs) ==
    /\ f \in Fifo /\ bs \in Seq(Block)
    /\ HeadersLink(f, bs)
    /\ IF bs = <<>> \/ f.head > f.tail
       THEN InOneRow(f, bs) /\ (bs = <<>> => f.tail = 0)
       ELSE InTwoRows(f, bs) /\ f.head <= f.tail

LEMMA TopType == Top \in Nat /\ Top = MaxSize + 5
BY SizeAssumption DEF Top, HEADER_SIZE, FULL_GAP

LEMMA NewFifoLayout == Layout(NewFifo(MaxSize), <<>>) /\ NewFifo(MaxSize) \in Fifo
<1> DEFINE f == [max |-> Top, head |-> 0, tail |-> 0, end |-> 0, nBuffers |-> 0,
                 header |-> [a \in 0..Top |-> 0]]
<1>1. NewFifo(MaxSize) = f
    BY DEF NewFifo, Top
<1>2. f \in Fifo
    BY TopType DEF Fifo
<1>3. Len(<<>>) = 0 /\ <<>> \in Seq(Block)
    OBVIOUS
<1>4. Layout(f, <<>>)
    BY <1>2, <1>3 DEF Layout, HeadersLink, InOneRow
<1>5. QED BY <1>1, <1>2, <1>4

\* Types of one block, and of the pool's fields.
LEMMA BlockTypes ==
    ASSUME NEW f \in Fifo, NEW bs \in Seq(Block)
    PROVE  /\ f.head \in 0..Top /\ f.tail \in 0..Top /\ f.end \in 0..Top
           /\ f.nBuffers \in Nat /\ f.max = Top /\ Len(bs) \in Nat
           /\ f.header \in [0..Top -> Nat]
           /\ \A i \in 1..Len(bs) :
                 /\ bs[i] \in Block
                 /\ bs[i].at \in 0..Top /\ bs[i].size \in Nat /\ bs[i].size > 0
                 /\ Behind(bs[i]) \in Nat /\ bs[i].at < Behind(bs[i])
                 /\ bs[i] = [at |-> bs[i].at, size |-> bs[i].size]
<1>1. \A i \in 1..Len(bs) : bs[i] \in Block
    OBVIOUS
<1>2. \A b \in Block : /\ b.at \in 0..Top /\ b.size \in Sizes
                       /\ b = [at |-> b.at, size |-> b.size]
    BY DEF Block
<1>3. \A b \in Block : b.at \in Nat /\ b.size \in Nat /\ b.size > 0
    BY <1>2, SizeAssumption, TopType
<1>4. \A b \in Block : Behind(b) \in Nat /\ b.at < Behind(b)
    BY <1>3 DEF Behind, HEADER_SIZE
<1>5. \A i \in 1..Len(bs) :
          /\ bs[i] \in Block
          /\ bs[i].at \in 0..Top /\ bs[i].size \in Nat /\ bs[i].size > 0
          /\ Behind(bs[i]) \in Nat /\ bs[i].at < Behind(bs[i])
          /\ bs[i] = [at |-> bs[i].at, size |-> bs[i].size]
    <2> TAKE i \in 1..Len(bs)
    <2>1. bs[i] \in Block
        BY <1>1
    <2>2. QED BY <2>1, <1>2, <1>3, <1>4
<1>6. /\ f.head \in 0..Top /\ f.tail \in 0..Top /\ f.end \in 0..Top
      /\ f.nBuffers \in Nat /\ f.max = Top /\ f.header \in [0..Top -> Nat]
    BY DEF Fifo
<1>7. Len(bs) \in Nat
    OBVIOUS
<1>8. QED BY <1>5, <1>6, <1>7

\* allocate puts its block behind the others.
LEMMA AllocateLayout ==
    ASSUME NEW f, NEW bs, Layout(f, bs), NEW size \in Sizes, Fits(f, size),
           f.head = f.tail => bs = <<>>
    PROVE  Layout(Allocate(f, size), Append(bs, [at |-> BlockAt(f, size), size |-> size]))
<1> DEFINE at == BlockAt(f, size)
           b  == [at |-> at, size |-> size]
           cs == Append(bs, b)
           n  == Len(bs)
           newHeader == [f.header EXCEPT ![at] = size]
           newHead == at + HEADER_SIZE + size
           newEnd  == CASE FitsBack(f, size)    -> newHead
                        [] FitsFront(f, size)   -> f.head
                        [] FitsBetween(f, size) -> f.end
           g  == Allocate(f, size)
<1>0. f \in Fifo /\ bs \in Seq(Block) /\ HeadersLink(f, bs) /\ size \in Nat /\ size > 0
    BY SizeAssumption DEF Layout
<1>t. /\ f.head \in 0..Top /\ f.tail \in 0..Top /\ f.end \in 0..Top
      /\ f.nBuffers \in Nat /\ f.max = Top /\ n \in Nat
      /\ f.header \in [0..Top -> Nat]
      /\ \A i \in 1..n :
            /\ bs[i] \in Block
            /\ bs[i].at \in 0..Top /\ bs[i].size \in Nat /\ bs[i].size > 0
            /\ Behind(bs[i]) \in Nat /\ bs[i].at < Behind(bs[i])
    BY <1>0, BlockTypes
<1>n. n \in Nat
    BY <1>t
<1>r. /\ f.head >= f.tail => InOneRow(f, bs) /\ (bs = <<>> => f.tail = 0)
      /\ f.head < f.tail => InTwoRows(f, bs)
    <2>1. f.head \in Nat /\ f.tail \in Nat
        BY <1>t, TopType
    <2>2. bs = <<>> => f.head = 0 /\ f.tail = 0
        BY DEF Layout, InOneRow
    <2>3. QED BY <2>1, <2>2 DEF Layout
<1>1. \/ FitsBack(f, size) /\ ~FitsFront(f, size) /\ ~FitsBetween(f, size)
      \/ FitsFront(f, size) /\ ~FitsBack(f, size) /\ ~FitsBetween(f, size)
      \/ FitsBetween(f, size) /\ ~FitsBack(f, size) /\ ~FitsFront(f, size)
    BY <1>t, TopType DEF Fits, FitsBack, FitsFront, FitsBetween
\* Where the block lies, and what the fields become.
<1>a. /\ FitsBack(f, size) => f.head >= f.tail /\ f.head + 4 + size <= Top
      /\ FitsFront(f, size) => f.head >= f.tail /\ size + 4 <= f.tail
      /\ FitsBetween(f, size) => f.head < f.tail /\ f.head + 4 + size < f.tail
    <2>0. f.head \in Nat /\ f.tail \in Nat /\ f.max = Top /\ Top \in Nat /\ size \in Nat
        BY <1>0, <1>t, TopType
    <2>1. FitsBack(f, size) => f.head >= f.tail /\ f.head + 4 + size <= Top
        BY <2>0 DEF FitsBack, HEADER_SIZE
    <2>2. FitsFront(f, size) => f.head >= f.tail /\ size + 4 <= f.tail
        BY <2>0 DEF FitsFront, HEADER_SIZE
    <2>3. FitsBetween(f, size) => f.head < f.tail /\ f.head + 4 + size < f.tail
        BY <2>0 DEF FitsBetween, HEADER_SIZE, FULL_GAP
    <2>4. QED BY <2>1, <2>2, <2>3
<1>b. /\ FitsBack(f, size) => at = f.head /\ newEnd = newHead
      /\ FitsFront(f, size) => at = 0 /\ newEnd = f.head
      /\ FitsBetween(f, size) => at = f.head /\ newEnd = f.end
      /\ newHead = at + 4 + size
    BY <1>1 DEF BlockAt, HEADER_SIZE
<1>2. /\ at \in 0..Top /\ newHead \in 0..Top /\ newHead = at + 4 + size
      /\ FitsBack(f, size) => at = f.head /\ newEnd = newHead /\ f.head >= f.tail
      /\ FitsFront(f, size) => at = 0 /\ newEnd = f.head /\ f.head >= f.tail /\ newHead <= f.tail
      /\ FitsBetween(f, size) =>
            at = f.head /\ newEnd = f.end /\ f.head < f.tail /\ newHead < f.tail
    <2> HIDE DEF at, newHead, newEnd
    <2>1. f.head \in 0..Top /\ f.tail \in 0..Top /\ size \in Nat /\ size > 0
        BY <1>0, <1>t
    <2>2. CASE FitsBack(f, size)
        <3>1. f.head >= f.tail /\ f.head + 4 + size <= Top
            BY <2>2, <1>a
        <3>2. at = f.head /\ newEnd = newHead /\ newHead = at + 4 + size
            BY <2>2, <1>b
        <3>3. QED BY <2>1, <2>2, <3>1, <3>2, <1>1, TopType
    <2>3. CASE FitsFront(f, size)
        <3>1. f.head >= f.tail /\ size + 4 <= f.tail
            BY <2>3, <1>a
        <3>2. at = 0 /\ newEnd = f.head /\ newHead = at + 4 + size
            BY <2>3, <1>b
        <3>3. QED BY <2>1, <2>3, <3>1, <3>2, <1>1, TopType
    <2>4. CASE FitsBetween(f, size)
        <3>1. f.head < f.tail /\ f.head + 4 + size < f.tail
            BY <2>4, <1>a
        <3>2. at = f.head /\ newEnd = f.end /\ newHead = at + 4 + size
            BY <2>4, <1>b
        <3>3. QED BY <2>1, <2>4, <3>1, <3>2, <1>1, TopType
    <2>5. QED BY <2>2, <2>3, <2>4, <1>1
<1>3. newEnd \in 0..Top
    BY <1>t, <1>1, <1>2
<1>4. newHeader \in [0..Top -> Nat] /\ newHeader[at] = size
      /\ \A a \in 0..Top \ {at} : newHeader[a] = f.header[a]
    BY <1>0, <1>t, <1>2
<1> HIDE DEF newHeader, newHead, newEnd
<1>5. g = [f EXCEPT !.header = newHeader, !.head = newHead, !.end = newEnd, !.nBuffers = @ + 1]
    BY <1>0 DEF Allocate, newHeader, newHead, newEnd, Fifo
<1> HIDE DEF g
<1>6. /\ g \in Fifo /\ g.header = newHeader /\ g.head = newHead /\ g.end = newEnd
      /\ g.nBuffers = f.nBuffers + 1 /\ g.tail = f.tail
    <2>1. f.nBuffers + 1 \in Nat
        BY <1>t
    <2> HIDE DEF at
    <2>2. QED BY <1>0, <1>2, <1>3, <1>4, <1>5, <2>1 DEF Fifo
<1> HIDE DEF at
<1>7. /\ b \in Block /\ b.at = at /\ b.size = size
      /\ Behind(b) = newHead
    BY <1>2 DEF Block, Behind, HEADER_SIZE
<1> HIDE DEF b
<1>8. /\ cs \in Seq(Block) /\ Len(cs) = n + 1 /\ cs # <<>>
      /\ cs[n + 1] = b /\ \A i \in 1..n : cs[i] = bs[i]
    BY <1>0, <1>7
<1> HIDE DEF cs, n
<1>9. \A i \in 1..n : bs[i].at # at /\ newHeader[bs[i].at] = bs[i].size
    <2> TAKE i \in 1..n
    <2>1. bs[i].at # at
        <3>1. CASE FitsBetween(f, size)
            <4>1. at = f.head /\ f.head < f.tail
                BY <3>1, <1>2
            <4>2. f.tail <= bs[i].at \/ Behind(bs[i]) <= f.head
                BY <4>1, <1>r DEF InTwoRows, AtBack, AtFront, n
            <4>3. /\ bs[i].at \in Nat /\ Behind(bs[i]) \in Nat /\ bs[i].at < Behind(bs[i])
                  /\ f.head \in Nat /\ f.tail \in Nat
                BY <1>t
            <4>4. QED BY <4>1, <4>2, <4>3
        <3>2. CASE ~FitsBetween(f, size)
            BY <1>t, <1>1, <1>2, <3>2, <1>0, <1>r DEF InOneRow, n
        <3>3. QED BY <3>1, <3>2
    <2>2. QED BY <2>1, <1>4, <1>t, <1>0 DEF HeadersLink, n
\* A wrapped head, and the new one, stay below the blocks at the back.
<1>e. FitsBetween(f, size) => newHead < f.end /\ f.head < f.end
    <2> HAVE FitsBetween(f, size)
    <2>1. f.head < f.tail /\ newHead < f.tail /\ InTwoRows(f, bs)
        BY <1>2, <1>r
    <2>2. 1 \in 1..n /\ bs # <<>>
        BY <2>1, <1>0 DEF InTwoRows, n
    <2>3. f.tail = bs[1].at /\ (AtBack(f, bs[1]) \/ AtFront(f, bs[1]))
        BY <2>1, <2>2, <1>0 DEF HeadersLink, InTwoRows, n
    <2>4. QED BY <2>1, <2>2, <2>3, <1>t, <1>2, SMTT(30) DEF AtBack, AtFront
\* The last block leads to the new one, the others to where they led before.
<1>10. \A i \in 1..(n - 1) : NextAt(g, bs[i].at) = bs[i + 1].at
    <2> TAKE i \in 1..(n - 1)
    <2>1. i \in 1..n /\ i + 1 \in 1..n
        BY <1>t DEF n
    <2>2. /\ NextAt(f, bs[i].at) = IF Behind(bs[i]) = f.end /\ Behind(bs[i]) # f.head
                                   THEN 0 ELSE Behind(bs[i])
          /\ NextAt(g, bs[i].at) = IF Behind(bs[i]) = newEnd /\ Behind(bs[i]) # newHead
                                   THEN 0 ELSE Behind(bs[i])
          /\ bs[i + 1].at = NextAt(f, bs[i].at)
        BY <2>1, <1>0, <1>6, <1>9 DEF NextAt, Behind, HeadersLink, n
    <2>3. CASE FitsBetween(f, size)
        <3>1. Behind(bs[i]) = f.end => Behind(bs[i]) # f.head /\ Behind(bs[i]) # newHead
            BY <2>3, <1>e, <1>2, <1>t
        <3>2. QED BY <2>2, <2>3, <1>2, <3>1
    <2>4. CASE ~FitsBetween(f, size)
        <3>1. InOneRow(f, bs)
            BY <1>1, <1>2, <2>4, <1>t, <1>r
        <3>2. Behind(bs[i]) <= bs[i + 1].at /\ bs[i + 1].at < f.head /\ f.end = f.head
            BY <2>1, <3>1, <1>t DEF InOneRow, n
        <3>3. QED BY <2>1, <2>2, <2>4, <3>2, <1>1, <1>2, <1>t DEF n
    <2>5. QED BY <2>3, <2>4
<1>11. n > 0 => NextAt(g, bs[n].at) = at
    <2> HAVE n > 0
    <2>1. /\ n \in 1..n /\ f.head = Behind(bs[n])
          /\ NextAt(g, bs[n].at) = IF f.head = newEnd /\ f.head # newHead
                                   THEN 0 ELSE f.head
        BY <1>0, <1>6, <1>9, <1>t, SMTT(30) DEF NextAt, Behind, HeadersLink, n
    <2>2. CASE FitsBetween(f, size)
        BY <2>1, <2>2, <1>e, <1>1, <1>2, <1>t
    <2>3. CASE FitsFront(f, size)
        <3>1. bs # <<>>
            BY <2>1, <1>n DEF n
        <3>2. f.head \in Nat /\ f.tail \in Nat /\ newHead \in Nat /\ f.head # f.tail
            BY <3>1, <1>t, <1>2, TopType
        <3>3. f.head # newHead
            BY <2>3, <3>2, <1>2
        <3>4. QED BY <2>1, <2>3, <3>3, <1>2
    <2>4. CASE FitsBack(f, size)
        BY <2>1, <2>4, <1>1, <1>2, <1>t, <1>0
    <2>5. QED BY <2>2, <2>3, <2>4, <1>1
<1>12. HeadersLink(g, cs)
    <2>1. g.nBuffers = Len(cs)
        BY <1>0, <1>6, <1>8, <1>t DEF HeadersLink, n
    <2>2. g.tail = cs[1].at /\ g.head = Behind(cs[Len(cs)])
        <3>1. CASE n = 0
            <4>1. bs = <<>>
                BY <3>1, <1>0 DEF n
            <4>2. f.head = 0 /\ f.tail = 0
                BY <4>1 DEF Layout, InOneRow
            <4>3. QED BY <3>1, <4>2, <1>1, <1>2, <1>6, <1>7, <1>8, <1>0
        <3>2. CASE n > 0
            <4>1. 1 \in 1..n /\ bs # <<>>
                BY <3>2, <1>t DEF n
            <4>2. QED BY <4>1, <1>0, <1>6, <1>7, <1>8, <1>t DEF HeadersLink
        <3>3. QED BY <3>1, <3>2, <1>t
    <2>3. \A i \in 1..Len(cs) : g.header[cs[i].at] = cs[i].size
        <3> TAKE i \in 1..Len(cs)
        <3>1. CASE i = n + 1
            BY <3>1, <1>4, <1>6, <1>7, <1>8
        <3>2. CASE i \in 1..n
            BY <3>2, <1>6, <1>8, <1>9
        <3>3. QED BY <3>1, <3>2, <1>8, <1>t
    <2>4. \A i \in 1..(Len(cs) - 1) : cs[i + 1].at = NextAt(g, cs[i].at)
        <3> TAKE i \in 1..(Len(cs) - 1)
        <3>1. CASE i = n
            BY <3>1, <1>7, <1>8, <1>11, <1>t
        <3>2. CASE i \in 1..(n - 1)
            <4>1. i \in 1..n /\ i + 1 \in 1..n
                BY <3>2, <1>t
            <4>2. QED BY <3>2, <4>1, <1>8, <1>10
        <3>3. QED BY <3>1, <3>2, <1>8, <1>t
    <2>5. QED BY <2>1, <2>2, <2>3, <2>4 DEF HeadersLink
<1>13. CASE FitsBack(f, size)
    <2>1. InOneRow(f, bs) /\ newHead > f.head /\ newEnd = newHead /\ at = f.head /\ f.head >= f.tail
        BY <1>13, <1>1, <1>2, <1>t, <1>0, <1>r
    <2>2. \A i \in 1..(n + 1) : g.tail <= cs[i].at /\ Behind(cs[i]) <= g.head
        <3> TAKE i \in 1..(n + 1)
        <3>1. CASE i = n + 1
            BY <3>1, <2>1, <1>6, <1>7, <1>8, <1>2, <1>t
        <3>2. CASE i \in 1..n
            <4>1. f.tail <= bs[i].at /\ Behind(bs[i]) <= f.head /\ Behind(bs[i]) \in Nat
                BY <3>2, <2>1, <1>t DEF InOneRow, n
            <4>2. g.tail = f.tail /\ g.head = newHead /\ cs[i] = bs[i]
                BY <3>2, <1>6, <1>8
            <4>3. QED BY <4>1, <4>2, <2>1, <1>2, <1>t
        <3>3. QED BY <3>1, <3>2, <1>t
    <2>3. \A i, j \in 1..(n + 1) : i < j => Behind(cs[i]) <= cs[j].at
        <3> TAKE i, j \in 1..(n + 1)
        <3> HAVE i < j
        <3>1. CASE j = n + 1
            <4>1. i \in 1..n /\ cs[i] = bs[i]
                <5>1. i \in 1..n
                    BY <3>1, <1>n
                <5>2. QED BY <5>1, <1>8
            <4>2. Behind(bs[i]) <= f.head
                BY <4>1, <2>1 DEF InOneRow, n
            <4>3. cs[j].at = f.head
                BY <3>1, <2>1, <1>7, <1>8
            <4>4. QED BY <4>1, <4>2, <4>3
        <3>2. CASE j \in 1..n
            <4>1. i \in 1..n
                BY <3>2, <1>n
            <4>2. Behind(bs[i]) <= bs[j].at
                BY <3>2, <4>1, <2>1 DEF InOneRow, n
            <4>3. cs[i] = bs[i] /\ cs[j] = bs[j]
                BY <3>2, <4>1, <1>8
            <4>4. QED BY <4>2, <4>3
        <3>3. QED BY <3>1, <3>2, <1>n
    <2>4. InOneRow(g, cs)
        BY <2>1, <2>2, <2>3, <1>6, <1>8 DEF InOneRow
    <2>5. g.head > g.tail
        <3>1. f.head \in Nat /\ f.tail \in Nat /\ newHead \in Nat
            BY <1>t, <1>2, TopType
        <3>2. QED BY <2>1, <1>6, <3>1
    <2>6. QED BY <2>4, <2>5, <1>6, <1>8, <1>12 DEF Layout, cs, b, at, g
<1>14. CASE ~FitsBack(f, size)
    <2>1. /\ g.head <= g.tail /\ AtFront(g, b)
          /\ FitsFront(f, size) => at = 0 /\ newEnd = f.head /\ f.head >= f.tail /\ InOneRow(f, bs)
          /\ ~FitsFront(f, size) =>
                /\ FitsBetween(f, size) /\ at = f.head /\ newEnd = f.end /\ InTwoRows(f, bs)
                /\ newHead > f.head
        BY <1>14, <1>1, <1>2, <1>6, <1>7, <1>t, <1>0, <1>r DEF AtFront
    <2>2. \A i \in 1..n : AtBack(g, bs[i]) \/ (AtFront(g, bs[i]) /\ FitsBetween(f, size) /\ AtFront(f, bs[i]))
        BY <1>1, <1>14, <2>1, <1>6, <1>t, <1>2, SMTT(30) DEF InOneRow, InTwoRows, AtBack, AtFront, n
    <2>3. \A i \in 1..(n + 1) : AtBack(g, cs[i]) \/ AtFront(g, cs[i])
        BY <2>1, <2>2, <1>8, <1>t, SMTT(30)
    <2>4. \A i, j \in 1..(n + 1) : i < j =>
             \/ Behind(cs[i]) <= cs[j].at
             \/ AtBack(g, cs[i]) /\ AtFront(g, cs[j])
        <3> TAKE i, j \in 1..(n + 1)
        <3> HAVE i < j
        <3>0. i \in 1..n /\ cs[i] = bs[i]
            <4>1. i \in 1..n
                BY <1>n
            <4>2. QED BY <4>1, <1>8
        <3>1. CASE j = n + 1
            <4>1. AtFront(g, cs[j]) /\ cs[j].at = at
                BY <3>1, <2>1, <1>7, <1>8
            <4>2. CASE AtBack(g, bs[i])
                BY <3>0, <4>1, <4>2
            <4>3. CASE ~AtBack(g, bs[i])
                BY <3>0, <4>1, <4>3, <2>1, <2>2, <1>1 DEF AtFront
            <4>4. QED BY <4>2, <4>3
        <3>2. CASE j \in 1..n
            <4>1. cs[j] = bs[j]
                BY <3>2, <1>8
            <4>2. CASE FitsFront(f, size)
                BY <3>0, <3>2, <4>1, <4>2, <2>1 DEF InOneRow, n
            <4>3. CASE ~FitsFront(f, size)
                <5>1. \/ Behind(bs[i]) <= bs[j].at
                      \/ AtBack(f, bs[i]) /\ AtFront(f, bs[j])
                    BY <3>0, <3>2, <4>3, <2>1 DEF InTwoRows, n
                <5>2. AtBack(f, bs[i]) => AtBack(g, bs[i])
                    BY <4>3, <2>1, <1>6 DEF AtBack
                <5>3. AtFront(f, bs[j]) => AtFront(g, bs[j])
                    BY <4>3, <3>2, <2>1, <1>6, <1>t, <1>2 DEF AtFront, n
                <5>4. QED BY <3>0, <4>1, <5>1, <5>2, <5>3
            <4>4. QED BY <4>2, <4>3
        <3>3. QED BY <3>1, <3>2, <1>n
    <2>5. InTwoRows(g, cs)
        BY <2>3, <2>4, <1>8 DEF InTwoRows
    <2>6. ~(g.head > g.tail) /\ g.head <= g.tail
        <3>1. f.tail \in Nat /\ newHead \in Nat
            BY <1>t, <1>2, TopType
        <3>2. QED BY <2>1, <1>6, <3>1
    <2>7. QED BY <2>5, <2>6, <1>6, <1>8, <1>12 DEF Layout, cs, b, at, g
<1>20. QED BY <1>13, <1>14

\* pop releases the first block.
LEMMA PopLayout ==
    ASSUME NEW f, NEW bs, Layout(f, bs), ~FifoEmpty(f)
    PROVE  bs # <<>> /\ Layout(Pop(f), Tail(bs))
<1> DEFINE n  == Len(bs)
           cs == Tail(bs)
           g  == Pop(f)
           next == f.tail + HEADER_SIZE + f.header[f.tail]
<1>0. f \in Fifo /\ bs \in Seq(Block) /\ HeadersLink(f, bs)
    BY DEF Layout
<1>t. /\ f.head \in 0..Top /\ f.tail \in 0..Top /\ f.end \in 0..Top
      /\ f.nBuffers \in Nat /\ f.max = Top /\ n \in Nat
      /\ f.header \in [0..Top -> Nat]
      /\ \A i \in 1..n :
            /\ bs[i] \in Block
            /\ bs[i].at \in 0..Top /\ bs[i].size \in Nat /\ bs[i].size > 0
            /\ Behind(bs[i]) \in Nat /\ bs[i].at < Behind(bs[i])
    BY <1>0, BlockTypes
<1>n. n \in Nat
    BY <1>t
<1>1. bs # <<>>
    BY DEF FifoEmpty, Layout, InOneRow
<1>r. /\ f.head >= f.tail => InOneRow(f, bs) /\ f.head > f.tail
      /\ ~(f.head >= f.tail) => InTwoRows(f, bs)
    <2>1. f.head \in Nat /\ f.tail \in Nat /\ f.head # f.tail
        BY <1>t, TopType DEF FifoEmpty
    <2>2. QED BY <2>1, <1>1 DEF Layout
<1>2. n > 0 /\ 1 \in 1..n /\ n \in 1..n
    BY <1>0, <1>1, <1>t
<1>3. f.tail = bs[1].at /\ next = Behind(bs[1]) /\ f.head = Behind(bs[n])
    BY <1>0, <1>1, <1>2 DEF HeadersLink, Behind
<1>4. /\ cs \in Seq(Block) /\ Len(cs) = n - 1 /\ \A i \in 1..(n - 1) : cs[i] = bs[i + 1]
      /\ n = 1 => cs = <<>>
    <2>1. cs \in Seq(Block) /\ Len(cs) = n - 1 /\ \A i \in 1..(n - 1) : cs[i] = bs[i + 1]
        BY <1>0, <1>1, HeadTailProperties
    <2> HIDE DEF cs
    <2>2. n = 1 => cs = <<>>
        BY <2>1, EmptySeq
    <2>3. QED BY <2>1, <2>2
<1> HIDE DEF cs, next
\* The tail reaches the head with the last block, and the end with the last
\* one at the back.
<1>5. next = f.head <=> n = 1
    <2>1. n = 1 => next = f.head
        BY <1>3
    <2>2. n > 1 => next # f.head
        <3> HAVE n > 1
        <3>1. CASE f.head >= f.tail
            BY <3>1, <1>2, <1>3, <1>t, <1>r DEF InOneRow, n
        <3>2. CASE ~(f.head >= f.tail)
            BY <3>2, <1>2, <1>3, <1>t
        <3>3. QED BY <3>1, <3>2
    <2> HIDE DEF n
    <2>3. QED BY <2>1, <2>2, <1>2, <1>t
<1>6. /\ g \in Fifo /\ g.header = f.header /\ g.nBuffers = f.nBuffers - 1
      /\ n = 1 => g.head = 0 /\ g.tail = 0 /\ g.end = 0
      /\ n # 1 /\ next = f.end => g.head = f.head /\ g.tail = 0 /\ g.end = f.head
      /\ n # 1 /\ next # f.end => g.head = f.head /\ g.tail = next /\ g.end = f.end
    <2>1. f.nBuffers - 1 \in Nat /\ 0 \in 0..Top
        BY <1>0, <1>2, <1>t, TopType DEF HeadersLink
    <2>2. next = f.head \/ next # f.end => next \in 0..Top
        <3>1. next \in Nat
            BY <1>2, <1>3, <1>t
        <3>2. CASE f.head >= f.tail
            <4>1. Behind(bs[1]) <= f.head
                BY <3>2, <1>2, <1>r DEF InOneRow, n
            <4>2. f.head \in 0..Top /\ Top \in Nat
                BY <1>t, TopType
            <4>3. QED BY <3>1, <4>1, <4>2, <1>3
        <3>3. CASE ~(f.head >= f.tail)
            BY <3>1, <3>3, <1>2, <1>3, <1>t, <1>r, TopType DEF InTwoRows, AtBack, AtFront, n
        <3>4. QED BY <3>2, <3>3
    <2>3. CASE next = f.head
        <3>1. g = [f EXCEPT !.head = 0, !.tail = 0, !.end = 0, !.nBuffers = @ - 1]
            BY <2>3 DEF Pop, next
        <3>2. QED BY <1>0, <1>5, <2>1, <2>3, <3>1 DEF Fifo
    <2>4. CASE next # f.head /\ next = f.end
        <3>1. g = [f EXCEPT !.tail = 0, !.end = f.head, !.nBuffers = @ - 1]
            BY <2>4 DEF Pop, next
        <3>2. QED BY <1>0, <1>5, <1>t, <2>1, <2>4, <3>1 DEF Fifo
    <2>5. CASE next # f.head /\ next # f.end
        <3>1. g = [f EXCEPT !.tail = next, !.nBuffers = @ - 1]
            BY <2>5 DEF Pop, next
        <3>2. QED BY <1>0, <1>5, <1>t, <2>1, <2>2, <2>5, <3>1 DEF Fifo
    <2>6. QED BY <2>3, <2>4, <2>5
<1> HIDE DEF g
<1>7. CASE n = 1
    <2>1. cs = <<>> /\ g.nBuffers = 0 /\ Len(cs) = 0 /\ g.head = 0 /\ g.tail = 0 /\ g.end = 0
        BY <1>0, <1>4, <1>6, <1>7, <1>t DEF HeadersLink, n
    <2>2. HeadersLink(g, cs) /\ InOneRow(g, cs)
        BY <2>1 DEF HeadersLink, InOneRow
    <2>3. QED BY <1>1, <1>4, <1>6, <2>1, <2>2 DEF Layout, g, cs
<1>8. CASE n # 1
    <2> SUFFICES Layout(g, cs)
        BY <1>1 DEF g, cs
    <2> HIDE DEF n
    <2>0. n > 1 /\ 2 \in 1..n /\ cs # <<>> /\ g.head = f.head /\ next # f.head
        BY <1>2, <1>4, <1>5, <1>6, <1>8, <1>t
    <2>1. \A i \in 1..(n - 1) :
             i \in 1..n /\ i + 1 \in 1..n /\ 1 < i + 1 /\ cs[i] = bs[i + 1]
        <3> TAKE i \in 1..(n - 1)
        <3>1. i \in 1..n /\ i + 1 \in 1..n /\ 1 < i + 1
            BY <1>n
        <3>2. QED BY <3>1, <1>4
    <2>2. \A i \in 1..n :
             /\ NextAt(f, bs[i].at) = IF Behind(bs[i]) = f.end /\ Behind(bs[i]) # f.head
                                      THEN 0 ELSE Behind(bs[i])
             /\ NextAt(g, bs[i].at) = IF Behind(bs[i]) = g.end /\ Behind(bs[i]) # f.head
                                      THEN 0 ELSE Behind(bs[i])
        <3> TAKE i \in 1..n
        <3>1. f.header[bs[i].at] = bs[i].size /\ g.header[bs[i].at] = bs[i].size
            BY <1>0, <1>6 DEF HeadersLink, n
        <3>2. NextAt(f, bs[i].at) = IF Behind(bs[i]) = f.end /\ Behind(bs[i]) # f.head
                                    THEN 0 ELSE Behind(bs[i])
            BY <3>1 DEF NextAt, Behind
        <3>3. NextAt(g, bs[i].at) = IF Behind(bs[i]) = g.end /\ Behind(bs[i]) # f.head
                                    THEN 0 ELSE Behind(bs[i])
            BY <3>1, <2>0 DEF NextAt, Behind
        <3>4. QED BY <3>2, <3>3
    <2>3. bs[2].at = NextAt(f, bs[1].at)
        BY <1>0, <2>0, <1>t DEF HeadersLink, n
    <2>4. g.tail = cs[1].at
        <3>1. bs[2].at = IF next = f.end THEN 0 ELSE next
            BY <1>2, <1>3, <2>0, <2>2, <2>3
        <3>2. g.tail = IF next = f.end THEN 0 ELSE next
            BY <1>6, <1>8
        <3>3. 1 \in 1..(n - 1) /\ cs[1] = bs[1 + 1] /\ 1 + 1 = 2
            BY <2>0, <2>1, <1>t
        <3>4. QED BY <3>1, <3>2, <3>3
    <2>a. HeadersLink(g, cs) <=> \A i \in 1..(n - 2) : cs[i + 1].at = NextAt(g, cs[i].at)
        <3>1. n - 1 \in 1..(n - 1) /\ n - 1 + 1 = n /\ Len(cs) - 1 = n - 2 /\ Len(cs) = n - 1
            BY <2>0, <1>4, <1>t
        <3>2. g.nBuffers = Len(cs)
            BY <1>0, <1>6, <3>1 DEF HeadersLink, n
        <3>3. g.head = Behind(cs[Len(cs)])
            BY <3>1, <2>0, <2>1, <1>3
        <3>4. \A i \in 1..(n - 1) : g.header[cs[i].at] = cs[i].size
            BY <2>1, <1>0, <1>6 DEF HeadersLink, n
        <3>5. QED BY <3>1, <3>2, <3>3, <3>4, <2>4 DEF HeadersLink
\* The last block at the back is gone: all others lie in front.
    <2>5. CASE next = f.end
        <3>1. ~(f.head >= f.tail)
            BY <1>5, <1>8, <2>5, <1>r DEF InOneRow
        <3>2. InTwoRows(f, bs) /\ f.tail < next
            BY <3>1, <1>2, <1>3, <1>t, <1>r
        <3>3. \A i \in 2..n : AtFront(f, bs[i])
            <4> TAKE i \in 2..n
            <4>1. i \in 1..n /\ 1 < i
                BY <1>t
            <4>2. \/ next <= bs[i].at
                  \/ AtFront(f, bs[i])
                BY <4>1, <3>2, <1>2, <1>3 DEF InTwoRows, n
            <4>3. AtBack(f, bs[i]) \/ AtFront(f, bs[i])
                BY <4>1, <3>2 DEF InTwoRows, n
            <4>4. QED BY <4>1, <4>2, <4>3, <2>5, <1>t DEF AtBack
        <3>4. \A i \in 1..(n - 1) : 0 <= cs[i].at /\ Behind(cs[i]) <= f.head
            BY <3>3, <2>1, <1>t, SMTT(30) DEF AtFront
        <3>5. \A i, j \in 1..(n - 1) : i < j => Behind(cs[i]) <= cs[j].at
            <4> TAKE i, j \in 1..(n - 1)
            <4> HAVE i < j
            <4>0. i + 1 < j + 1
                BY <1>t
            <4>1. i + 1 \in 1..n /\ j + 1 \in 1..n /\ i + 1 < j + 1 /\ cs[i] = bs[i + 1] /\ cs[j] = bs[j + 1]
                BY <4>0, <2>1
            <4>2. Behind(bs[i + 1]) <= bs[j + 1].at \/ AtBack(f, bs[i + 1])
                BY <4>1, <3>2 DEF InTwoRows, n
            <4>3. Behind(bs[i + 1]) <= f.head
                BY <4>1, <3>4
            <4>4. QED BY <4>1, <4>2, <4>3, <3>1, <1>t, SMTT(30) DEF AtBack
        <3>6. InOneRow(g, cs) /\ g.head > g.tail
            <4>1. g.end = g.head /\ g.tail = 0 /\ g.head = f.head /\ f.head \in Nat /\ f.head > 0
                <5>1. n \in 2..n /\ n \in 1..n
                    BY <2>0, <1>n
                <5>2. Behind(bs[n]) \in Nat /\ bs[n].at \in Nat /\ bs[n].at < Behind(bs[n])
                    BY <5>1, <1>t, TopType
                <5>3. QED BY <5>2, <1>3, <1>6, <1>8, <2>5, <1>t, TopType
            <4>2. QED BY <3>4, <3>5, <4>1, <1>4, <2>0 DEF InOneRow
        <3>7. \A i \in 1..(n - 2) : cs[i + 1].at = NextAt(g, cs[i].at)
            <4> TAKE i \in 1..(n - 2)
            <4>1. i \in 1..(n - 1) /\ i + 1 \in 1..(n - 1) /\ i + 1 \in 1..n
                BY <1>t
            <4>2. bs[i + 1 + 1].at = NextAt(f, bs[i + 1].at)
                BY <4>1, <1>0 DEF HeadersLink, n
            <4>3. Behind(bs[i + 1]) <= f.head
                BY <4>1, <3>4, <2>1
            <4>4. Behind(bs[i + 1]) # f.end
                BY <4>1, <4>3, <3>1, <3>2, <2>5, <1>t
            <4>5. Behind(bs[i + 1]) = bs[i + 1 + 1].at
                BY <4>1, <4>2, <4>4, <2>2
            <4>6. NextAt(g, bs[i + 1].at) = Behind(bs[i + 1])
                BY <4>1, <2>2, <1>6, <1>8, <2>5
            <4>7. cs[i] = bs[i + 1] /\ cs[i + 1] = bs[i + 1 + 1]
                BY <4>1, <2>1
            <4>8. QED BY <4>5, <4>6, <4>7
        <3>8. QED BY <3>6, <3>7, <2>a, <2>0, <1>4, <1>6 DEF Layout
    <2>6. CASE next # f.end
        <3>1. \A i \in 1..(n - 2) : cs[i + 1].at = NextAt(g, cs[i].at)
            <4> TAKE i \in 1..(n - 2)
            <4>1. i \in 1..(n - 1) /\ i + 1 \in 1..(n - 1) /\ i + 1 \in 1..n
                BY <1>t
            <4>2. bs[i + 1 + 1].at = NextAt(f, bs[i + 1].at)
                BY <4>1, <1>0 DEF HeadersLink, n
            <4>3. NextAt(g, bs[i + 1].at) = NextAt(f, bs[i + 1].at)
                BY <4>1, <2>2, <1>6, <1>8, <2>6
            <4>4. cs[i] = bs[i + 1] /\ cs[i + 1] = bs[i + 1 + 1]
                BY <4>1, <2>1
            <4>5. QED BY <4>2, <4>3, <4>4
        <3>2. HeadersLink(g, cs)
            BY <3>1, <2>a
        <3>3. CASE f.head >= f.tail
            <4>1. InOneRow(f, bs)
                BY <3>3, <1>r
            <4>2. \A i \in 1..(n - 1) : next <= cs[i].at /\ Behind(cs[i]) <= f.head
                BY <4>1, <1>2, <1>3, <2>1 DEF InOneRow, n
            <4>3. \A i, j \in 1..(n - 1) : i < j => Behind(cs[i]) <= cs[j].at
                <5> TAKE i, j \in 1..(n - 1)
                <5> HAVE i < j
                <5>0. i + 1 < j + 1
                    BY <1>t
                <5>1. i + 1 \in 1..n /\ j + 1 \in 1..n /\ i + 1 < j + 1 /\ cs[i] = bs[i + 1] /\ cs[j] = bs[j + 1]
                    BY <5>0, <2>1
                <5>2. QED BY <5>1, <4>1 DEF InOneRow, n
            <4>4. f.head > next
                <5>1. 1 \in 1..(n - 1) /\ cs[1].at \in Nat /\ Behind(cs[1]) \in Nat /\ cs[1].at < Behind(cs[1])
                    BY <2>0, <2>1, <1>t
                <5>2. next \in Nat
                    BY <1>2, <1>3, <1>t
                <5>3. QED BY <5>1, <5>2, <4>2, <1>t
            <4>5. InOneRow(g, cs) /\ g.head > g.tail
                <5>1. g.end = f.end /\ g.head = f.head /\ g.tail = next /\ f.end = f.head
                    BY <4>1, <1>6, <1>8, <2>6 DEF InOneRow
                <5>2. QED BY <5>1, <4>2, <4>3, <4>4, <1>4, <2>0 DEF InOneRow
            <4>6. QED BY <4>5, <3>2, <2>0, <1>4, <1>6 DEF Layout
        <3>4. CASE ~(f.head >= f.tail)
            <4>1. InTwoRows(f, bs) /\ f.tail < next /\ f.head < next
                BY <3>4, <1>2, <1>3, <1>t, <1>r
            <4>2. \A i \in 1..(n - 1) : AtBack(g, cs[i]) \/ AtFront(g, cs[i])
                <5> TAKE i \in 1..(n - 1)
                <5>1. AtBack(f, bs[i + 1]) \/ AtFront(f, bs[i + 1])
                    BY <2>1, <4>1 DEF InTwoRows, n
                <5>2. next <= bs[i + 1].at \/ AtFront(f, bs[i + 1])
                    BY <1>2, <1>3, <2>1, <4>1 DEF InTwoRows, n
                <5>3. QED BY <5>1, <5>2, <2>1, <1>6, <1>8, <2>6 DEF AtBack, AtFront
            <4>3. \A i, j \in 1..(n - 1) : i < j =>
                      \/ Behind(cs[i]) <= cs[j].at
                      \/ AtBack(g, cs[i]) /\ AtFront(g, cs[j])
                <5> TAKE i, j \in 1..(n - 1)
                <5> HAVE i < j
                <5>0. i + 1 < j + 1
                    BY <1>t
                <5>1. i + 1 \in 1..n /\ j + 1 \in 1..n /\ i + 1 < j + 1 /\ cs[i] = bs[i + 1] /\ cs[j] = bs[j + 1]
                    BY <5>0, <2>1
                <5>2. \/ Behind(bs[i + 1]) <= bs[j + 1].at
                      \/ AtBack(f, bs[i + 1]) /\ AtFront(f, bs[j + 1])
                    BY <5>1, <4>1 DEF InTwoRows, n
                <5>3. AtFront(f, bs[j + 1]) => AtFront(g, bs[j + 1])
                    BY <1>6, <1>8, <2>6 DEF AtFront
                <5>4. AtBack(f, bs[i + 1]) => AtBack(g, bs[i + 1]) \/ AtFront(f, bs[i + 1])
                    BY <1>2, <1>3, <2>1, <4>1, <1>6, <1>8, <2>6 DEF InTwoRows, n, AtBack
                <5>5. AtBack(f, bs[i + 1]) => ~AtFront(f, bs[i + 1])
                    <6> DEFINE at == bs[i + 1].at
                               behind == Behind(bs[i + 1])
                    <6>1. at < behind /\ at \in 0..Top /\ behind \in Nat
                        BY <5>1, <1>t
                    <6>2. at \in Nat
                        BY <6>1, TopType
                    <6>3. f.head \in Nat /\ f.tail \in Nat /\ f.head < f.tail
                        BY <3>4, <1>t, TopType
                    <6> HIDE DEF at, behind
                    <6>4. f.tail <= at => ~(behind <= f.head)
                        BY <6>1, <6>2, <6>3
                    <6>5. QED BY <6>4 DEF AtBack, AtFront, at, behind
                <5>6. QED BY <5>1, <5>2, <5>3, <5>4, <5>5
            <4>4. InTwoRows(g, cs) /\ ~(g.head > g.tail) /\ g.head <= g.tail
                <5>1. next \in Nat
                    BY <1>2, <1>3, <1>t
                <5>2. g.head = f.head /\ g.tail = next
                    BY <1>6, <1>8, <2>6
                <5>3. ~(f.head > next) /\ f.head <= next
                    <6>1. f.head \in Nat
                        BY <1>t, TopType
                    <6>2. QED BY <5>1, <6>1, <4>1
                <5>4. QED BY <5>2, <5>3, <4>2, <4>3, <1>4, <2>0 DEF InTwoRows
            <4>5. QED BY <4>4, <3>2, <2>0, <1>4, <1>6 DEF Layout
        <3>5. QED BY <3>3, <3>4
    <2>7. QED BY <2>5, <2>6
<1>9. QED BY <1>7, <1>8

\* The chain of headers is the list of blocks.
LEMMA ChainIsBlocks ==
    ASSUME NEW f, NEW bs, Layout(f, bs)
    PROVE  Chain(f) = bs
<1> DEFINE n == Len(bs)
           h == [k \in 1..f.nBuffers |-> bs[k].at]
           at[k \in 1..f.nBuffers] == IF k = 1 THEN f.tail ELSE NextAt(f, at[k - 1])
<1>1. f \in Fifo /\ bs \in Seq(Block) /\ HeadersLink(f, bs) /\ f.nBuffers = n /\ n \in Nat
    <2>1. f \in Fifo /\ bs \in Seq(Block) /\ HeadersLink(f, bs)
        BY DEF Layout
    <2>2. QED BY <2>1, LenProperties DEF HeadersLink
<1>2. Chain(f) = [k \in 1..f.nBuffers |-> [at |-> at[k], size |-> f.header[at[k]]]]
    BY DEF Chain
<1>3. at = CHOOSE g : g = [k \in 1..f.nBuffers |-> IF k = 1 THEN f.tail ELSE NextAt(f, g[k - 1])]
    BY DEF at
<1> HIDE DEF at
<1>4. h = [k \in 1..f.nBuffers |-> IF k = 1 THEN f.tail ELSE NextAt(f, h[k - 1])]
    <2>1. \A k \in 1..n : bs[k].at = IF k = 1 THEN f.tail ELSE NextAt(f, h[k - 1])
        <3> TAKE k \in 1..n
        <3>1. CASE k = 1
            <4>1. bs # <<>>
                BY <3>1, <1>1
            <4>2. QED BY <3>1, <4>1, <1>1 DEF HeadersLink
        <3>2. CASE k # 1
            <4>1. k - 1 \in 1..(n - 1) /\ k - 1 \in 1..f.nBuffers /\ k - 1 + 1 = k
                BY <3>2, <1>1
            <4>2. h[k - 1] = bs[k - 1].at
                BY <4>1
            <4>3. bs[k - 1 + 1].at = NextAt(f, bs[k - 1].at)
                BY <4>1, <1>1 DEF HeadersLink
            <4>4. QED BY <3>2, <4>1, <4>2, <4>3
        <3>3. QED BY <3>1, <3>2
    <2>2. QED BY <2>1, <1>1
<1>5. at = [k \in 1..f.nBuffers |-> IF k = 1 THEN f.tail ELSE NextAt(f, at[k - 1])]
    BY <1>3, <1>4
<1> HIDE DEF h
<1>6. \A k \in 1..n : at[k] = h[k]
    <2> DEFINE Bad == {k \in 1..n : at[k] # h[k]}
    <2>1. SUFFICES ASSUME Bad # {} PROVE FALSE
        OBVIOUS
    <2>2. PICK k \in Bad : \A j \in Bad : k <= j
        <3>1. Bad \subseteq Nat
            BY <1>1
        <3> HIDE DEF Bad
        <3>2. QED BY <2>1, <3>1, LeastNatural
    <2>3. k # 1
        BY <1>1, <1>4, <1>5
    <2>4. k - 1 \in 1..n /\ k - 1 \notin Bad
        BY <2>2, <2>3, <1>1
    <2>5. QED BY <2>2, <2>3, <2>4, <1>1, <1>4, <1>5
<1>7. \A k \in 1..n : [at |-> at[k], size |-> f.header[at[k]]] = bs[k]
    <2> TAKE k \in 1..n
    <2>1. at[k] = bs[k].at /\ f.header[bs[k].at] = bs[k].size
        BY <1>1, <1>6 DEF h, HeadersLink
    <2>2. QED BY <2>1, <1>1, BlockTypes
<1>8. bs = [k \in 1..n |-> bs[k]]
    BY <1>1
<1>9. QED BY <1>1, <1>2, <1>7, <1>8
(***************************************************************************)
(* The theorems of FifoPool.                                               *)
(***************************************************************************)

LEMMA FifoStarts == ASSUME Init PROVE Layout(pool, blocks)
BY NewFifoLayout DEF Init

\* The pool's own fields tell when the front is filled: the head meets the tail.
LEMMA HeadMeetsTail ==
    ASSUME Layout(pool, blocks)
    PROVE  /\ FrontFilled <=> blocks # <<>> /\ pool.head = pool.tail
           /\ FifoEmpty(pool) <=> blocks = <<>> \/ FrontFilled
<1>0. pool \in Fifo /\ blocks \in Seq(Block) /\ HeadersLink(pool, blocks)
    BY DEF Layout
<1>1. ASSUME blocks # <<>> PROVE FrontFilled <=> pool.head = pool.tail
    <2> DEFINE n == Len(blocks)
    <2>1. 1 \in 1..n /\ n \in 1..n
        BY <1>0, <1>1
    <2>2. pool.tail = blocks[1].at /\ pool.head = Behind(blocks[n])
        BY <1>0, <1>1 DEF HeadersLink
    <2>3. blocks[n].at \in Nat /\ blocks[n].size \in Nat
        BY <1>0, <2>1, BlockTypes, TopType
    <2>4. Last(blocks[n]) + 1 = Behind(blocks[n])
        BY <2>3 DEF Last, Behind, HEADER_SIZE
    <2>5. QED BY <1>1, <2>2, <2>4 DEF FrontFilled, First
<1>2. blocks = <<>> => pool.head = pool.tail /\ ~FrontFilled
    BY DEF Layout, InOneRow, FrontFilled
<1>3. QED BY <1>1, <1>2 DEF FifoEmpty

LEMMA FifoKeeps == ASSUME Layout(pool, blocks), [Next]_vars PROVE Layout(pool, blocks)'
<1>1. ASSUME ~FrontFilled, NEW size \in Sizes, AllocateBlock(size)
      PROVE  Layout(pool', blocks')
    <2>1. pool.head = pool.tail => blocks = <<>>
        BY <1>1, HeadMeetsTail
    <2>2. QED BY <1>1, <2>1, AllocateLayout DEF AllocateBlock
<1>2. ASSUME Deallocate PROVE Layout(pool', blocks')
    BY <1>2, PopLayout DEF Deallocate
<1>3. CASE UNCHANGED vars
    BY <1>3 DEF vars
<1>4. QED BY <1>1, <1>2, <1>3 DEF Next

\* Layout: the blocks lie in one or two rows, with the headers linking them.
THEOREM FifoLayout == Spec => []Layout(pool, blocks)
<1>1. QED BY FifoStarts, FifoKeeps, PTL DEF Spec

\* What users see of the layout.
LEMMA LayoutShows == ASSUME Layout(pool, blocks) PROVE FifoInv
<1> DEFINE n == Len(blocks)
<1>0. pool \in Fifo /\ blocks \in Seq(Block) /\ HeadersLink(pool, blocks)
    BY DEF Layout
<1>t. /\ pool.head \in 0..Top /\ pool.tail \in 0..Top /\ pool.end \in 0..Top
      /\ pool.nBuffers \in Nat /\ pool.max = Top /\ n \in Nat
      /\ pool.header \in [0..Top -> Nat]
      /\ \A i \in 1..n :
            /\ blocks[i] \in Block
            /\ blocks[i].at \in 0..Top /\ blocks[i].size \in Nat /\ blocks[i].size > 0
            /\ Behind(blocks[i]) \in Nat /\ blocks[i].at < Behind(blocks[i])
    BY <1>0, BlockTypes
<1>r. InOneRow(pool, blocks) \/ (InTwoRows(pool, blocks) /\ pool.head <= pool.tail)
    BY DEF Layout
<1>1. TypeOK
    BY <1>t DEF TypeOK, Top
<1>2. \A i \in 1..n : /\ First(blocks[i]) = blocks[i].at
                       /\ Last(blocks[i]) = Behind(blocks[i]) - 1
    <2> TAKE i \in 1..n
    <2>1. blocks[i].at \in Nat /\ blocks[i].size \in Nat
        BY <1>t, TopType
    <2>2. QED BY <2>1, SMTT(30) DEF First, Last, Behind, HEADER_SIZE
<1>3. \A i \in 1..n : Behind(blocks[i]) <= Top
    <2>1. CASE InOneRow(pool, blocks)
        BY <2>1, <1>t, TopType DEF InOneRow
    <2>2. CASE InTwoRows(pool, blocks)
        BY <2>2, <1>t, TopType DEF InTwoRows, AtBack, AtFront
    <2>3. QED BY <2>1, <2>2, <1>r
<1>4. \A i, j \in 1..n : i < j =>
          Behind(blocks[i]) <= blocks[j].at \/ Behind(blocks[j]) <= blocks[i].at
    <2>1. CASE InOneRow(pool, blocks)
        BY <2>1, <1>t DEF InOneRow
    <2>2. CASE InTwoRows(pool, blocks) /\ pool.head <= pool.tail
        <3> TAKE i, j \in 1..n
        <3> HAVE i < j
        <3>1. \/ Behind(blocks[i]) <= blocks[j].at
              \/ AtBack(pool, blocks[i]) /\ AtFront(pool, blocks[j])
            BY <2>2 DEF InTwoRows
        <3>2. CASE AtBack(pool, blocks[i]) /\ AtFront(pool, blocks[j])
            <4>1. blocks[i].at \in Nat /\ Behind(blocks[j]) \in Nat /\ pool.head \in Nat /\ pool.tail \in Nat
                BY <1>t, TopType
            <4>2. QED BY <2>2, <3>2, <4>1 DEF AtBack, AtFront
        <3>3. QED BY <3>1, <3>2
    <2>3. QED BY <2>1, <2>2, <1>r
<1>5. BlocksDisjoint
    <2>1. \A i \in 1..n : Last(blocks[i]) < pool.max
        <3> TAKE i \in 1..n
        <3>1. Behind(blocks[i]) \in Nat /\ Behind(blocks[i]) <= Top /\ pool.max = Top
            BY <1>t, <1>3
        <3>2. Last(blocks[i]) = Behind(blocks[i]) - 1
            BY <1>2
        <3>3. QED BY <3>1, <3>2, TopType
    <2>2. \A i, j \in 1..n : i < j => \/ Last(blocks[i]) < First(blocks[j])
                                      \/ Last(blocks[j]) < First(blocks[i])
        <3> TAKE i, j \in 1..n
        <3> HAVE i < j
        <3>1. /\ Behind(blocks[i]) \in Nat /\ blocks[i].at \in 0..Top
              /\ Behind(blocks[j]) \in Nat /\ blocks[j].at \in 0..Top
            BY <1>t
        <3>2. blocks[i].at \in Nat /\ blocks[j].at \in Nat
            BY <3>1, TopType
        <3>3. QED BY <3>1, <3>2, <1>2, <1>4
    <2>3. QED BY <2>1, <2>2 DEF BlocksDisjoint
<1>6. FifoEmpty(pool) <=> blocks = <<>> \/ FrontFilled
    BY HeadMeetsTail
<1>7. OldestFound
    BY <1>0, <1>6 DEF OldestFound, HeadersLink
<1>8. QED BY <1>1, <1>5, <1>7 DEF FifoInv

\* FifoInv: the blocks in use lie in the buffer and do not overlap, headers
\* included, and the pool finds the oldest one and its size; it looks empty with
\* blocks in use exactly when the front was filled to the last byte.
THEOREM FifoInvHolds == Spec => []FifoInv
<1>1. QED BY FifoLayout, LayoutShows, PTL

\* IsFifo: blocks leave the pool in the order they were allocated, each once.
THEOREM FifoPoolIsFifo == Spec => IsFifo
<1>1. Init => Promise!Init
    <2> SUFFICES ASSUME Init PROVE Chain(pool) = <<>>
        BY DEF Promise!Init
    <2>1. Layout(pool, blocks) /\ blocks = <<>>
        BY FifoStarts DEF Init
    <2>2. QED BY <2>1, ChainIsBlocks
<1>2. Layout(pool, blocks) /\ Layout(pool, blocks)' /\ [Next]_vars
          => [Promise!Next]_(Chain(pool))
    <2> SUFFICES ASSUME Layout(pool, blocks), Layout(pool', blocks'), [Next]_vars
                 PROVE  Promise!Next \/ Chain(pool') = Chain(pool)
        OBVIOUS
    <2>1. Chain(pool) = blocks /\ Chain(pool') = blocks'
        BY ChainIsBlocks
    <2>2. ASSUME NEW size \in Sizes, AllocateBlock(size)
          PROVE  Promise!Next
        <3> DEFINE b == [at |-> BlockAt(pool, size), size |-> size]
        <3>1. blocks' = Append(blocks, b)
            BY <2>2 DEF AllocateBlock
        <3>2. b \in Block
            <4>1. pool \in Fifo /\ BlockAt(pool, size) \in 0..Top
                <5>1. pool \in Fifo
                    BY DEF Layout
                <5>2. pool.head \in 0..Top
                    BY <5>1 DEF Fifo
                <5>3. QED BY <5>1, <5>2, TopType DEF BlockAt
            <4>2. QED BY <4>1 DEF Block
        <3>3. Promise!Put(b)
            BY <2>1, <3>1 DEF Promise!Put
        <3>4. QED BY <3>2, <3>3 DEF Promise!Next, Block, Top
    <2>3. ASSUME Deallocate PROVE Promise!Next
        <3>1. blocks # <<>> /\ blocks' = Tail(blocks)
            BY <2>3, PopLayout DEF Deallocate
        <3>2. QED BY <2>1, <3>1 DEF Promise!Next, Promise!Get
    <2>4. CASE UNCHANGED vars
        BY <2>4 DEF vars
    <2>5. QED BY <2>2, <2>3, <2>4 DEF Next
<1>3. QED BY <1>1, <1>2, FifoLayout, PTL DEF Spec, IsFifo, Promise!Spec
(***************************************************************************)
(* FixedSizePoolSet: what each pool knows of its slots is what users hold  *)
(* of it, and each pool is in the list its fullness asks for.              *)
(***************************************************************************)

SlotRecord == [max: Nat, marked: SUBSET Nat, avail: Nat, nBuffers: Nat]

\* A pool with free slots has one of them at hand, unless the first is the
\* only one: then it may have one that is taken at hand.
PoolSound(p) ==
    /\ p \in SlotRecord
    /\ p.max \in 1..MaxCount
    /\ p.marked \subseteq 1..p.max
    /\ p.nBuffers = Cardinality(p.marked)
    /\ IF PoolFull(p) THEN p.avail = NULL
       ELSE p.avail \in 1..p.max /\ (p.avail \in p.marked => 1..p.max \ p.marked = {1})

Once(s) == \A i, j \in 1..Len(s) : s[i] = s[j] => i = j

\* S adds up the weights from the first pool on.
AddsUp(S, w) ==
    /\ S \in [0..MaxPools -> Int]
    /\ S = [i \in 0..MaxPools |-> IF i = 0 THEN 0 ELSE S[i - 1] + w[i]]

Weights == [i \in 1..MaxPools |-> IF i \in Listed THEN poolAt[i].max ELSE 0]

SetTypes ==
    /\ strategy \in Strategies
    /\ pools \in Seq(1..MaxPools) /\ fullPools \in Seq(1..MaxPools)
    /\ poolAt \in [1..MaxPools -> SlotRecord]
    /\ holders \in [Slots -> {0, 1}]

\* Each pool is in one list, once, and in the right one.
PoolsListed ==
    /\ Once(pools) /\ Once(fullPools)
    /\ ListedPools(pools) \cap ListedPools(fullPools) = {}
    /\ Cardinality(Listed) = Len(pools) + Len(fullPools)
    /\ \A id \in ListedPools(pools) : ~PoolFull(poolAt[id])
    /\ \A id \in ListedPools(fullPools) : PoolFull(poolAt[id])

SlotsKnown ==
    /\ \A id \in Listed : PoolSound(poolAt[id]) /\ poolAt[id].marked = Held(id)
    /\ \A id \in 1..MaxPools \ Listed : Held(id) = {}

\* What the next pool's size depends on.
Growth ==
    /\ nPrevAlloc \in Nat \ {0}
    /\ countPrevAlloc \in 0..Cardinality(Listed)

CapacityTrue == \E S : AddsUp(S, Weights) /\ nCapacity = S[MaxPools]

SetIInv == SetTypes /\ PoolsListed /\ SlotsKnown /\ Growth /\ CapacityTrue

\* The largest pool has room for ElemCount, AllocMin and MaxPools slots.
LEMMA MaxCountType ==
    /\ MaxCount \in Nat /\ ElemCount \in 1..MaxCount /\ AllocMin \in 2..MaxCount
    /\ MaxPools \in 1..MaxCount /\ UIntMod \in Nat /\ MaxCount < UIntMod
BY SetAssumption DEF MaxCount, MaxOf2

\* Numbers up to n: they are as many as n, and a set of them that is as large
\* is all of them.
LEMMA UpTo ==
    ASSUME NEW n \in Nat, NEW T \in SUBSET (1..n)
    PROVE  IsFiniteSet(T) /\ Cardinality(T) \in 0..n /\ (Cardinality(T) = n => T = 1..n)
<1>1. IsFiniteSet(1..n) /\ Cardinality(1..n) = n
    <2>1. IsFiniteSet(1..n) /\ Cardinality(1..n) = IF n < 1 THEN 0 ELSE n - 1 + 1
        BY FS_Interval
    <2>2. QED BY <2>1
<1>2. IsFiniteSet(T) /\ Cardinality(T) <= n /\ (n = Cardinality(T) => 1..n = T)
    BY <1>1, FS_Subset
<1>3. Cardinality(T) \in Nat
    BY <1>2, FS_CardinalityType
<1>4. QED BY <1>2, <1>3

\* A new pool is empty and has slots to give.
LEMMA NewPoolSound ==
    ASSUME NEW n \in 1..MaxCount
    PROVE  PoolSound(NewPool(n)) /\ ~PoolFull(NewPool(n)) /\ PoolEmpty(NewPool(n))
<1>1. n \in Nat /\ n > 0 /\ Cardinality({}) = 0
    BY MaxCountType, FS_EmptySet
<1>2. QED BY <1>1 DEF NewPool, PoolSound, SlotRecord, PoolFull, PoolEmpty

\* allocate gives the slot at hand and finds the next one; where only the first
\* slot is left, it keeps the one it gave at hand.
LEMMA TakeSlot ==
    ASSUME NEW p, PoolSound(p), ~PoolFull(p), p.avail \notin p.marked
    PROVE  /\ PoolSound(PoolAllocate(p))
           /\ PoolAllocate(p).max = p.max
           /\ PoolAllocate(p).marked = p.marked \cup {p.avail}
           /\ p.avail \in 1..p.max \ p.marked
<1> DEFINE marked == p.marked \cup {p.avail}
           taken  == [p EXCEPT !.marked = @ \cup {p.avail}, !.nBuffers = @ + 1]
           behind == (p.avail + 1)..taken.max \ taken.marked
           before == 2..(p.avail - 1) \ taken.marked
           next   == NextAvail(taken, p.avail)
           left   == 1..p.max \ marked
<1>1. /\ p \in SlotRecord /\ p.max \in Nat /\ p.max > 0 /\ p.max \in 1..MaxCount
      /\ p.marked \subseteq 1..p.max
      /\ p.nBuffers = Cardinality(p.marked) /\ p.avail \in 1..p.max \ p.marked
    BY MaxCountType DEF PoolSound
<1>2. marked \subseteq 1..p.max /\ Cardinality(marked) = p.nBuffers + 1 /\ p.nBuffers \in Nat
    <2>1. IsFiniteSet(p.marked)
        BY <1>1, UpTo
    <2>2. QED BY <1>1, <2>1, FS_AddElement, FS_CardinalityType, SMTT(30)
<1>3. taken \in SlotRecord /\ taken.max = p.max /\ taken.marked = marked
          /\ taken.nBuffers = Cardinality(marked) /\ taken.avail = p.avail
    <2>1. marked \in SUBSET Nat /\ p.nBuffers + 1 \in Nat
        BY <1>1, <1>2
    <2>2. taken = [p EXCEPT !.marked = marked, !.nBuffers = p.nBuffers + 1]
        BY <1>1 DEF SlotRecord
    <2> HIDE DEF marked, taken
    <2>3. QED BY <1>1, <1>2, <2>1, <2>2 DEF SlotRecord
<1> HIDE DEF marked, taken
<1>4. left # {} /\ behind \cup before = {} => left = {1}
    <2> SUFFICES ASSUME NEW s \in left, s # 1 PROVE behind \cup before # {}
        OBVIOUS
    <2>1. s \in 1..p.max /\ s # 1 /\ s \notin taken.marked /\ s # p.avail
        BY <1>3 DEF marked
    <2>2. s \in behind \cup before
        BY <2>1, <1>1, <1>3
    <2>3. QED BY <2>2
<1>5. behind \subseteq left /\ before \subseteq left /\ left \subseteq Nat
    BY <1>1, <1>3
<1>6. left = {} <=> PoolFull(taken)
    <2>1. Cardinality(marked) = p.max => marked = 1..p.max
        BY <1>1, <1>2, UpTo
    <2>2. left = {} => marked = 1..p.max
        BY <1>2
    <2>3. Cardinality(1..p.max) = p.max
        <3>1. PICK m \in Nat : m = p.max /\ m >= 1
            BY <1>1
        <3>2. Cardinality(1..m) = m
            BY <3>1, FS_Interval
        <3>3. QED BY <3>1, <3>2
    <2>4. QED BY <2>1, <2>2, <2>3, <1>2, <1>3 DEF PoolFull
<1>7. next = CASE left = {} -> NULL
                [] left # {} /\ behind # {} -> CHOOSE x \in behind : \A y \in behind : x <= y
                [] left # {} /\ behind = {} /\ before # {} ->
                       CHOOSE x \in before : \A y \in before : x <= y
                [] left # {} /\ behind \cup before = {} -> p.avail
    <2>1. CASE behind # {}
        BY <2>1, <1>5 DEF NextAvail
    <2>2. CASE behind = {} /\ before # {}
        BY <2>2, <1>5 DEF NextAvail
    <2>3. CASE behind \cup before = {}
        BY <2>3, <1>6 DEF NextAvail
    <2>4. QED BY <2>1, <2>2, <2>3
<1>8. left # {} => next \in 1..p.max /\ (next \in left \/ left = {1})
    <2> SUFFICES ASSUME left # {} PROVE next \in 1..p.max /\ (next \in left \/ left = {1})
        OBVIOUS
    <2>0. left \subseteq 1..p.max
        OBVIOUS
    <2> HIDE DEF behind, before, left, next
    <2>1. CASE behind # {}
        <3>1. next = CHOOSE x \in behind : \A y \in behind : x <= y
            BY <1>7, <2>1
        <3>2. \E x \in behind : \A y \in behind : x <= y
            BY <2>1, <1>5, LeastNatural
        <3>3. QED BY <3>1, <3>2, <1>5, <2>0
    <2>2. CASE behind = {} /\ before # {}
        <3>1. next = CHOOSE x \in before : \A y \in before : x <= y
            BY <1>7, <2>2
        <3>2. \E x \in before : \A y \in before : x <= y
            BY <2>2, <1>5, LeastNatural
        <3>3. QED BY <3>1, <3>2, <1>5, <2>0
    <2>3. CASE behind \cup before = {}
        BY <2>3, <1>1, <1>4, <1>7
    <2>4. QED BY <2>1, <2>2, <2>3
<1>9. PoolAllocate(p) = [taken EXCEPT !.avail = next]
    BY DEF PoolAllocate, taken
<1>10. next \in Nat /\ (left = {} => next = NULL)
    <2>1. CASE left = {}
        BY <2>1, <1>7 DEF NULL
    <2>2. CASE left # {}
        BY <2>2, <1>1, <1>8
    <2>3. QED BY <2>1, <2>2
<1> HIDE DEF next, behind, before
<1> DEFINE g == PoolAllocate(p)
<1>11. /\ g \in SlotRecord /\ g.max = p.max /\ g.marked = marked
       /\ g.nBuffers = Cardinality(marked) /\ g.avail = next
    BY <1>3, <1>9, <1>10 DEF SlotRecord
<1> HIDE DEF g
<1>12. PoolFull(g) <=> left = {}
    BY <1>6, <1>3, <1>11 DEF PoolFull
<1>13. PoolSound(g)
    <2>1. PoolFull(g) => g.avail = NULL
        BY <1>10, <1>11, <1>12
    <2>2. ~PoolFull(g) => g.avail \in 1..g.max /\ (g.avail \in g.marked => 1..g.max \ g.marked = {1})
        BY <1>8, <1>11, <1>12 DEF left
    <2>3. QED BY <2>1, <2>2, <1>1, <1>2, <1>11 DEF PoolSound
<1>14. QED BY <1>1, <1>11, <1>13 DEF g, marked

\* A slot that comes back is the next one to give.
LEMMA GiveBackSlot ==
    ASSUME NEW p, PoolSound(p), NEW slot \in p.marked
    PROVE  /\ PoolSound(PoolDeallocate(p, slot)) /\ ~PoolFull(PoolDeallocate(p, slot))
           /\ PoolDeallocate(p, slot).max = p.max
           /\ PoolDeallocate(p, slot).marked = p.marked \ {slot}
           /\ PoolEmpty(PoolDeallocate(p, slot)) => p.marked \ {slot} = {}
<1> DEFINE g == PoolDeallocate(p, slot)
           less == p.marked \ {slot}
<1>1. /\ p \in SlotRecord /\ p.max \in Nat /\ p.max \in 1..MaxCount
      /\ p.marked \subseteq 1..p.max /\ p.nBuffers = Cardinality(p.marked)
      /\ slot \in 1..p.max
    BY MaxCountType DEF PoolSound
<1>2. /\ IsFiniteSet(less) /\ Cardinality(less) = Cardinality(p.marked) - 1
      /\ Cardinality(less) \in Nat /\ Cardinality(p.marked) \in 0..p.max
    <2>1. IsFiniteSet(p.marked) /\ Cardinality(p.marked) \in 0..p.max
        BY <1>1, UpTo
    <2>2. IsFiniteSet(less) /\ Cardinality(less) = Cardinality(p.marked) - 1
        BY <2>1, FS_RemoveElement
    <2>3. QED BY <2>1, <2>2, FS_CardinalityType
<1>3. g = [p EXCEPT !.marked = @ \ {slot}, !.avail = slot, !.nBuffers = @ - 1]
    BY DEF PoolDeallocate
<1> HIDE DEF g, less
<1>4. /\ g \in SlotRecord /\ g.max = p.max /\ g.marked = less
      /\ g.nBuffers = Cardinality(less) /\ g.avail = slot
    BY <1>1, <1>2, <1>3 DEF SlotRecord, less
<1>5. ~PoolFull(g)
    BY <1>1, <1>2, <1>4 DEF PoolFull
<1>6. PoolSound(g)
    BY <1>1, <1>4, <1>5 DEF PoolSound, less
<1>7. PoolEmpty(g) => less = {}
    BY <1>2, <1>4, FS_EmptySet DEF PoolEmpty
<1>8. QED BY <1>4, <1>5, <1>6, <1>7 DEF g, less

\* A list without repetition, to which a pool is added or from which one is taken.
LEMMA OneMore ==
    ASSUME NEW S, NEW s \in Seq(S), NEW id \in S, Once(s), id \notin ListedPools(s)
    PROVE  /\ Append(s, id) \in Seq(S) /\ Len(Append(s, id)) = Len(s) + 1
           /\ Once(Append(s, id))
           /\ ListedPools(Append(s, id)) = ListedPools(s) \cup {id}
<1> DEFINE n == Len(s)
           more == Append(s, id)
<1>1. n \in Nat /\ more \in Seq(S) /\ Len(more) = n + 1 /\ more[n + 1] = id
          /\ \A i \in 1..n : more[i] = s[i]
    OBVIOUS
<1> HIDE DEF more
<1>2. \A i \in 1..n : s[i] # id
    BY DEF ListedPools
<1>3. Once(more)
    BY <1>1, <1>2 DEF Once
<1>4. ListedPools(more) = ListedPools(s) \cup {id}
    BY <1>1 DEF ListedPools
<1>5. QED BY <1>1, <1>3, <1>4 DEF more

LEMMA OneLess ==
    ASSUME NEW S, NEW s \in Seq(S), NEW id \in ListedPools(s), Once(s)
    PROVE  /\ Without(s, id) \in Seq(S) /\ Len(Without(s, id)) = Len(s) - 1
           /\ Once(Without(s, id))
           /\ ListedPools(Without(s, id)) = ListedPools(s) \ {id}
<1> DEFINE n == Len(s)
           at == CHOOSE i \in 1..n : s[i] = id
           less == Without(s, id)
<1>1. n \in Nat /\ \A i \in 1..n : s[i] \in S
    OBVIOUS
<1>2. \E i \in 1..n : s[i] = id
    BY DEF ListedPools
<1>3. at \in 1..n /\ s[at] = id
    BY <1>2
<1>4. less = [i \in 1..(n - 1) |-> IF i < at THEN s[i] ELSE s[i + 1]]
    BY <1>2 DEF Without
<1> HIDE DEF at, n, less
<1>5. n - 1 \in Nat /\ \A i \in 1..(n - 1) : i \in 1..n /\ i + 1 \in 1..n
    BY <1>1, <1>3
<1>6. less \in Seq(S) /\ Len(less) = n - 1
    <2>1. \A i \in 1..(n - 1) : less[i] \in S
        BY <1>1, <1>4, <1>5
    <2>2. QED BY <1>4, <1>5, <2>1
<1>7. \A i, j \in 1..n : s[i] = s[j] => i = j
    BY DEF Once, n
<1>8. Once(less)
    <2> SUFFICES ASSUME NEW i \in 1..(n - 1), NEW j \in 1..(n - 1), less[i] = less[j] PROVE i = j
        BY <1>6 DEF Once
    <2>1. i \in 1..n /\ i + 1 \in 1..n /\ j \in 1..n /\ j + 1 \in 1..n /\ at \in 1..n
        BY <1>3, <1>5
    <2>2. CASE i < at /\ j < at
        BY <2>1, <2>2, <1>4, <1>7
    <2>3. CASE ~(i < at) /\ ~(j < at)
        <3>1. s[i + 1] = s[j + 1]
            BY <2>3, <1>4
        <3>2. i + 1 = j + 1
            BY <2>1, <3>1, <1>7
        <3>3. QED BY <2>1, <3>2
    <2>4. CASE i < at /\ ~(j < at)
        <3>1. s[i] = s[j + 1]
            BY <2>4, <1>4
        <3>2. i = j + 1
            BY <2>1, <3>1, <1>7
        <3>3. QED BY <2>1, <2>4, <3>2
    <2>5. CASE ~(i < at) /\ j < at
        <3>1. s[i + 1] = s[j]
            BY <2>5, <1>4
        <3>2. i + 1 = j
            BY <2>1, <3>1, <1>7
        <3>3. QED BY <2>1, <2>5, <3>2
    <2>6. QED BY <2>2, <2>3, <2>4, <2>5
<1>9. ListedPools(less) = ListedPools(s) \ {id}
    <2>1. \A i \in 1..(n - 1) : less[i] \in ListedPools(s) /\ less[i] # id
        <3> TAKE i \in 1..(n - 1)
        <3>1. CASE i < at
            <4>1. less[i] = s[i] /\ i \in 1..n /\ i # at
                BY <3>1, <1>4, <1>5, <1>3, <1>1
            <4>2. s[i] # s[at]
                BY <4>1, <1>3, <1>7
            <4>3. QED BY <4>1, <4>2, <1>3 DEF ListedPools, n
        <3>2. CASE ~(i < at)
            <4>1. less[i] = s[i + 1] /\ i + 1 \in 1..n /\ i + 1 # at
                BY <3>2, <1>4, <1>5, <1>3, <1>1
            <4>2. s[i + 1] # s[at]
                BY <4>1, <1>3, <1>7
            <4>3. QED BY <4>1, <4>2, <1>3 DEF ListedPools, n
        <3>3. QED BY <3>1, <3>2
    <2>2. \A j \in 1..n : s[j] # id => \E i \in 1..(n - 1) : less[i] = s[j]
        <3> TAKE j \in 1..n
        <3> HAVE s[j] # id
        <3>1. j # at
            BY <1>3
        <3>2. CASE j < at
            <4>1. j \in 1..(n - 1)
                BY <3>2, <1>1, <1>3
            <4>2. less[j] = s[j]
                BY <4>1, <3>2, <1>4
            <4>3. QED BY <4>1, <4>2
        <3>3. CASE j > at
            <4>1. j - 1 \in 1..(n - 1) /\ ~(j - 1 < at) /\ j - 1 + 1 = j
                BY <3>3, <1>1, <1>3
            <4>2. less[j - 1] = s[j]
                BY <4>1, <1>4
            <4>3. QED BY <4>1, <4>2
        <3>4. QED BY <3>1, <3>2, <3>3, <1>1, <1>3
    <2>3. ListedPools(less) \subseteq ListedPools(s) \ {id}
        BY <2>1, <1>6 DEF ListedPools
    <2>4. ListedPools(s) \ {id} \subseteq ListedPools(less)
        BY <2>2, <1>6 DEF ListedPools, n
    <2>5. QED BY <2>3, <2>4
<1>10. QED BY <1>6, <1>8, <1>9 DEF less, n

\* A pool that is not in the list is not erased.
LEMMA NoneLess ==
    ASSUME NEW s, NEW id, id \notin ListedPools(s)
    PROVE  Without(s, id) = s
BY DEF Without, ListedPools

\* The first pool leaves the list.
LEMMA FirstLess ==
    ASSUME NEW S, NEW s \in Seq(S), s # <<>>, Once(s)
    PROVE  /\ Head(s) \in S /\ Head(s) \in ListedPools(s)
           /\ Tail(s) \in Seq(S) /\ Len(Tail(s)) = Len(s) - 1
           /\ Once(Tail(s))
           /\ ListedPools(Tail(s)) = ListedPools(s) \ {Head(s)}
<1> DEFINE n == Len(s)
           less == Tail(s)
<1>1. n \in Nat /\ n > 0 /\ Head(s) = s[1] /\ s[1] \in S /\ 1 \in 1..n
      /\ less \in Seq(S) /\ Len(less) = n - 1
      /\ \A i \in 1..(n - 1) : less[i] = s[i + 1] /\ i + 1 \in 1..n
    OBVIOUS
<1> HIDE DEF less, n
<1>2. \A i, j \in 1..n : s[i] = s[j] => i = j
    BY DEF Once, n
<1>3. Once(less)
    <2> SUFFICES ASSUME NEW i \in 1..(n - 1), NEW j \in 1..(n - 1), less[i] = less[j] PROVE i = j
        BY <1>1 DEF Once
    <2>1. i + 1 \in 1..n /\ j + 1 \in 1..n /\ s[i + 1] = s[j + 1]
        BY <1>1
    <2>2. i + 1 = j + 1
        BY <2>1, <1>2
    <2>3. QED BY <2>2
<1>4. \A i \in 1..(n - 1) : less[i] # s[1]
    <2> TAKE i \in 1..(n - 1)
    <2>1. i + 1 \in 1..n /\ i + 1 # 1 /\ less[i] = s[i + 1]
        BY <1>1
    <2>2. QED BY <2>1, <1>1, <1>2
<1>5. \A j \in 1..n : s[j] # s[1] => j - 1 \in 1..(n - 1) /\ less[j - 1] = s[j]
    <2> TAKE j \in 1..n
    <2> HAVE s[j] # s[1]
    <2>1. j - 1 \in 1..(n - 1) /\ j - 1 + 1 = j
        BY <1>1
    <2>2. QED BY <2>1, <1>1
<1>6. ListedPools(less) = ListedPools(s) \ {s[1]}
    <2>1. ListedPools(less) \subseteq ListedPools(s) \ {s[1]}
        BY <1>1, <1>4 DEF ListedPools, n
    <2>2. ListedPools(s) \ {s[1]} \subseteq ListedPools(less)
        BY <1>1, <1>5 DEF ListedPools, n
    <2>3. QED BY <2>1, <2>2
<1>7. s[1] \in ListedPools(s)
    BY <1>1 DEF ListedPools, n
<1>8. QED BY <1>1, <1>3, <1>6, <1>7 DEF less, n

\* One pool's weight changes the sum.
LEMMA SumChanges ==
    ASSUME NEW S, NEW w \in [1..MaxPools -> Int], AddsUp(S, w), NEW id \in 1..MaxPools, NEW d \in Int,
           NEW v \in [1..MaxPools -> Int], v[id] = w[id] + d,
           \A i \in 1..MaxPools : i # id => v[i] = w[i]
    PROVE  \E T : AddsUp(T, v) /\ T[MaxPools] = S[MaxPools] + d
<1> DEFINE T == [i \in 0..MaxPools |-> IF i < id THEN S[i] ELSE S[i] + d]
<1>1. MaxPools \in Nat /\ id \in Nat /\ id > 0 /\ id <= MaxPools
    BY SetAssumption
<1>2. /\ \A i \in 0..MaxPools : S[i] \in Int
      /\ S[0] = 0 /\ \A i \in 1..MaxPools : S[i] = S[i - 1] + w[i]
    <2>1. S \in [0..MaxPools -> Int]
        BY DEF AddsUp
    <2>2. \A i \in 0..MaxPools : S[i] = IF i = 0 THEN 0 ELSE S[i - 1] + w[i]
        BY DEF AddsUp
    <2>3. S[0] = 0
        BY <1>1, <2>2
    <2>4. \A i \in 1..MaxPools : S[i] = S[i - 1] + w[i]
        <3> TAKE i \in 1..MaxPools
        <3>1. i \in 0..MaxPools /\ i # 0
            BY <1>1
        <3>2. QED BY <2>2, <3>1
    <2>5. QED BY <2>1, <2>3, <2>4
<1>3. \A i \in 0..MaxPools : T[i] \in Int /\ T[i] = IF i < id THEN S[i] ELSE S[i] + d
    BY <1>2
<1>4. \A i \in 1..MaxPools : v[i] = IF i = id THEN w[i] + d ELSE w[i]
    OBVIOUS
<1>5. T \in [0..MaxPools -> Int]
    BY <1>3
<1> HIDE DEF T
<1>6. \A i \in 1..MaxPools : T[i] = T[i - 1] + v[i]
    <2> TAKE i \in 1..MaxPools
    <2>1. i \in 0..MaxPools /\ i - 1 \in 0..MaxPools /\ w[i] \in Int
        BY <1>1
    <2>2. S[i] = S[i - 1] + w[i] /\ S[i] \in Int /\ S[i - 1] \in Int
        BY <2>1, <1>2
    <2>3. CASE i < id
        <3>1. i - 1 < id /\ i # id
            BY <2>1, <2>3, <1>1
        <3>2. QED BY <2>1, <2>2, <2>3, <3>1, <1>3, <1>4
    <2>4. CASE i = id
        <3>1. i - 1 < id /\ ~(i < id)
            BY <2>1, <2>4, <1>1
        <3>2. T[i] = S[i] + d /\ T[i - 1] = S[i - 1] /\ v[i] = w[i] + d
            BY <2>1, <2>4, <3>1, <1>3, <1>4
        <3>3. QED BY <2>1, <2>2, <3>2
    <2>5. CASE i > id
        <3>1. ~(i - 1 < id) /\ ~(i < id) /\ i # id
            BY <2>1, <2>5, <1>1
        <3>2. T[i] = S[i] + d /\ T[i - 1] = S[i - 1] + d /\ v[i] = w[i]
            BY <2>1, <3>1, <1>3, <1>4
        <3>3. QED BY <2>1, <2>2, <3>2
    <2>6. QED BY <2>3, <2>4, <2>5, <1>1
<1>7. T[0] = 0 /\ T[MaxPools] = S[MaxPools] + d
    <2>1. 0 \in 0..MaxPools /\ MaxPools \in 0..MaxPools /\ 0 < id /\ ~(MaxPools < id)
        BY <1>1
    <2>2. QED BY <2>1, <1>2, <1>3
<1>8. \A i \in 0..MaxPools : T[i] = IF i = 0 THEN 0 ELSE T[i - 1] + v[i]
    <2> TAKE i \in 0..MaxPools
    <2>1. CASE i = 0
        BY <2>1, <1>7
    <2>2. CASE i # 0
        <3>1. i \in 1..MaxPools
            BY <2>2, <1>1
        <3>2. QED BY <3>1, <2>2, <1>6
    <2>3. QED BY <2>1, <2>2
<1>9. AddsUp(T, v)
    BY <1>5, <1>8 DEF AddsUp
<1>10. QED BY <1>7, <1>9

\* There is one sum.
LEMMA SumUnique ==
    ASSUME NEW w, NEW S, NEW T, AddsUp(S, w),
           T = [i \in 0..MaxPools |-> IF i = 0 THEN 0 ELSE T[i - 1] + w[i]]
    PROVE  T[MaxPools] = S[MaxPools]
<1> DEFINE Bad == {i \in 0..MaxPools : T[i] # S[i]}
<1>1. MaxPools \in Nat /\ MaxPools \in 0..MaxPools
    BY SetAssumption
<1>2. \A i \in 0..MaxPools : S[i] = IF i = 0 THEN 0 ELSE S[i - 1] + w[i]
    BY DEF AddsUp
<1>3. \A i \in 0..MaxPools : T[i] = IF i = 0 THEN 0 ELSE T[i - 1] + w[i]
    OBVIOUS
<1>4. Bad = {}
    <2> SUFFICES ASSUME Bad # {} PROVE FALSE
        OBVIOUS
    <2>1. PICK i \in Bad : \A j \in Bad : i <= j
        <3>1. Bad \subseteq Nat
            BY <1>1
        <3> HIDE DEF Bad
        <3>2. QED BY <3>1, LeastNatural
    <2>2. i \in 0..MaxPools /\ T[i] # S[i]
        BY <2>1
    <2>3. i # 0
        BY <2>2, <1>2, <1>3
    <2>4. i - 1 \in 0..MaxPools /\ i - 1 \notin Bad
        BY <2>1, <2>3, <1>1
    <2>5. T[i - 1] = S[i - 1]
        BY <2>4
    <2>6. T[i] = T[i - 1] + w[i] /\ S[i] = S[i - 1] + w[i]
        BY <2>2, <2>3, <1>2, <1>3
    <2>7. QED BY <2>2, <2>5, <2>6
<1>5. QED BY <1>1, <1>4

LEMMA ListedPlain == Listed = ListedPools(pools) \cup ListedPools(fullPools)
BY DEF Listed, ListedPools

LEMMA RangeType == ASSUME NEW S, NEW s \in Seq(S) PROVE ListedPools(s) \subseteq S /\ Len(s) \in Nat
<1>1. \A i \in 1..Len(s) : s[i] \in S
    OBVIOUS
<1>2. QED BY <1>1 DEF ListedPools

LEMMA ListedType ==
    ASSUME SetTypes
    PROVE  /\ Listed \subseteq 1..MaxPools /\ IsFiniteSet(Listed)
           /\ Cardinality(Listed) \in 0..MaxPools
           /\ ListedPools(pools) \subseteq 1..MaxPools /\ ListedPools(fullPools) \subseteq 1..MaxPools
           /\ Len(pools) \in Nat /\ Len(fullPools) \in Nat
<1>1. pools \in Seq(1..MaxPools) /\ fullPools \in Seq(1..MaxPools)
    BY DEF SetTypes
<1>2. ListedPools(pools) \subseteq 1..MaxPools /\ ListedPools(fullPools) \subseteq 1..MaxPools
    BY <1>1, RangeType
<1>3. Listed \in SUBSET (1..MaxPools)
    BY <1>2, ListedPlain
<1>4. MaxPools \in Nat
    BY SetAssumption
<1>5. IsFiniteSet(Listed) /\ Cardinality(Listed) \in 0..MaxPools
    BY <1>3, <1>4, UpTo
<1>6. QED BY <1>1, <1>2, <1>3, <1>5

\* A user gets a slot that nobody holds, or gives back one of theirs.
LEMMA HeldMore ==
    ASSUME holders \in [Slots -> {0, 1}], NEW id \in 1..MaxPools, NEW n \in 1..MaxCount,
           n \notin Held(id), holders' = [holders EXCEPT ![<<id, n>>] = @ + 1]
    PROVE  /\ holders' \in [Slots -> {0, 1}] /\ SetPromise!Next
           /\ Held(id)' = Held(id) \cup {n}
           /\ \A j \in 1..MaxPools : j # id => Held(j)' = Held(j)
<1>1. <<id, n>> \in Slots
    BY DEF Slots
<1>2. holders[<<id, n>>] = 0
    BY <1>1 DEF Held
<1>3. holders' = [holders EXCEPT ![<<id, n>>] = 1]
    BY <1>2
<1>4. holders' \in [Slots -> {0, 1}] /\ holders'[<<id, n>>] = 1
          /\ \A s \in Slots : s # <<id, n>> => holders'[s] = holders[s]
    BY <1>1, <1>3
<1>5. SetPromise!Next
    BY <1>1, <1>2, <1>3 DEF SetPromise!Next, SetPromise!Get
<1>6. Held(id)' = Held(id) \cup {n}
    <2>1. \A m \in 1..MaxCount : m # n => holders'[<<id, m>>] = holders[<<id, m>>]
        BY <1>4 DEF Slots
    <2>2. QED BY <2>1, <1>4 DEF Held
<1>7. \A j \in 1..MaxPools : j # id => Held(j)' = Held(j)
    <2> TAKE j \in 1..MaxPools
    <2> HAVE j # id
    <2>1. \A m \in 1..MaxCount : holders'[<<j, m>>] = holders[<<j, m>>]
        BY <1>4 DEF Slots
    <2>2. QED BY <2>1 DEF Held
<1>8. QED BY <1>4, <1>5, <1>6, <1>7

LEMMA HeldLess ==
    ASSUME holders \in [Slots -> {0, 1}], NEW id \in 1..MaxPools, NEW n \in 1..MaxCount,
           holders[<<id, n>>] > 0, holders' = [holders EXCEPT ![<<id, n>>] = @ - 1]
    PROVE  /\ holders' \in [Slots -> {0, 1}] /\ SetPromise!Next
           /\ n \in Held(id) /\ Held(id)' = Held(id) \ {n}
           /\ \A j \in 1..MaxPools : j # id => Held(j)' = Held(j)
<1>1. <<id, n>> \in Slots
    BY DEF Slots
<1>2. holders[<<id, n>>] = 1
    BY <1>1
<1>3. holders' = [holders EXCEPT ![<<id, n>>] = 0]
    BY <1>2
<1>4. holders' \in [Slots -> {0, 1}] /\ holders'[<<id, n>>] = 0
          /\ \A s \in Slots : s # <<id, n>> => holders'[s] = holders[s]
    BY <1>1, <1>3
<1>5. SetPromise!Next
    BY <1>1, <1>2, <1>3 DEF SetPromise!Next, SetPromise!Put
<1>6. n \in Held(id) /\ Held(id)' = Held(id) \ {n}
    <2>1. \A m \in 1..MaxCount : m # n => holders'[<<id, m>>] = holders[<<id, m>>]
        BY <1>4 DEF Slots
    <2>2. QED BY <2>1, <1>2, <1>4 DEF Held
<1>7. \A j \in 1..MaxPools : j # id => Held(j)' = Held(j)
    <2> TAKE j \in 1..MaxPools
    <2> HAVE j # id
    <2>1. \A m \in 1..MaxCount : holders'[<<j, m>>] = holders[<<j, m>>]
        BY <1>4 DEF Slots
    <2>2. QED BY <2>1 DEF Held
<1>8. QED BY <1>4, <1>5, <1>6, <1>7

\* One pool changes its slots and gets or keeps its place: what the others know
\* stays true.
LEMMA OnePoolChanges ==
    ASSUME SetTypes, PoolsListed, SlotsKnown, NEW id \in 1..MaxPools, NEW p,
           p \in SlotRecord, poolAt' = [poolAt EXCEPT ![id] = p], SetTypes',
           \A j \in 1..MaxPools : j # id => Held(j)' = Held(j),
           Listed' \ {id} = Listed \ {id},
           id \in Listed' => PoolSound(p) /\ p.marked = Held(id)',
           id \notin Listed' => Held(id)' = {}
    PROVE  SlotsKnown'
<1>1. Listed \subseteq 1..MaxPools /\ Listed' \subseteq 1..MaxPools
    <2>1. pools' \in Seq(1..MaxPools) /\ fullPools' \in Seq(1..MaxPools)
        BY DEF SetTypes
    <2>2. ListedPools(pools') \subseteq 1..MaxPools /\ ListedPools(fullPools') \subseteq 1..MaxPools
        BY <2>1, RangeType
    <2>3. Listed' = ListedPools(pools') \cup ListedPools(fullPools')
        BY DEF Listed, ListedPools
    <2>4. QED BY <2>2, <2>3, ListedType
<1>2. poolAt'[id] = p /\ \A j \in 1..MaxPools : j # id => poolAt'[j] = poolAt[j]
    BY DEF SetTypes
<1>3. ASSUME NEW j \in Listed' PROVE PoolSound(poolAt'[j]) /\ poolAt'[j].marked = Held(j)'
    <2>1. CASE j = id
        BY <2>1, <1>2, <1>3
    <2>2. CASE j # id
        <3>1. j \in Listed /\ j \in 1..MaxPools
            BY <2>2, <1>1, <1>3
        <3>2. QED BY <2>2, <3>1, <1>2 DEF SlotsKnown
    <2>3. QED BY <2>1, <2>2
<1>4. ASSUME NEW j \in 1..MaxPools, j \notin Listed' PROVE Held(j)' = {}
    <2>1. CASE j = id
        BY <2>1, <1>4
    <2>2. CASE j # id
        BY <2>2, <1>4 DEF SlotsKnown
    <2>3. QED BY <2>1, <2>2
<1>5. QED BY <1>3, <1>4 DEF SlotsKnown

\* The sum of the capacities follows the one pool that changed.
LEMMA CapacityChanges ==
    ASSUME CapacityTrue, NEW id \in 1..MaxPools, NEW d \in Int,
           NEW w \in [1..MaxPools -> Int], w = Weights,
           NEW v \in [1..MaxPools -> Int], v[id] = w[id] + d,
           \A i \in 1..MaxPools : i # id => v[i] = w[i]
    PROVE  \E T : AddsUp(T, v) /\ T[MaxPools] = nCapacity + d
<1>1. PICK S : AddsUp(S, w) /\ nCapacity = S[MaxPools]
    BY DEF CapacityTrue
<1>2. PICK T : AddsUp(T, v) /\ T[MaxPools] = S[MaxPools] + d
    BY <1>1, SumChanges
<1>3. QED BY <1>1, <1>2

LEMMA WeightsType == ASSUME SetTypes PROVE Weights \in [1..MaxPools -> Int]
<1>1. \A i \in 1..MaxPools : poolAt[i].max \in Int
    BY DEF SetTypes, SlotRecord
<1>2. QED BY <1>1 DEF Weights

\* allocate from a pool of the list.
LEMMA AllocateKeepsSet ==
    ASSUME SetIInv, AllocateFromList, ~Astray
    PROVE  SetIInv' /\ SetPromise!Next
<1>1. PICK id : id = Head(pools)
    OBVIOUS
<1>2. /\ SetTypes /\ PoolsListed /\ SlotsKnown /\ Growth /\ CapacityTrue
      /\ pools \in Seq(1..MaxPools) /\ fullPools \in Seq(1..MaxPools)
      /\ poolAt \in [1..MaxPools -> SlotRecord] /\ holders \in [Slots -> {0, 1}]
    BY DEF SetIInv, SetTypes
<1>3. /\ pools # <<>> /\ poolAt' = [poolAt EXCEPT ![id] = PoolAllocate(poolAt[id])]
      /\ holders' = [holders EXCEPT ![<<id, poolAt[id].avail>>] = @ + 1]
      /\ IF PoolFull(poolAt'[id])
         THEN pools' = Tail(pools) /\ fullPools' = Append(fullPools, id)
         ELSE UNCHANGED <<pools, fullPools>>
      /\ UNCHANGED <<strategy, nPrevAlloc, countPrevAlloc, nPrevPeak, nCapacity>>
      /\ 1..poolAt[id].max \ Held(id) # {1} \/ poolAt[id].avail = 1
    BY <1>1 DEF AllocateFromList, Astray
<1>4. /\ id \in 1..MaxPools /\ id \in ListedPools(pools) /\ id \in Listed
      /\ Tail(pools) \in Seq(1..MaxPools) /\ Len(Tail(pools)) = Len(pools) - 1 /\ Once(Tail(pools))
      /\ ListedPools(Tail(pools)) = ListedPools(pools) \ {id}
    BY <1>1, <1>2, <1>3, FirstLess, ListedPlain DEF PoolsListed
<1> DEFINE p == poolAt[id]
           q == PoolAllocate(p)
<1>5. PoolSound(p) /\ p.marked = Held(id) /\ ~PoolFull(p) /\ p.avail \notin p.marked
    <2>1. PoolSound(p) /\ p.marked = Held(id) /\ ~PoolFull(p)
        BY <1>2, <1>4 DEF SlotsKnown, PoolsListed
    <2>2. p.avail \in p.marked => 1..p.max \ p.marked = {1}
        BY <2>1 DEF PoolSound
    <2>3. 1..p.max \ p.marked # {1} \/ p.avail = 1
        BY <1>3, <2>1
    <2>4. QED BY <2>1, <2>2, <2>3
<1>6. /\ PoolSound(q) /\ q.max = p.max /\ q.marked = p.marked \cup {p.avail}
      /\ p.avail \in 1..p.max \ p.marked
    BY <1>3, <1>5, TakeSlot
<1> HIDE DEF q
<1>7. poolAt'[id] = q /\ \A j \in 1..MaxPools : j # id => poolAt'[j] = poolAt[j]
    BY <1>2, <1>3, <1>4 DEF q
<1>8. p.avail \in 1..MaxCount /\ p.avail \notin Held(id)
    BY <1>5, <1>6, MaxCountType DEF PoolSound
<1>9. /\ holders' \in [Slots -> {0, 1}] /\ SetPromise!Next
      /\ Held(id)' = Held(id) \cup {p.avail}
      /\ \A j \in 1..MaxPools : j # id => Held(j)' = Held(j)
    BY <1>2, <1>3, <1>4, <1>8, HeldMore
<1>10. q \in SlotRecord /\ poolAt' \in [1..MaxPools -> SlotRecord]
    BY <1>2, <1>3, <1>4, <1>6 DEF PoolSound, q
<1>11. Len(pools) \in Nat /\ Len(fullPools) \in Nat /\ id \notin ListedPools(fullPools)
    BY <1>2, <1>4, ListedType DEF PoolsListed
<1>12. /\ pools' \in Seq(1..MaxPools) /\ fullPools' \in Seq(1..MaxPools)
       /\ Once(pools') /\ Once(fullPools')
       /\ ListedPools(pools') \cap ListedPools(fullPools') = {}
       /\ ListedPools(pools') \cup ListedPools(fullPools') = Listed
       /\ Len(pools') + Len(fullPools') = Len(pools) + Len(fullPools)
       /\ \A j \in ListedPools(pools') : ~PoolFull(poolAt'[j])
       /\ \A j \in ListedPools(fullPools') : PoolFull(poolAt'[j])
    <2>1. CASE PoolFull(q)
        <3>1. pools' = Tail(pools) /\ fullPools' = Append(fullPools, id)
            BY <1>3, <1>7, <2>1
        <3>2. /\ fullPools' \in Seq(1..MaxPools) /\ Len(fullPools') = Len(fullPools) + 1
              /\ Once(fullPools') /\ ListedPools(fullPools') = ListedPools(fullPools) \cup {id}
            <4> DEFINE S == 1..MaxPools
            <4>1. /\ fullPools \in Seq(S) /\ id \in S /\ Once(fullPools)
                  /\ id \notin ListedPools(fullPools)
                BY <1>2, <1>4, <1>11 DEF PoolsListed
            <4> HIDE DEF S
            <4>2. /\ Append(fullPools, id) \in Seq(S)
                  /\ Len(Append(fullPools, id)) = Len(fullPools) + 1
                  /\ Once(Append(fullPools, id))
                  /\ ListedPools(Append(fullPools, id)) = ListedPools(fullPools) \cup {id}
                BY <4>1, OneMore
            <4>3. QED BY <3>1, <4>2 DEF S
        <3>3. \A j \in ListedPools(pools') : ~PoolFull(poolAt'[j])
            BY <1>2, <1>4, <1>7, <3>1, ListedType DEF PoolsListed
        <3>4. \A j \in ListedPools(fullPools') : PoolFull(poolAt'[j])
            BY <1>2, <1>7, <2>1, <3>2, ListedType DEF PoolsListed
        <3>5. QED BY <1>2, <1>4, <1>11, <3>1, <3>2, <3>3, <3>4, ListedPlain DEF PoolsListed
    <2>2. CASE ~PoolFull(q)
        <3>1. pools' = pools /\ fullPools' = fullPools
            BY <1>3, <1>7, <2>2
        <3>2. \A j \in ListedPools(pools) : ~PoolFull(poolAt'[j])
            BY <1>2, <1>7, <2>2, ListedType DEF PoolsListed
        <3>3. \A j \in ListedPools(fullPools) : PoolFull(poolAt'[j])
            BY <1>2, <1>7, <1>11, ListedType DEF PoolsListed
        <3>4. QED BY <1>2, <3>1, <3>2, <3>3, ListedPlain DEF PoolsListed
    <2>3. QED BY <2>1, <2>2
<1>13. Listed' = Listed
    BY <1>12, ListedPlain DEF Listed, ListedPools
<1>14. SetTypes'
    BY <1>2, <1>3, <1>9, <1>10, <1>12 DEF SetTypes
<1>15. PoolsListed'
    BY <1>2, <1>12, <1>13 DEF PoolsListed, Once, ListedPools
<1>16. SlotsKnown'
    <2>1. id \in Listed' => PoolSound(q) /\ q.marked = Held(id)'
        BY <1>5, <1>6, <1>9
    <2>2. QED BY <1>2, <1>3, <1>4, <1>9, <1>10, <1>13, <1>14, <2>1, OnePoolChanges DEF q
<1>17. Growth'
    BY <1>2, <1>3, <1>13 DEF Growth
<1>18. CapacityTrue'
    <2>1. Weights' = Weights
        BY <1>6, <1>7, <1>13 DEF Weights
    <2>2. QED BY <2>1, <1>2, <1>3 DEF CapacityTrue, AddsUp
<1>19. QED BY <1>9, <1>14, <1>15, <1>16, <1>17, <1>18 DEF SetIInv

\* The next pool has room for two slots at least, and no more than MaxCount.
LEMMA NewCountType ==
    ASSUME SetTypes, Growth, "INC" \in strategy
    PROVE  NewCount \in 2..MaxCount
<1>1. /\ nPrevAlloc \in Nat \ {0} /\ countPrevAlloc \in 0..MaxPools
      /\ strategy \in Strategies
    <2>1. nPrevAlloc \in Nat \ {0} /\ countPrevAlloc \in 0..Cardinality(Listed)
        BY DEF Growth
    <2>2. Cardinality(Listed) \in 0..MaxPools /\ MaxPools \in Nat
        BY ListedType, SetAssumption
    <2>3. strategy \in Strategies
        BY DEF SetTypes
    <2>4. QED BY <2>1, <2>2, <2>3
<1>2. /\ ElemCount \in 1..MaxCount /\ AllocMin \in 2..MaxCount /\ MaxPools \in 1..MaxCount
      /\ MaxCount \in Nat /\ SpeedPercent \in 0..100
      /\ "SPEED_CONSTANT" \in strategy <=> "SPEED_LINEAR" \notin strategy
    BY <1>1, MaxCountType, SetAssumption
<1>3. \A a \in 0..MaxCount, k \in 0..100 : (a * k) \div 100 \in 0..MaxCount
    <2> TAKE a \in 0..MaxCount, k \in 0..100
    <2>1. a \in Nat /\ k \in Nat /\ a * k \in Nat /\ a * k <= a * 100
        <3>1. a \in Nat /\ k \in Nat /\ k <= 100
            BY <1>2
        <3>2. a * (100 - k) >= 0 /\ a * (100 - k) = a * 100 - a * k
            BY <3>1
        <3>3. a * k \in Nat
            BY <3>1
        <3>4. QED BY <3>1, <3>2, <3>3
    <2> DEFINE m == a * k
    <2>2. m \in Nat /\ m <= a * 100 /\ a \in Nat /\ a <= MaxCount
        BY <2>1, <1>2
    <2> HIDE DEF m
    <2>3. m \div 100 \in 0..MaxCount
        BY <2>2, <1>2
    <2>4. QED BY <2>3 DEF m
<1> DEFINE wanted ==
        CASE nPrevAlloc > 0 /\ "SPEED_CONSTANT" \in strategy -> (ElemCount * SpeedPercent) \div 100
          [] nPrevAlloc > 0 /\ "SPEED_LINEAR" \in strategy ->
               (countPrevAlloc * (100 - SpeedPercent)) \div 100
          [] nPrevAlloc = 0 -> nPrevPeak
          [] OTHER          -> nPrevAlloc
<1>4. nPrevAlloc > 0 /\ 100 - SpeedPercent \in 0..100 /\ ElemCount \in 0..MaxCount
          /\ countPrevAlloc \in 0..MaxCount
    BY <1>1, <1>2
<1>5. wanted \in 0..MaxCount
    <2>1. CASE "SPEED_CONSTANT" \in strategy
        <3>1. wanted = (ElemCount * SpeedPercent) \div 100
            BY <2>1, <1>2, <1>4
        <3>2. QED BY <3>1, <1>2, <1>3, <1>4
    <2>2. CASE "SPEED_LINEAR" \in strategy
        <3>1. wanted = (countPrevAlloc * (100 - SpeedPercent)) \div 100
            BY <2>2, <1>2, <1>4
        <3>2. QED BY <3>1, <1>3, <1>4
    <2>3. QED BY <2>1, <2>2, <1>2
<1> HIDE DEF wanted
<1>6. MaxOf2(wanted, AllocMin) \in 2..MaxCount
    BY <1>2, <1>5 DEF MaxOf2
<1>7. QED BY <1>6 DEF NewCount, wanted

\* A new pool joins the set and gives its first slot.
LEMMA NewPoolKeepsSet ==
    ASSUME SetIInv, AllocateFromNewPool
    PROVE  SetIInv' /\ SetPromise!Next
<1>1. /\ SetTypes /\ PoolsListed /\ SlotsKnown /\ Growth /\ CapacityTrue
      /\ pools \in Seq(1..MaxPools) /\ fullPools \in Seq(1..MaxPools)
      /\ poolAt \in [1..MaxPools -> SlotRecord] /\ holders \in [Slots -> {0, 1}]
    BY DEF SetIInv, SetTypes
<1> DEFINE q == PoolAllocate(NewPool(NewCount))
<1>2. PICK id \in 1..MaxPools \ Listed :
          /\ pools' = <<id>>
          /\ poolAt' = [poolAt EXCEPT ![id] = q]
          /\ holders' = [holders EXCEPT ![<<id, 1>>] = @ + 1]
    BY DEF AllocateFromNewPool
<1>3. /\ pools = <<>> /\ "INC" \in strategy
      /\ nPrevAlloc' = NewCount /\ nCapacity' = nCapacity + NewCount
      /\ countPrevAlloc' = countPrevAlloc + 1
      /\ UNCHANGED <<strategy, fullPools, nPrevPeak>>
    BY DEF AllocateFromNewPool
<1>4. NewCount \in 2..MaxCount /\ NewCount \in 1..MaxCount /\ NewCount \in Nat /\ 1 \in 1..MaxCount
    BY <1>1, <1>3, NewCountType, MaxCountType
<1>5. /\ PoolSound(q) /\ q.max = NewCount /\ q.marked = {1} /\ ~PoolFull(q)
    <2> DEFINE p == NewPool(NewCount)
    <2>1. PoolSound(p) /\ ~PoolFull(p)
        BY <1>4, NewPoolSound
    <2>2. p.avail = 1 /\ p.max = NewCount /\ p.marked = {}
        BY DEF NewPool
    <2>3. p.avail \notin p.marked
        BY <2>2
    <2> HIDE DEF p
    <2>4. PoolSound(PoolAllocate(p)) /\ PoolAllocate(p).max = NewCount /\ PoolAllocate(p).marked = {1}
        BY <2>1, <2>2, <2>3, TakeSlot
    <2>5. PoolAllocate(p).nBuffers = 1
        BY <2>4, FS_Singleton DEF PoolSound
    <2>6. QED BY <2>4, <2>5, <1>4 DEF PoolFull, p
<1> HIDE DEF q
<1>6. id \in 1..MaxPools /\ id \notin Listed /\ Held(id) = {}
    BY <1>1, <1>2 DEF SlotsKnown
<1>7. /\ holders' \in [Slots -> {0, 1}] /\ SetPromise!Next
      /\ Held(id)' = {1}
      /\ \A j \in 1..MaxPools : j # id => Held(j)' = Held(j)
    <2>1. 1 \notin Held(id)
        BY <1>6
    <2>2. /\ holders' \in [Slots -> {0, 1}] /\ SetPromise!Next
          /\ Held(id)' = Held(id) \cup {1}
          /\ \A j \in 1..MaxPools : j # id => Held(j)' = Held(j)
        BY <1>1, <1>2, <1>4, <1>6, <2>1, HeldMore
    <2>3. QED BY <2>2, <1>6
<1>8. poolAt'[id] = q /\ \A j \in 1..MaxPools : j # id => poolAt'[j] = poolAt[j]
    BY <1>1, <1>2
<1>9. q \in SlotRecord /\ poolAt' \in [1..MaxPools -> SlotRecord]
    BY <1>1, <1>2, <1>5 DEF PoolSound
<1>10. /\ pools' \in Seq(1..MaxPools) /\ Len(pools') = 1 /\ Once(pools')
       /\ ListedPools(pools') = {id} /\ ListedPools(pools) = {} /\ Len(pools) = 0
    BY <1>2, <1>3, <1>6 DEF Once, ListedPools
<1>11. Listed = ListedPools(fullPools) /\ Listed' = Listed \cup {id}
    <2>1. Listed' = ListedPools(pools') \cup ListedPools(fullPools')
        BY DEF Listed, ListedPools
    <2>2. QED BY <2>1, <1>3, <1>10, ListedPlain
<1>12. /\ Cardinality(Listed') = Cardinality(Listed) + 1 /\ Cardinality(Listed) \in Nat
       /\ Listed \subseteq 1..MaxPools
    <2>1. IsFiniteSet(Listed) /\ Cardinality(Listed) \in Nat /\ Listed \subseteq 1..MaxPools
        BY <1>1, ListedType, FS_CardinalityType
    <2>2. Cardinality(Listed \cup {id}) = Cardinality(Listed) + 1
        BY <2>1, <1>6, FS_AddElement
    <2>3. QED BY <2>1, <2>2, <1>11
<1>13. SetTypes'
    BY <1>1, <1>3, <1>7, <1>9, <1>10 DEF SetTypes
<1>14. PoolsListed'
    <2>1. Once(fullPools') /\ Once(pools')
        BY <1>1, <1>3, <1>10 DEF PoolsListed
    <2>2. ListedPools(pools') \cap ListedPools(fullPools') = {}
        BY <1>3, <1>6, <1>10, <1>11
    <2>3. Cardinality(Listed') = Len(pools') + Len(fullPools')
        <3>1. Cardinality(Listed) = Len(pools) + Len(fullPools) /\ Len(fullPools) \in Nat
            BY <1>1, ListedType DEF PoolsListed
        <3>2. QED BY <3>1, <1>3, <1>10, <1>12
    <2>4. \A j \in ListedPools(pools') : ~PoolFull(poolAt'[j])
        BY <1>5, <1>8, <1>10
    <2>5. \A j \in ListedPools(fullPools') : PoolFull(poolAt'[j])
        BY <1>1, <1>3, <1>6, <1>8, <1>11, <1>12 DEF PoolsListed
    <2>6. QED BY <2>1, <2>2, <2>3, <2>4, <2>5 DEF PoolsListed, Once, ListedPools
<1>15. SlotsKnown'
    <2>1. Listed' \ {id} = Listed \ {id} /\ id \in Listed'
        BY <1>11
    <2>2. PoolSound(q) /\ q.marked = Held(id)'
        BY <1>5, <1>7
    <2>3. QED BY <1>1, <1>2, <1>7, <1>9, <1>13, <2>1, <2>2, OnePoolChanges
<1>16. Growth'
    BY <1>1, <1>3, <1>4, <1>12 DEF Growth
<1>17. CapacityTrue'
    <2>1. Weights[id] = 0 /\ Weights \in [1..MaxPools -> Int]
        BY <1>1, <1>6, WeightsType DEF Weights
    <2>2. /\ \A i \in 1..MaxPools : i # id => Weights'[i] = Weights[i]
          /\ Weights'[id] = NewCount
        BY <1>5, <1>6, <1>8, <1>11 DEF Weights
    <2>3. PICK w \in [1..MaxPools -> Int] : w = Weights
        BY <2>1
    <2>4. PICK v : v = Weights' /\ v = [i \in 1..MaxPools |-> Weights'[i]]
        BY DEF Weights
    <2>5. PICK n \in Int : n = NewCount
        BY <1>4
    <2>6. \A i \in 1..MaxPools : i # id => v[i] = w[i]
        BY <2>2, <2>3, <2>4
    <2>7. v[id] = n /\ w[id] = 0
        BY <2>1, <2>2, <2>3, <2>4, <2>5
    <2>8. v \in [1..MaxPools -> Int]
        BY <2>3, <2>4, <2>6, <2>7
    <2>9. v[id] = w[id] + n
        BY <2>7
    <2>10. nCapacity' = nCapacity + n
        <3>1. nCapacity' = nCapacity + NewCount
            BY <1>3
        <3>2. QED BY <3>1, <2>5, Zenon
    <2>11. SetTypes /\ CapacityTrue /\ id \in 1..MaxPools
        BY <1>1, <1>6
    <2>12. PICK T : AddsUp(T, v) /\ T[MaxPools] = nCapacity + n
        BY <2>3, <2>5, <2>6, <2>8, <2>9, <2>11, CapacityChanges
    <2>13. QED BY <2>4, <2>10, <2>12 DEF CapacityTrue, AddsUp
<1>18. QED BY <1>7, <1>13, <1>14, <1>15, <1>16, <1>17 DEF SetIInv

\* An unsigned number that stands for a negative one is not zero.
LEMMA NegatedNotZero ==
    ASSUME NEW n \in 1..MaxCount
    PROVE  (-n) % UIntMod \in Nat \ {0}
<1>1. n \in Nat /\ n > 0 /\ UIntMod \in Nat /\ n < UIntMod
    BY MaxCountType
<1> DEFINE m == -n
           k == UIntMod
<1>2. m \in Int /\ k \in Nat /\ k > 0 /\ m < 0 /\ m > -k
    BY <1>1
<1> HIDE DEF m, k
<1>3. m % k \in 0..(k - 1)
    BY <1>2
<1>4. m = k * (m \div k) + (m % k)
    BY <1>2
<1>5. m % k # 0
    <2> SUFFICES ASSUME m % k = 0 PROVE FALSE
        OBVIOUS
    <2> DEFINE x == m \div k
    <2>1. x \in Int /\ m = k * x
        BY <1>2, <1>4
    <2> HIDE DEF x
    <2>2. CASE x >= 0
        BY <2>1, <2>2, <1>2
    <2>3. CASE x <= -1
        <3>1. k * (-1 - x) >= 0 /\ k * (-1 - x) = -k - k * x
            BY <2>1, <2>3, <1>2
        <3>2. QED BY <3>1, <2>1, <1>2
    <2>4. QED BY <2>1, <2>2, <2>3
<1>6. QED BY <1>2, <1>3, <1>5 DEF m, k

\* A slot comes back: its pool is listed with room, or dropped.
LEMMA DeallocateKeepsSet ==
    ASSUME SetIInv, NEW id \in 1..MaxPools, NEW slot \in 1..MaxCount, SetDeallocate(id, slot)
    PROVE  SetIInv' /\ SetPromise!Next
<1>1. /\ SetTypes /\ PoolsListed /\ SlotsKnown /\ Growth /\ CapacityTrue
      /\ pools \in Seq(1..MaxPools) /\ fullPools \in Seq(1..MaxPools)
      /\ poolAt \in [1..MaxPools -> SlotRecord] /\ holders \in [Slots -> {0, 1}]
    BY DEF SetIInv, SetTypes
<1> DEFINE p     == poolAt[id]
           freed == PoolDeallocate(p, slot)
           back  == IF id \in ListedPools(pools) THEN pools ELSE Append(pools, id)
           drop  == PoolEmpty(freed) /\ "DEC" \in strategy
           q     == IF drop THEN NewPool(ElemCount) ELSE freed
<1>2. /\ holders[<<id, slot>>] > 0
      /\ holders' = [holders EXCEPT ![<<id, slot>>] = @ - 1]
      /\ poolAt' = [poolAt EXCEPT ![id] = q]
      /\ fullPools' = Without(fullPools, id)
      /\ IF drop
         THEN /\ pools' = Without(back, id)
              /\ nPrevAlloc' = (-freed.max) % UIntMod
              /\ nCapacity' = nCapacity - freed.max
              /\ countPrevAlloc' = 0
         ELSE /\ pools' = back
              /\ UNCHANGED <<nPrevAlloc, countPrevAlloc, nCapacity>>
      /\ UNCHANGED strategy
    BY DEF SetDeallocate, ListedPools
<1>3. /\ holders' \in [Slots -> {0, 1}] /\ SetPromise!Next
      /\ slot \in Held(id) /\ Held(id)' = Held(id) \ {slot}
      /\ \A j \in 1..MaxPools : j # id => Held(j)' = Held(j)
    BY <1>1, <1>2, HeldLess
<1>4. id \in Listed /\ PoolSound(p) /\ p.marked = Held(id)
    BY <1>1, <1>3 DEF SlotsKnown
<1>5. /\ PoolSound(freed) /\ ~PoolFull(freed) /\ freed.max = p.max
      /\ freed.marked = Held(id)' /\ (PoolEmpty(freed) => Held(id)' = {})
    BY <1>3, <1>4, GiveBackSlot
<1> HIDE DEF freed
<1>6. q \in SlotRecord
    BY <1>5, NewPoolSound, MaxCountType DEF PoolSound
<1> HIDE DEF q
<1>7. /\ poolAt' \in [1..MaxPools -> SlotRecord] /\ poolAt'[id] = q
      /\ \A j \in 1..MaxPools : j # id => poolAt'[j] = poolAt[j]
    BY <1>1, <1>2, <1>6
<1>8. /\ Once(pools) /\ Once(fullPools) /\ Len(pools) \in Nat /\ Len(fullPools) \in Nat
      /\ ListedPools(pools) \cap ListedPools(fullPools) = {}
      /\ ListedPools(pools) \cup ListedPools(fullPools) = Listed
      /\ ListedPools(pools) \subseteq 1..MaxPools /\ ListedPools(fullPools) \subseteq 1..MaxPools
      /\ \A j \in ListedPools(pools) : ~PoolFull(poolAt[j])
      /\ \A j \in ListedPools(fullPools) : PoolFull(poolAt[j])
    BY <1>1, ListedType, ListedPlain DEF PoolsListed
\* Where the pool is after the first search.
<1>9. /\ back \in Seq(1..MaxPools) /\ Once(back) /\ id \in ListedPools(back)
      /\ ListedPools(back) = ListedPools(pools) \cup {id}
      /\ fullPools' \in Seq(1..MaxPools) /\ Once(fullPools')
      /\ ListedPools(fullPools') = ListedPools(fullPools) \ {id}
      /\ Len(back) \in Nat /\ Len(fullPools') \in Nat
      /\ Len(back) + Len(fullPools') = Len(pools) + Len(fullPools)
    <2>1. CASE id \in ListedPools(pools)
        <3>1. back = pools /\ id \notin ListedPools(fullPools)
            BY <2>1, <1>8
        <3>2. fullPools' = fullPools
            BY <3>1, <1>2, NoneLess
        <3>3. QED BY <2>1, <3>1, <3>2, <1>1, <1>8
    <2>2. CASE id \notin ListedPools(pools)
        <3> DEFINE S == 1..MaxPools
        <3>1. /\ back = Append(pools, id) /\ id \in ListedPools(fullPools) /\ id \in S
              /\ pools \in Seq(S) /\ fullPools \in Seq(S)
            BY <2>2, <1>1, <1>4, <1>8
        <3> HIDE DEF S, back
        <3>2. /\ back \in Seq(S) /\ Len(back) = Len(pools) + 1 /\ Once(back)
              /\ ListedPools(back) = ListedPools(pools) \cup {id}
            BY <2>2, <3>1, <1>8, OneMore
        <3>3. /\ fullPools' \in Seq(S) /\ Len(fullPools') = Len(fullPools) - 1 /\ Once(fullPools')
              /\ ListedPools(fullPools') = ListedPools(fullPools) \ {id}
            BY <3>1, <1>2, <1>8, OneLess
        <3>4. Len(fullPools') \in Nat /\ Len(back) \in Nat
            BY <3>2, <3>3
        <3>5. QED BY <3>2, <3>3, <3>4, <1>8 DEF S
    <2>3. QED BY <2>1, <2>2
<1> HIDE DEF back
<1>10. Listed' = ListedPools(pools') \cup ListedPools(fullPools')
    BY DEF Listed, ListedPools
<1>11. /\ Listed \subseteq 1..MaxPools /\ IsFiniteSet(Listed) /\ Cardinality(Listed) \in Nat
       /\ Cardinality(Listed) = Len(pools) + Len(fullPools)
    BY <1>1, ListedType, FS_CardinalityType DEF PoolsListed
<1>12. PICK w \in [1..MaxPools -> Int] : w = Weights
    BY <1>1, WeightsType
<1>13. PICK v : v = Weights' /\ v = [i \in 1..MaxPools |-> Weights'[i]]
    BY DEF Weights
<1>14. p.max \in 1..MaxCount /\ p.max \in Int /\ w[id] = p.max
    <2>1. p.max \in 1..MaxCount
        BY <1>4 DEF PoolSound
    <2>2. w[id] = p.max
        BY <1>4, <1>12 DEF Weights
    <2>3. QED BY <2>1, <2>2, MaxCountType
<1>15. CASE drop
    <2>1. /\ pools' = Without(back, id) /\ nPrevAlloc' = (-p.max) % UIntMod
          /\ nCapacity' = nCapacity - p.max /\ countPrevAlloc' = 0
        BY <1>2, <1>5, <1>15
    <2>2. /\ pools' \in Seq(1..MaxPools) /\ Once(pools') /\ Len(pools') = Len(back) - 1
          /\ ListedPools(pools') = ListedPools(back) \ {id}
        BY <2>1, <1>9, OneLess
    <2>3. ListedPools(pools') = ListedPools(pools) \ {id} /\ Listed' = Listed \ {id}
        BY <2>2, <1>8, <1>9, <1>10
    <2>4. Cardinality(Listed') = Cardinality(Listed) - 1 /\ Cardinality(Listed') \in Nat
        <3>1. IsFiniteSet(Listed \ {id}) /\ Cardinality(Listed \ {id}) = Cardinality(Listed) - 1
            BY <1>4, <1>11, FS_RemoveElement
        <3>2. QED BY <3>1, <2>3, FS_CardinalityType
    <2>5. SetTypes'
        BY <2>2, <1>1, <1>2, <1>3, <1>7, <1>9 DEF SetTypes
    <2>6. PoolsListed'
        <3>1. ListedPools(pools') \cap ListedPools(fullPools') = {}
            BY <2>3, <1>8, <1>9
        <3>2. Cardinality(Listed') = Len(pools') + Len(fullPools')
            BY <2>2, <2>4, <1>8, <1>9, <1>11
        <3>3. \A j \in ListedPools(pools') : ~PoolFull(poolAt'[j])
            BY <2>3, <1>7, <1>8
        <3>4. \A j \in ListedPools(fullPools') : PoolFull(poolAt'[j])
            BY <1>7, <1>8, <1>9
        <3>5. QED BY <2>2, <3>1, <3>2, <3>3, <3>4, <1>9 DEF PoolsListed, Once, ListedPools
    <2>7. SlotsKnown'
        <3>1. id \notin Listed' /\ Held(id)' = {} /\ Listed' \ {id} = Listed \ {id}
            BY <2>3, <1>5, <1>15
        <3>2. QED BY <1>1, <1>2, <1>3, <1>6, <2>5, <3>1, OnePoolChanges
    <2>8. Growth'
        BY <2>1, <2>4, <1>14, NegatedNotZero DEF Growth
    <2>9. CapacityTrue'
        <3>1. v[id] = 0 /\ \A i \in 1..MaxPools : i # id => v[i] = w[i]
            BY <2>3, <1>7, <1>12, <1>13 DEF Weights
        <3>2. \A i \in 1..MaxPools : v[i] \in Int
            BY <3>1, <1>12
        <3>3. v \in [1..MaxPools -> Int] /\ v[id] = w[id] + (-p.max) /\ -p.max \in Int
            BY <3>1, <3>2, <1>13, <1>14
        <3>4. nCapacity \in Int
            <4>1. PICK S : AddsUp(S, Weights) /\ nCapacity = S[MaxPools]
                BY <1>1 DEF CapacityTrue
            <4>2. MaxPools \in 0..MaxPools
                BY SetAssumption
            <4>3. QED BY <4>1, <4>2 DEF AddsUp
        <3>5. nCapacity' = nCapacity + (-p.max)
            <4>1. \A x, y \in Int : x - y = x + (-y)
                OBVIOUS
            <4>2. nCapacity' = nCapacity - p.max /\ p.max \in Int
                BY <2>1, <1>14
            <4>3. nCapacity - p.max = nCapacity + (-p.max)
                BY <3>4, <4>1, <4>2, Zenon
            <4>4. QED BY <4>2, <4>3, Zenon
        <3>a. PICK d \in Int : d = -p.max
            BY <3>3
        <3>6. PICK T : AddsUp(T, v) /\ T[MaxPools] = nCapacity + d
            <4>1. v[id] = w[id] + d /\ v \in [1..MaxPools -> Int] /\ id \in 1..MaxPools
                BY <3>3, <3>a
            <4>2. \A i \in 1..MaxPools : i # id => v[i] = w[i]
                BY <3>1
            <4>3. CapacityTrue
                BY <1>1
            <4>4. QED BY <4>1, <4>2, <4>3, <3>a, <1>12, CapacityChanges
        <3>7. QED BY <3>5, <3>6, <3>a, <1>13 DEF CapacityTrue, AddsUp
    <2>10. QED BY <2>5, <2>6, <2>7, <2>8, <2>9, <1>3 DEF SetIInv
<1>16. CASE ~drop
    <2>1. pools' = back /\ UNCHANGED <<nPrevAlloc, countPrevAlloc, nCapacity>> /\ q = freed
        BY <1>2, <1>16 DEF q
    <2>2. Listed' = Listed
        BY <2>1, <1>4, <1>8, <1>9, <1>10
    <2>3. SetTypes'
        BY <2>1, <1>1, <1>2, <1>3, <1>7, <1>9 DEF SetTypes
    <2>4. PoolsListed'
        <3>1. ListedPools(pools') \cap ListedPools(fullPools') = {}
            BY <2>1, <1>8, <1>9
        <3>2. Cardinality(Listed') = Len(pools') + Len(fullPools')
            BY <2>1, <2>2, <1>9, <1>11
        <3>3. \A j \in ListedPools(pools') : ~PoolFull(poolAt'[j])
            BY <2>1, <1>5, <1>7, <1>8, <1>9
        <3>4. \A j \in ListedPools(fullPools') : PoolFull(poolAt'[j])
            BY <1>7, <1>8, <1>9
        <3>5. QED BY <2>1, <3>1, <3>2, <3>3, <3>4, <1>9 DEF PoolsListed, Once, ListedPools
    <2>5. SlotsKnown'
        BY <1>1, <1>2, <1>3, <1>4, <1>5, <1>6, <2>1, <2>2, <2>3, OnePoolChanges
    <2>6. Growth'
        BY <2>1, <2>2, <1>1 DEF Growth
    <2>7. CapacityTrue'
        <3>1. \A i \in 1..MaxPools : v[i] = w[i]
            BY <2>1, <2>2, <1>5, <1>7, <1>12, <1>13 DEF Weights
        <3>2. Weights' = Weights
            BY <3>1, <1>12, <1>13
        <3>3. QED BY <3>2, <2>1, <1>1 DEF CapacityTrue, AddsUp
    <2>8. QED BY <2>3, <2>4, <2>5, <2>6, <2>7, <1>3 DEF SetIInv
<1>17. QED BY <1>15, <1>16

LEMMA SetStarts == ASSUME SetInit PROVE SetIInv /\ SetPromise!Init
<1>1. /\ strategy \in Strategies /\ pools = <<1>> /\ fullPools = <<>>
      /\ poolAt = [i \in 1..MaxPools |-> NewPool(ElemCount)]
      /\ nPrevAlloc = ElemCount /\ countPrevAlloc = 1 /\ nCapacity = ElemCount
      /\ holders = [s \in Slots |-> 0]
    BY DEF SetInit
<1>2. ElemCount \in 1..MaxCount /\ MaxPools \in Nat \ {0} /\ 1 \in 1..MaxPools /\ ElemCount \in Nat \ {0}
    BY MaxCountType, SetAssumption
<1>3. PoolSound(NewPool(ElemCount)) /\ ~PoolFull(NewPool(ElemCount)) /\ NewPool(ElemCount).marked = {}
    BY <1>2, NewPoolSound DEF NewPool
<1>4. SetTypes
    <2>1. NewPool(ElemCount) \in SlotRecord
        BY <1>3 DEF PoolSound
    <2>2. QED BY <2>1, <1>1, <1>2 DEF SetTypes
<1>5. ListedPools(pools) = {1} /\ ListedPools(fullPools) = {} /\ Listed = {1}
    <2>1. ListedPools(pools) = {1} /\ ListedPools(fullPools) = {}
        BY <1>1 DEF ListedPools
    <2>2. QED BY <2>1, ListedPlain
<1>6. Cardinality(Listed) = 1
    BY <1>5, FS_Singleton
<1>7. PoolsListed
    <2>1. Once(pools) /\ Once(fullPools) /\ Len(pools) = 1 /\ Len(fullPools) = 0
        BY <1>1 DEF Once
    <2>2. ~PoolFull(poolAt[1])
        BY <1>1, <1>2, <1>3
    <2>3. QED BY <2>1, <2>2, <1>5, <1>6 DEF PoolsListed
<1>8. SlotsKnown
    <2>1. \A j \in 1..MaxPools : Held(j) = {}
        BY <1>1 DEF Held, Slots
    <2>2. \A j \in 1..MaxPools : PoolSound(poolAt[j]) /\ poolAt[j].marked = {}
        BY <1>1, <1>3
    <2>3. QED BY <2>1, <2>2, <1>2, <1>5 DEF SlotsKnown
<1>9. Growth
    BY <1>1, <1>2, <1>6 DEF Growth
<1>10. CapacityTrue
    <2> DEFINE S == [i \in 0..MaxPools |-> IF i = 0 THEN 0 ELSE ElemCount]
    <2>1. Weights = [i \in 1..MaxPools |-> IF i = 1 THEN ElemCount ELSE 0]
        <3>1. NewPool(ElemCount).max = ElemCount
            BY DEF NewPool
        <3>2. \A i \in 1..MaxPools : poolAt[i].max = ElemCount
            BY <3>1, <1>1
        <3>3. QED BY <3>2, <1>5 DEF Weights
    <2>2. \A i \in 0..MaxPools : S[i] = IF i = 0 THEN 0 ELSE S[i - 1] + Weights[i]
        <3> TAKE i \in 0..MaxPools
        <3>1. CASE i = 0
            BY <3>1, <1>2
        <3>2. CASE i = 1
            BY <3>2, <2>1, <1>2
        <3>3. CASE i > 1
            <4>1. i - 1 \in 0..MaxPools /\ i - 1 # 0 /\ i \in 1..MaxPools /\ i # 1
                BY <3>3, <1>2
            <4>2. Weights[i] = 0 /\ S[i - 1] = ElemCount /\ S[i] = ElemCount
                BY <4>1, <2>1
            <4>3. QED BY <4>1, <4>2, <3>3, <1>2
        <3>4. QED BY <3>1, <3>2, <3>3, <1>2
    <2>3. S \in [0..MaxPools -> Int] /\ S[MaxPools] = ElemCount
        BY <1>2
    <2>4. AddsUp(S, Weights)
        BY <2>2, <2>3 DEF AddsUp
    <2>5. QED BY <2>3, <2>4, <1>1 DEF CapacityTrue
<1>11. SetPromise!Init
    BY <1>1 DEF SetPromise!Init
<1>12. QED BY <1>4, <1>7, <1>8, <1>9, <1>10, <1>11 DEF SetIInv

LEMMA SetKeeps ==
    ASSUME SetIInv, [SetNextOnce]_setVars
    PROVE  SetIInv' /\ [SetPromise!Next]_holders
<1>1. CASE ~Astray /\ AllocateFromList
    BY <1>1, AllocateKeepsSet
<1>2. CASE AllocateFromNewPool
    BY <1>2, NewPoolKeepsSet
<1>3. CASE \E s \in Slots : SetDeallocate(s[1], s[2])
    <2>1. PICK id \in 1..MaxPools, slot \in 1..MaxCount : SetDeallocate(id, slot)
        BY <1>3 DEF Slots
    <2>2. QED BY <2>1, DeallocateKeepsSet
<1>4. CASE UNCHANGED setVars
    <2>1. SetTypes /\ PoolsListed /\ SlotsKnown /\ Growth /\ CapacityTrue
        BY DEF SetIInv
    <2>2. UNCHANGED <<strategy, pools, fullPools, poolAt, nPrevAlloc, countPrevAlloc, nCapacity, holders>>
        BY <1>4 DEF setVars
    <2>3. Listed' = Listed /\ Weights' = Weights /\ \A id : Held(id)' = Held(id)
        BY <2>2 DEF Listed, Weights, Held
    <2>4. SetTypes' /\ PoolsListed' /\ SlotsKnown' /\ Growth'
        <3>1. SetTypes'
            BY <2>1, <2>2 DEF SetTypes
        <3>2. PoolsListed'
            <4>1. pools' = pools /\ fullPools' = fullPools /\ poolAt' = poolAt /\ Listed' = Listed
                BY <2>2, <2>3
            <4>2. ListedPools(pools)' = ListedPools(pools) /\ ListedPools(fullPools)' = ListedPools(fullPools)
                BY <4>1 DEF ListedPools
            <4>3. Once(pools)' /\ Once(fullPools)'
                BY <2>1, <4>1 DEF PoolsListed, Once
            <4>4. QED BY ONLY <2>1, <4>1, <4>2, <4>3 DEF PoolsListed
        <3>3. SlotsKnown'
            BY <2>1, <2>2, <2>3 DEF SlotsKnown
        <3>4. Growth'
            BY <2>1, <2>2, <2>3 DEF Growth
        <3>5. QED BY <3>1, <3>2, <3>3, <3>4
    <2>5. CapacityTrue'
        BY <2>1, <2>2, <2>3 DEF CapacityTrue, AddsUp
    <2>6. QED BY <2>2, <2>4, <2>5 DEF SetIInv
<1>5. QED BY <1>1, <1>2, <1>3, <1>4 DEF SetNextOnce

\* SetIInv: pools are in the list their fullness asks for, know the slots that
\* users hold, and the capacity is theirs.
THEOREM SetInvariant == SetSpecOnce => []SetIInv
<1>1. QED BY SetStarts, SetKeeps, PTL DEF SetSpecOnce

\* A pool that is not full has a slot at hand, which no user holds unless the
\* first slot is the only free one.
LEMMA SoundAvail ==
    ASSUME NEW p, PoolSound(p)
    PROVE  /\ ~PoolFull(p) => p.avail # NULL
           /\ p.avail \in p.marked => 1..p.max \ p.marked = {1}
<1>1. p.max \in Nat /\ p.marked \subseteq 1..p.max
    BY MaxCountType DEF PoolSound
<1>2. PoolFull(p) => p.avail = 0
    BY DEF PoolSound, NULL
<1>3. ~PoolFull(p) => p.avail \in 1..p.max /\ (p.avail \in p.marked => 1..p.max \ p.marked = {1})
    BY DEF PoolSound
<1>4. QED BY <1>1, <1>2, <1>3 DEF NULL

\* SetInv: no pool with a free slot is left out and none is lost, and pools
\* and users agree about every slot.
THEOREM SetInvHolds == SetSpecOnce => []SetInv
<1>1. SetIInv => SetInv
    <2> SUFFICES ASSUME SetIInv PROVE SetInv
        OBVIOUS
    <2>1. SetTypes /\ PoolsListed /\ SlotsKnown /\ CapacityTrue
        BY DEF SetIInv
    <2>2. ListsTellFullness
        <3>1. \A id \in ListedPools(pools) : poolAt[id].avail # NULL
            <4> TAKE id \in ListedPools(pools)
            <4>1. PoolSound(poolAt[id]) /\ ~PoolFull(poolAt[id])
                BY <2>1, ListedPlain DEF PoolsListed, SlotsKnown
            <4>2. QED BY <4>1, SoundAvail
        <3>2. QED BY <3>1, <2>1 DEF ListsTellFullness, PoolsListed, SlotsKnown
    <2>3. \A id \in Listed : /\ poolAt[id].nBuffers = Cardinality(Held(id))
                             /\ poolAt[id].marked = Held(id)
                             /\ poolAt[id].avail \in Held(id) =>
                                    1..poolAt[id].max \ Held(id) = {1}
        <3> TAKE id \in Listed
        <3>1. PoolSound(poolAt[id]) /\ poolAt[id].marked = Held(id)
            BY <2>1 DEF SlotsKnown
        <3>2. QED BY <3>1, SoundAvail DEF PoolSound
    <2>4. nCapacity = LET Sum[i \in 0..MaxPools] ==
                            IF i = 0 THEN 0
                            ELSE Sum[i - 1] + IF i \in Listed THEN poolAt[i].max ELSE 0
                      IN  Sum[MaxPools]
        <3> DEFINE Sum[i \in 0..MaxPools] ==
                       IF i = 0 THEN 0 ELSE Sum[i - 1] + IF i \in Listed THEN poolAt[i].max ELSE 0
        <3>1. PICK S : AddsUp(S, Weights) /\ nCapacity = S[MaxPools]
            BY <2>1 DEF CapacityTrue
        <3>2. Sum = CHOOSE g : g = [i \in 0..MaxPools |->
                  IF i = 0 THEN 0 ELSE g[i - 1] + IF i \in Listed THEN poolAt[i].max ELSE 0]
            BY DEF Sum
        <3> HIDE DEF Sum
        <3>3. MaxPools \in Nat
            BY SetAssumption
        <3>4. ASSUME NEW g
              PROVE  [i \in 0..MaxPools |-> IF i = 0 THEN 0 ELSE g[i - 1] + Weights[i]]
                     = [i \in 0..MaxPools |-> IF i = 0 THEN 0
                                              ELSE g[i - 1] + IF i \in Listed THEN poolAt[i].max ELSE 0]
            <4>1. \A i \in 0..MaxPools : i # 0 =>
                      Weights[i] = IF i \in Listed THEN poolAt[i].max ELSE 0
                <5>1. \A i \in 0..MaxPools : i # 0 => i \in 1..MaxPools
                    BY <3>3
                <5>2. QED BY <5>1 DEF Weights
            <4>2. QED BY <4>1
        <3>5. S = [i \in 0..MaxPools |->
                  IF i = 0 THEN 0 ELSE S[i - 1] + IF i \in Listed THEN poolAt[i].max ELSE 0]
            BY <3>1, <3>4 DEF AddsUp
        <3>6. Sum = [i \in 0..MaxPools |->
                  IF i = 0 THEN 0 ELSE Sum[i - 1] + IF i \in Listed THEN poolAt[i].max ELSE 0]
            BY <3>2, <3>5
        <3>7. Sum = [i \in 0..MaxPools |-> IF i = 0 THEN 0 ELSE Sum[i - 1] + Weights[i]]
            BY <3>4, <3>6
        <3>8. Sum[MaxPools] = S[MaxPools]
            BY <3>1, <3>7, SumUnique
        <3>9. nCapacity = Sum[MaxPools]
            BY <3>1, <3>8
        <3> USE DEF Sum
        <3>10. QED BY <3>9
    <2>5. QED BY <2>2, <2>3, <2>4 DEF SetInv, SetAccounts
<1>2. QED BY <1>1, SetInvariant, PTL

\* SetIsSlotPool: the set is one pool of slots, each of which has one holder at
\* a time, however pools were added, filled and dropped.
THEOREM SetIsSlotPoolHolds == SetSpecOnce => SetIsSlotPool
<1>1. QED BY SetStarts, SetKeeps, SetInvariant, PTL DEF SetSpecOnce, SetIsSlotPool, SetPromise!Spec

-----------------------------------------------------------------------------

(***************************************************************************)
(* MultiSizePool: with a user of one size, blocks are carved from the      *)
(* front and stay carved: the first k are c elements each, the rest is one *)
(* free block, until the k-th comes back first and swallows the rest.      *)
(***************************************************************************)

Start(i) == i * c

Taken == [bAlloc |-> TRUE, nElem |-> c]
Free(n) == [bAlloc |-> FALSE, nElem |-> n]

\* The first k blocks are carved in the headers h; with sw, the last of them
\* has swallowed the rest, whose header is still there.
ChainOf(h, k, sw) ==
    /\ h \in [At -> [bAlloc : BOOLEAN, nElem : Nat]]
    /\ \A i \in 0..(k - 1) : ~(sw /\ i = k - 1) => h[Start(i)] = Taken
    /\ sw => /\ 0 < k /\ k < Units
             /\ h[Start(k - 1)] = [bAlloc |-> TRUE, nElem |-> MaxElems - Start(k - 1)]
    /\ k < Units => h[Start(k)] = Free(MaxElems - Start(k))
    /\ \A s \in At : (\A i \in 0..k : s # Start(i)) => h[s] = Free(0)

\* The number of blocks on the chain.
Blocks(k, sw) == IF sw \/ k = Units THEN k ELSE k + 1

CarvedUpTo(k, sw) ==
    /\ ChainOf(header, k, sw)
    /\ owned \subseteq {Start(i) : i \in 0..(k - 1)}
    /\ sw => Start(k - 1) \notin owned
    /\ IF sw THEN nBuffers = (Start(Cardinality(owned)) - (MaxElems - Start(k))) % SizeMod
       ELSE nBuffers = Start(Cardinality(owned)) /\ nBuffers <= Start(k)

MultiIInv ==
    /\ c \in Nat \ {0} /\ Start(Units) < SizeMod
    /\ \E k \in 0..Units, sw \in BOOLEAN : CarvedUpTo(k, sw)

\* Starts of blocks: what is needed of the product.
LEMMA Starts ==
    ASSUME c \in Nat \ {0}
    PROVE  /\ \A i \in Int : Start(i) \in Int /\ Start(i + 1) = Start(i) + c
           /\ \A i, j \in Int : Start(i) - Start(j) = Start(i - j)
           /\ \A i, j \in Int : i < j => Start(i) + c <= Start(j)
           /\ \A i \in Nat : i <= Start(i)
           /\ Start(0) = 0 /\ MaxElems = Start(Units) /\ At = 0..(Start(Units) - 1)
<1>1. /\ \A i \in Int : Start(i) \in Int /\ Start(i + 1) = Start(i) + c
      /\ \A i, j \in Int : Start(i) - Start(j) = Start(i - j)
      /\ Start(0) = 0
    BY DEF Start
<1>2. \A i, j \in Int : i < j => Start(i) + c <= Start(j)
    <2> TAKE i, j \in Int
    <2> HAVE i < j
    <2>1. (j - i - 1) * c >= 0
        <3>1. PICK d \in Nat : d = j - i - 1
            OBVIOUS
        <3>2. d * c >= 0
            OBVIOUS
        <3>3. QED BY <3>1, <3>2
    <2>2. (j - i - 1) * c = j * c - i * c - c
        OBVIOUS
    <2>3. QED BY <2>1, <2>2 DEF Start
<1>3. \A i \in Nat : i <= Start(i)
    <2> TAKE i \in Nat
    <2>1. i * (c - 1) >= 0 /\ i * (c - 1) = i * c - i
        <3>1. PICK d \in Nat : d = c - 1
            OBVIOUS
        <3>2. i * d >= 0
            OBVIOUS
        <3>3. QED BY <3>1, <3>2
    <2>2. QED BY <2>1 DEF Start
<1>4. MaxElems = Start(Units) /\ At = 0..(Start(Units) - 1)
    BY MultiAssumption DEF MaxElems, At, Start
<1>5. QED BY <1>1, <1>2, <1>3, <1>4

\* A chain from 0 to the end of the buffer is what Chained finds.
LEMMA ChainWalked ==
    ASSUME NEW top \in Nat, NEW P \in [0..top -> Int], P[0] = 0,
           \A i \in 0..(top - 1) : P[i] \in At /\ NextBlock(P[i]) = P[i + 1],
           P[top] \notin At, MaxElems \in Nat, top <= MaxElems
    PROVE  Chained = {P[i] : i \in 0..(top - 1)}
<1> DEFINE Upto(n) == IF n <= top THEN n ELSE top
           W == [n \in 0..MaxElems |-> {P[i] : i \in 0..Upto(n)}]
           Step(g) == [n \in 0..MaxElems |->
                          IF n = 0 THEN {0}
                          ELSE g[n - 1] \cup {NextBlock(b) : b \in g[n - 1] \cap At}]
           Reach == CHOOSE g : g = Step(g)
<1>1. ASSUME NEW n \in 0..MaxElems, n # 0
      PROVE  W[n] = W[n - 1] \cup {NextBlock(b) : b \in W[n - 1] \cap At}
    <2>1. /\ n - 1 \in 0..MaxElems /\ Upto(n) \in 0..top /\ Upto(n - 1) \in 0..top
          /\ Upto(n) = (IF n <= top THEN Upto(n - 1) + 1 ELSE Upto(n - 1))
          /\ n > top => Upto(n - 1) = top
          /\ n <= top => Upto(n - 1) = n - 1
        BY <1>1
    <2>2. W[n] = {P[i] : i \in 0..Upto(n)} /\ W[n - 1] = {P[i] : i \in 0..Upto(n - 1)}
        BY <2>1
    <2> HIDE DEF W, Upto
    <2>3. {NextBlock(b) : b \in W[n - 1] \cap At} = {P[i + 1] : i \in {j \in 0..Upto(n - 1) : j < top}}
        <3>1. \A i \in 0..Upto(n - 1) : i < top => P[i] \in At /\ NextBlock(P[i]) = P[i + 1]
            BY <2>1
        <3>2. \A i \in 0..Upto(n - 1) : P[i] \in At => i < top
            BY <2>1
        <3> DEFINE I == {j \in 0..Upto(n - 1) : j < top}
        <3>3. W[n - 1] \cap At = {P[i] : i \in I}
            BY <2>2, <3>1, <3>2
        <3>4. \A i \in I : NextBlock(P[i]) = P[i + 1]
            BY <3>1
        <3> HIDE DEF I
        <3>5. {NextBlock(b) : b \in W[n - 1] \cap At} = {P[i + 1] : i \in I}
            BY <3>3, <3>4
        <3>6. QED BY <3>5 DEF I
    <2>4. CASE n <= top
        BY <2>1, <2>2, <2>3, <2>4
    <2>5. CASE n > top
        <3>1. Upto(n) = top /\ Upto(n - 1) = top
            BY <2>1, <2>5
        <3>2. \A i \in {j \in 0..top : j < top} : i + 1 \in 0..top
            OBVIOUS
        <3>3. QED BY <2>2, <2>3, <3>1, <3>2
    <2>6. QED BY <1>1, <2>4, <2>5
<1>2. W[0] = {0}
    <2>1. W[0] = {P[i] : i \in 0..0} /\ 0..0 = {0}
        OBVIOUS
    <2>2. QED BY <2>1
<1>3. W[MaxElems] = {P[i] : i \in 0..top}
    <2>1. Upto(MaxElems) = top
        OBVIOUS
    <2>2. QED BY <2>1
<1>4. W = Step(W)
    <2>1. W = [n \in 0..MaxElems |-> W[n]]
        OBVIOUS
    <2>2. \A n \in 0..MaxElems : W[n] = IF n = 0 THEN {0}
                                        ELSE W[n - 1] \cup {NextBlock(b) : b \in W[n - 1] \cap At}
        BY <1>1, <1>2
    <2> HIDE DEF W
    <2>3. QED BY <2>1, <2>2
<1> HIDE DEF W
<1>5. Reach = Step(Reach)
    BY <1>4
<1> HIDE DEF Reach
<1>6. Reach[MaxElems] = W[MaxElems]
    <2> DEFINE Bad == {n \in 0..MaxElems : Reach[n] # W[n]}
    <2>1. SUFFICES ASSUME Bad # {} PROVE FALSE
        OBVIOUS
    <2>0. Bad \subseteq Nat
        OBVIOUS
    <2> HIDE DEF Bad
    <2>2. PICK m \in Bad : \A n \in Bad : m <= n
        BY <2>1, <2>0, LeastNatural
    <2>3. m \in 0..MaxElems /\ Reach[m] # W[m]
        BY DEF Bad
    <2>4. Reach[0] = {0}
        BY <1>5
    <2>5. m # 0 /\ m - 1 \in 0..MaxElems
        <3>1. m # 0
            BY <2>3, <2>4, <1>2
        <3>2. QED BY <2>3, <3>1
    <2>6. Reach[m - 1] = W[m - 1]
        <3>1. m - 1 \notin Bad
            BY <2>2, <2>3, <2>5
        <3>2. QED BY <3>1, <2>5 DEF Bad
    <2>7. Reach[m] = Reach[m - 1] \cup {NextBlock(b) : b \in Reach[m - 1] \cap At}
        BY <1>5, <2>3, <2>5
    <2>8. QED BY <2>3, <2>5, <2>6, <2>7, <1>1
<1>7. Chained = Reach[MaxElems] \cap At
    BY DEF Chained, Reach
<1>8. {P[i] : i \in 0..top} \cap At = {P[i] : i \in 0..(top - 1)}
    <2>1. \A i \in 0..top : P[i] \in At <=> i \in 0..(top - 1)
        OBVIOUS
    <2>2. \A i \in 0..(top - 1) : i \in 0..top
        OBVIOUS
    <2>3. QED BY <2>1, <2>2
<1>9. QED BY <1>3, <1>6, <1>7, <1>8

\* Every start up to the rest is in the buffer, and starts differ.
LEMMA StartsIn ==
    ASSUME c \in Nat \ {0}, NEW k \in 0..Units
    PROVE  /\ \A i \in 0..(k - 1) : Start(i) \in At /\ Start(i) >= 0 /\ Start(i) + c <= Start(k)
           /\ k < Units => Start(k) \in At
           /\ Start(Units) \notin At /\ Start(k) \in Nat /\ Start(k) <= Start(Units)
           /\ \A i, j \in 0..k : Start(i) = Start(j) => i = j
<1>1. Units \in Nat \ {0} /\ k \in Nat /\ k <= Units
    BY MultiAssumption
<1>a. \A i \in Int : Start(i) \in Int
    BY Starts
<1>b. \A i \in Nat : i <= Start(i)
    BY Starts
<1>c. At = 0..(Start(Units) - 1)
    BY Starts
<1>2. \A i \in 0..k : Start(i) \in Nat /\ i \in Int
    <2> TAKE i \in 0..k
    <2>1. i \in Nat /\ i <= Start(i) /\ Start(i) \in Int
        <3>1. i \in Nat /\ i \in Int
            BY <1>1
        <3>2. QED BY <3>1, <1>a, <1>b
    <2>2. QED BY <2>1
<1>3. \A i, j \in 0..Units : i < j => Start(i) + c <= Start(j)
    BY <1>1, Starts
<1>4. k \in 0..k /\ Units \in 0..Units /\ Start(k) \in Nat /\ Start(Units) \in Int
    <2>1. k \in 0..k /\ Units \in 0..Units /\ Units \in Int
        BY <1>1
    <2>2. QED BY <2>1, <1>2, <1>a
<1>5. Start(k) <= Start(Units)
    <2>1. CASE k = Units
        BY <2>1, <1>4
    <2>2. CASE k < Units
        BY <2>2, <1>1, <1>3, <1>4
    <2>3. QED BY <2>1, <2>2, <1>1
<1>6. \A i \in 0..(k - 1) : Start(i) >= 0 /\ Start(i) + c <= Start(k) /\ Start(i) \in At
    <2> TAKE i \in 0..(k - 1)
    <2>1. i \in 0..k /\ i \in 0..Units /\ k \in 0..Units /\ i < k
        BY <1>1
    <2>2. Start(i) \in Nat /\ Start(i) + c <= Start(k)
        BY <2>1, <1>2, <1>3
    <2>3. Start(i) < Start(Units)
        <3>1. \A x, y, z \in Int : x + c <= y /\ y <= z => x < z
            OBVIOUS
        <3>2. QED BY <2>2, <1>4, <1>5, <3>1
    <2>4. QED BY <2>2, <2>3, <1>4, <1>c
<1>7. k < Units => Start(k) \in At
    <2>1. k < Units => Start(k) + c <= Start(Units)
        <3>1. k \in 0..Units
            OBVIOUS
        <3>2. QED BY <3>1, <1>3, <1>4
    <2>2. QED BY <2>1, <1>4, <1>c
<1>8. \A i, j \in 0..k : Start(i) = Start(j) => i = j
    <2> TAKE i, j \in 0..k
    <2>1. i \in 0..Units /\ j \in 0..Units /\ Start(i) \in Nat /\ Start(j) \in Nat
        BY <1>1, <1>2
    <2>2. i < j => Start(i) + c <= Start(j)
        BY <2>1, <1>3
    <2>3. j < i => Start(j) + c <= Start(i)
        BY <2>1, <1>3
    <2>4. QED BY <2>1, <2>2, <2>3
<1>9. Start(Units) \notin At
    BY <1>4, <1>c
<1>10. QED BY <1>4, <1>5, <1>6, <1>7, <1>8, <1>9

\* Every carved block is marked allocated, and all but one that has swallowed
\* the rest are as they were asked for.
LEMMA CarvedTaken ==
    ASSUME NEW k \in 0..Units, NEW sw \in BOOLEAN, ChainOf(header, k, sw), NEW j \in 0..(k - 1)
    PROVE  /\ header[Start(j)].bAlloc
           /\ ~(sw /\ j = k - 1) => header[Start(j)] = Taken
<1>1. CASE sw /\ j = k - 1
    <2>1. header[Start(j)] = [bAlloc |-> TRUE, nElem |-> MaxElems - Start(k - 1)]
        BY <1>1 DEF ChainOf
    <2>2. QED BY <2>1, <1>1
<1>2. CASE ~(sw /\ j = k - 1)
    <2>1. header[Start(j)] = Taken
        BY <1>2 DEF ChainOf
    <2>2. QED BY <2>1 DEF Taken
<1>3. QED BY <1>1, <1>2

\* The blocks found are the carved ones and the rest.
LEMMA ChainedStarts ==
    ASSUME c \in Nat \ {0}, NEW k \in 0..Units, NEW sw \in BOOLEAN, ChainOf(header, k, sw)
    PROVE  /\ Blocks(k, sw) \in 0..Units
           /\ Chained = {Start(i) : i \in 0..(Blocks(k, sw) - 1)}
           /\ \A i \in 0..(Blocks(k, sw) - 1) :
                 /\ Start(i) \in At
                 /\ NextBlock(Start(i)) = IF i + 1 < Blocks(k, sw) THEN Start(i + 1) ELSE MaxElems
<1>1. Units \in Nat \ {0} /\ k \in Nat /\ k <= Units /\ (sw => 0 < k /\ k < Units)
    BY MultiAssumption DEF ChainOf
<1> DEFINE top == Blocks(k, sw)
           P == [i \in 0..top |-> IF i < top THEN Start(i) ELSE MaxElems]
<1>2. /\ \A i \in Int : Start(i) \in Int /\ Start(i + 1) = Start(i) + c
      /\ Start(0) = 0 /\ MaxElems = Start(Units) /\ Units <= Start(Units)
    BY <1>1, Starts
<1>3. top \in Nat /\ top <= Units /\ MaxElems \in Nat /\ top <= MaxElems /\ top > 0
      /\ (top = k + 1 => k < Units)
    BY <1>1, <1>2 DEF Blocks
<1>4. ASSUME NEW i \in 0..(top - 1)
      PROVE  Start(i) \in At /\ NextBlock(Start(i)) = IF i + 1 < top THEN Start(i + 1) ELSE MaxElems
    <2>0. i \in Int /\ i \in Nat /\ Start(i) \in Int /\ MaxElems \in Int /\ Start(i + 1) = Start(i) + c
        BY <1>2, <1>3
    <2>1. CASE i < k /\ ~(sw /\ i = k - 1)
        <3>1. i \in 0..(k - 1)
            BY <2>0, <2>1, <1>1
        <3>2. header[Start(i)].nElem = c
            BY <2>1, <3>1 DEF ChainOf, Taken
        <3>3. NextBlock(Start(i)) = Start(i + 1)
            BY <2>0, <3>2 DEF NextBlock
        <3>4. i + 1 < top \/ Start(i + 1) = MaxElems
            BY <2>0, <2>1, <1>1, <1>2 DEF Blocks
        <3>5. ~(i + 1 < top) => i + 1 = top
            BY <1>3
        <3>6. ~(i + 1 < top) => Start(i + 1) = MaxElems
            BY <3>4
        <3>7. QED BY <3>1, <3>3, <3>6, StartsIn
    <2>2. CASE i = k - 1 /\ sw
        <3>1. i \in 0..(k - 1) /\ top = k
            BY <2>2, <1>1 DEF Blocks
        <3>2. header[Start(i)].nElem = MaxElems - Start(i)
            BY <2>2 DEF ChainOf
        <3>3. NextBlock(Start(i)) = MaxElems
            BY <2>0, <3>2 DEF NextBlock
        <3>4. ~(i + 1 < top)
            <4>1. i = k - 1
                BY <2>2
            <4>2. k \in Int /\ i + 1 = k
                BY <4>1, <1>1
            <4>3. QED BY <4>2, <3>1
        <3>5. QED BY <3>1, <3>3, <3>4, StartsIn
    <2>3. CASE i = k
        <3>1. top = k + 1 /\ k < Units
            BY <2>3, <1>1 DEF Blocks
        <3>2. header[Start(i)].nElem = MaxElems - Start(i)
            BY <2>3, <3>1 DEF ChainOf, Free
        <3>3. NextBlock(Start(i)) = MaxElems
            BY <2>0, <3>2 DEF NextBlock
        <3>4. ~(i + 1 < top)
            BY <2>3, <3>1, <1>1
        <3>5. QED BY <2>3, <3>1, <3>3, <3>4, StartsIn
    <2>4. i < k \/ i = k
        BY <1>1 DEF Blocks
    <2>5. QED BY <2>1, <2>2, <2>3, <2>4
<1>5. \A i \in 0..top : P[i] = IF i < top THEN Start(i) ELSE MaxElems
    OBVIOUS
<1>6. P \in [0..top -> Int]
    <2>1. \A i \in 0..top : P[i] \in Int
        BY <1>2, <1>3, <1>5
    <2>2. QED BY <2>1
<1> HIDE DEF P, top
<1>7. P[0] = 0 /\ P[top] = MaxElems
    <2>1. 0 \in 0..top /\ top \in 0..top /\ 0 < top
        BY <1>3
    <2>2. QED BY <2>1, <1>2, <1>3, <1>5
<1>8. \A i \in 0..(top - 1) : P[i] \in At /\ NextBlock(P[i]) = P[i + 1] /\ P[i] = Start(i)
    <2> TAKE i \in 0..(top - 1)
    <2>1. i \in 0..top /\ i + 1 \in 0..top /\ i < top
        BY <1>3
    <2>2. P[i] = Start(i) /\ P[i + 1] = IF i + 1 < top THEN Start(i + 1) ELSE MaxElems
        BY <2>1, <1>5
    <2>3. QED BY <2>2, <1>4
<1>9. P[top] \notin At
    BY <1>2, <1>7, StartsIn
<1>10. Chained = {P[i] : i \in 0..(top - 1)}
    BY <1>3, <1>6, <1>7, <1>8, <1>9, ChainWalked
<1>11. Chained = {Start(i) : i \in 0..(top - 1)}
    BY <1>8, <1>10
<1>12. top \in 0..Units
    BY <1>1, <1>3
<1>13. QED BY <1>4, <1>11, <1>12 DEF top

\* The user returns the i-th of k blocks, b.
Returns(k, sw, i, b, h) ==
    /\ ChainOf(header, k, sw) /\ b = Start(i) /\ ~(sw /\ i = k - 1)
    /\ h = [header EXCEPT ![b].bAlloc = FALSE]

\* What is free in the headers, apart from the block in use at Start(i) that
\* is given back: the rest, whose end is the end of the buffer.
LEMMA GivenBack ==
    ASSUME c \in Nat \ {0}, NEW k \in 0..Units, NEW sw \in BOOLEAN, NEW i \in 0..(k - 1),
           NEW b, NEW h, Returns(k, sw, i, b, h)
    PROVE  /\ b \in At /\ h[b] = Free(c) /\ \A s \in At : s # b => h[s] = header[s]
           /\ IF i + 1 = k /\ k < Units
              THEN b + c \in At /\ b + c # b /\ h[b + c] = Free(MaxElems - (b + c))
              ELSE b + c = MaxElems \/ (b + c \in At /\ h[b + c].bAlloc /\ b + c # b)
           /\ b - c < 0 \/ (b - c \in At /\ h[b - c].bAlloc)
           /\ \A s \in At : ~h[s].bAlloc /\ h[s].nElem # 0 =>
                  s = b \/ (k < Units /\ s = Start(k) /\ s # b /\ h[s].nElem = MaxElems - s)
<1>1. /\ Units \in Nat \ {0} /\ k \in Nat /\ k <= Units /\ i \in Nat /\ i < k /\ i \in 0..k
      /\ sw => k < Units
    BY MultiAssumption DEF Returns, ChainOf
<1>r. /\ ChainOf(header, k, sw) /\ b = Start(i) /\ ~(sw /\ i = k - 1)
      /\ h = [header EXCEPT ![b].bAlloc = FALSE]
    BY DEF Returns
<1>2. /\ header \in [At -> [bAlloc : BOOLEAN, nElem : Nat]]
      /\ header[b] = Taken
      /\ \A j \in 0..(k - 1) : header[Start(j)].bAlloc
      /\ k < Units => header[Start(k)] = Free(MaxElems - Start(k))
      /\ \A s \in At : (\A j \in 0..k : s # Start(j)) => header[s] = Free(0)
    <2>1. header[b] = Taken /\ \A j \in 0..(k - 1) : header[Start(j)].bAlloc
        BY <1>r, CarvedTaken
    <2>2. QED BY <2>1, <1>r DEF ChainOf
<1>3. /\ \A j \in 0..(k - 1) : Start(j) \in At
      /\ k < Units => Start(k) \in At
      /\ \A j, l \in 0..k : Start(j) = Start(l) => j = l
    BY StartsIn
<1>4. b \in At
    BY <1>3, <1>r
<1>5. h[b] = Free(c) /\ \A s \in At : s # b => h[s] = header[s]
    <2>1. header[b].nElem = c /\ DOMAIN header = At
        BY <1>2, <1>4 DEF Taken
    <2>3. h[b] = [header[b] EXCEPT !.bAlloc = FALSE]
        BY <2>1, <1>4, <1>r
    <2>4. h[b] = Free(c)
        <3>1. PICK r \in [bAlloc : BOOLEAN, nElem : Nat] : r = header[b]
            BY <1>2, <1>4
        <3>2. [r EXCEPT !.bAlloc = FALSE] \in [bAlloc : BOOLEAN, nElem : Nat]
            OBVIOUS
        <3>3. [r EXCEPT !.bAlloc = FALSE].bAlloc = FALSE /\ [r EXCEPT !.bAlloc = FALSE].nElem = r.nElem
            OBVIOUS
        <3>4. h[b] = [r EXCEPT !.bAlloc = FALSE] /\ r.nElem = c
            BY <2>1, <2>3, <3>1
        <3>5. QED BY <3>2, <3>3, <3>4 DEF Free
    <2>5. \A s \in At : s # b => h[s] = header[s]
        BY <2>1, <1>4, <1>r
    <2>6. QED BY <2>4, <2>5
<1>6. /\ b \in Int /\ Start(i + 1) = b + c /\ Start(i - 1) = b - c /\ Start(0) = 0
      /\ MaxElems = Start(Units) /\ b + c # b /\ b - c # b
    <2>1. b \in Int /\ Start(i + 1) = b + c
        BY <1>1, <1>r, Starts
    <2>2. Start((i - 1) + 1) = Start(i - 1) + c /\ Start(i - 1) \in Int
        <3>1. i - 1 \in Int
            BY <1>1
        <3>2. \A j \in Int : Start(j) \in Int /\ Start(j + 1) = Start(j) + c
            BY Starts
        <3>3. QED BY <3>1, <3>2
    <2>3. (i - 1) + 1 = i
        BY <1>1
    <2>4. Start(i - 1) = b - c
        BY <2>1, <2>2, <2>3, <1>r
    <2>5. Start(0) = 0 /\ MaxElems = Start(Units)
        BY Starts
    <2>6. b + c # b /\ b - c # b
        BY <2>1
    <2>7. QED BY <2>1, <2>4, <2>5, <2>6
<1>7. IF i + 1 = k /\ k < Units
      THEN b + c \in At /\ b + c # b /\ h[b + c] = Free(MaxElems - (b + c))
      ELSE b + c = MaxElems \/ (b + c \in At /\ h[b + c].bAlloc /\ b + c # b)
    <2>1. CASE i + 1 < k
        <3>1. i + 1 \in 0..(k - 1)
            BY <2>1, <1>1
        <3>2. b + c \in At /\ header[b + c].bAlloc
            BY <3>1, <1>2, <1>3, <1>6
        <3>3. QED BY <2>1, <3>2, <1>1, <1>5, <1>6
    <2>2. CASE i + 1 = k /\ k < Units
        <3>1. b + c \in At /\ header[b + c] = Free(MaxElems - (b + c))
            BY <2>2, <1>2, <1>3, <1>6
        <3>2. QED BY <2>2, <3>1, <1>5, <1>6
    <2>3. CASE i + 1 = k /\ k = Units
        BY <2>3, <1>6
    <2>4. QED BY <2>1, <2>2, <2>3, <1>1
<1>8. b - c < 0 \/ (b - c \in At /\ h[b - c].bAlloc)
    <2>1. CASE i = 0
        <3>1. b = 0
            BY <2>1, <1>6, <1>r
        <3>2. QED BY <3>1
    <2>2. CASE i > 0
        <3>1. i - 1 \in 0..(k - 1)
            BY <2>2, <1>1
        <3>2. b - c \in At /\ header[b - c].bAlloc
            BY <3>1, <1>2, <1>3, <1>6
        <3>3. QED BY <3>2, <1>5, <1>6
    <2>3. QED BY <2>1, <2>2, <1>1
<1>9. ASSUME NEW s \in At, ~h[s].bAlloc, h[s].nElem # 0, s # b
       PROVE  k < Units /\ s = Start(k) /\ h[s].nElem = MaxElems - s
    <2>1. h[s] = header[s]
        BY <1>5, <1>9
    <2>2. PICK j \in 0..k : s = Start(j)
        BY <1>2, <2>1, <1>9 DEF Free
    <2>3. j = k
        <3>1. j \in 0..(k - 1) => header[s].bAlloc
            BY <1>2, <2>2
        <3>2. QED BY <3>1, <2>1, <2>2, <1>1, <1>9
    <2>4. k < Units
        <3>1. k = Units => s \notin At
            BY <2>2, <2>3, StartsIn
        <3>2. QED BY <3>1, <1>1
    <2>5. QED BY <1>2, <2>1, <2>2, <2>3, <2>4 DEF Free
<1>10. QED BY <1>4, <1>5, <1>7, <1>8, <1>9

\* A block that begins where a free one ends lies behind the one given back.
LEMMA GivenBackBefore ==
    ASSUME c \in Nat \ {0}, NEW k \in 0..Units, NEW sw \in BOOLEAN, NEW i \in 0..(k - 1),
           NEW b, NEW h, Returns(k, sw, i, b, h),
           NEW s \in At, h[s].nElem # 0, s - h[s].nElem >= 0, ~h[s - h[s].nElem].bAlloc
    PROVE  s - h[s].nElem = b
<1>1. Units \in Nat \ {0} /\ k \in Nat /\ k <= Units /\ (sw => 0 < k /\ k < Units)
    BY MultiAssumption DEF Returns, ChainOf
<1>2. /\ \A j \in 0..(k - 1) : ~(sw /\ j = k - 1) => header[Start(j)] = Taken
      /\ \A j \in 0..(k - 1) : header[Start(j)].bAlloc /\ Start(j) \in At
      /\ sw => header[Start(k - 1)].nElem = MaxElems - Start(k - 1)
      /\ k < Units => header[Start(k)] = Free(MaxElems - Start(k))
      /\ \A r \in At : (\A j \in 0..k : r # Start(j)) => header[r] = Free(0)
    <2>1. ChainOf(header, k, sw)
        BY DEF Returns
    <2>2. \A j \in 0..(k - 1) : header[Start(j)].bAlloc
        BY <2>1, CarvedTaken
    <2>3. \A j \in 0..(k - 1) : Start(j) \in At
        BY StartsIn
    <2>4. sw => header[Start(k - 1)].nElem = MaxElems - Start(k - 1)
        BY <2>1 DEF ChainOf
    <2>5. QED BY <2>1, <2>2, <2>3, <2>4 DEF ChainOf
<1>3. b \in At /\ h[b] = Free(c) /\ \A r \in At : r # b => h[r] = header[r]
    BY GivenBack
<1>b. i \in 0..k /\ b = Start(i) /\ ~(sw /\ i = k - 1)
    BY <1>1 DEF Returns
<1>4. /\ \A j \in Int : Start(j) \in Int
      /\ \A j, l \in Int : Start(j) - Start(l) = Start(j - l)
      /\ \A j, l \in Int : j < l => Start(j) + c <= Start(l)
      /\ Start(0) = 0 /\ MaxElems = Start(Units)
    BY Starts
<1>5. \A j \in 0..(k - 1) : ~h[Start(j)].bAlloc => Start(j) = b
    BY <1>2, <1>3
<1>6. \A j \in Int : Start(j) >= 0 => j >= 0
    <2> TAKE j \in Int
    <2>1. j < 0 => Start(j) + c <= 0 /\ Start(j) \in Int
        <3>1. 0 \in Int /\ (j < 0 => Start(j) + c <= Start(0)) /\ Start(j) \in Int
            <4>1. \A l \in Int : j < l => Start(j) + c <= Start(l)
                BY <1>4
            <4>2. 0 \in Int /\ Start(j) \in Int
                BY <1>4
            <4>3. QED BY <4>1, <4>2
        <3>2. QED BY <3>1, <1>4
    <2>2. QED BY <2>1
<1>7. PICK j \in 0..k : s = Start(j)
    <2>1. (\A j \in 0..k : s # Start(j)) => s = b \/ h[s] = Free(0)
        BY <1>2, <1>3
    <2>2. QED BY <2>1, <1>b DEF Free
\* A block as long as all there is behind it.
<1>r. ASSUME s # b, j < Units, header[s].nElem = MaxElems - Start(j)
      PROVE  \E m \in Int : s - h[s].nElem = Start(m) /\ m < j
    <2>1. h[s].nElem = Start(Units) - Start(j)
        BY <1>r, <1>3, <1>4
    <2>2. Start(Units) - Start(j) = Start(Units - j) /\ Units - j \in Int /\ j \in Int
        BY <1>1, <1>4
    <2>3. Start(j) - Start(Units - j) = Start(j - (Units - j))
        BY <2>2, <1>4
    <2>4. j - (Units - j) \in Int /\ j - (Units - j) < j
        BY <1>1, <1>r
    <2>5. QED BY <2>1, <2>2, <2>3, <2>4, <1>7
<1>8. PICK m \in Int : s - h[s].nElem = Start(m) /\ m < k
    <2>1. CASE j < k /\ ~(sw /\ j = k - 1)
        <3>1. j \in 0..(k - 1)
            BY <2>1, <1>1
        <3>2. h[s].nElem = c
            BY <2>1, <3>1, <1>2, <1>3, <1>7 DEF Taken, Free
        <3>3. Start(1) = c
            BY DEF Start
        <3>4. s - c = Start(j - 1)
            BY <3>1, <3>3, <1>4, <1>7
        <3>5. j - 1 \in Int /\ j - 1 < k
            BY <3>1, <1>1
        <3>6. QED BY <3>2, <3>4, <3>5
    <2>2. CASE j = k - 1 /\ sw
        <3>1. s # b
            <4>1. s = b => j = i
                BY <1>7, <1>b, StartsIn
            <4>2. QED BY <2>2, <4>1, <1>b
        <3>2. j < Units /\ header[s].nElem = MaxElems - Start(j)
            BY <2>2, <1>1, <1>2, <1>7
        <3>3. PICK m \in Int : s - h[s].nElem = Start(m) /\ m < j
            BY <3>1, <3>2, <1>r
        <3>4. m < k
            BY <2>2, <3>3, <1>1
        <3>5. QED BY <3>3, <3>4
    <2>3. CASE j = k
        <3>1. k < Units
            <4>1. k = Units => s \notin At
                BY <2>3, <1>7, StartsIn
            <4>2. QED BY <4>1, <1>1
        <3>2. s # b
            <4>1. k \in 0..k /\ i # k
                BY <1>1
            <4>2. QED BY <2>3, <4>1, <1>b, <1>7, StartsIn
        <3>3. j < Units /\ header[s].nElem = MaxElems - Start(j)
            BY <2>3, <3>1, <1>2, <1>7 DEF Free
        <3>4. QED BY <2>3, <3>2, <3>3, <1>r
    <2>4. QED BY <2>1, <2>2, <2>3, <1>1
<1>9. m \in 0..(k - 1)
    BY <1>1, <1>6, <1>8
<1>10. QED BY <1>5, <1>8, <1>9

\* A block given back meets a block in use or the beginning in front of it; it
\* is merged with the rest if that lies behind it, and else with nothing.
LEMMA MergedWithRest ==
    ASSUME c \in Nat \ {0}, NEW k \in 0..Units, NEW sw \in BOOLEAN, NEW i \in 0..(k - 1),
           NEW b, NEW h, Returns(k, sw, i, b, h)
    PROVE  /\ FreeRun(h, b) = IF i + 1 = k /\ k < Units THEN MaxElems - b ELSE c
           /\ MergeBack(h, b) = [start |-> b, n |-> 0]
<1>1. /\ b \in At /\ h[b] = Free(c)
      /\ h \in [At -> [bAlloc : BOOLEAN, nElem : Nat]]
    <2>1. b \in At /\ h[b] = Free(c)
        BY GivenBack
    <2>2. h \in [At -> [bAlloc : BOOLEAN, nElem : Nat]]
        <3>1. header \in [At -> [bAlloc : BOOLEAN, nElem : Nat]]
            BY DEF ChainOf, Returns
        <3>2. \A s \in At : s # b => h[s] = header[s]
            BY GivenBack
        <3>3. Free(c) \in [bAlloc : BOOLEAN, nElem : Nat]
            BY DEF Free
        <3>4. \A s \in At : h[s] \in [bAlloc : BOOLEAN, nElem : Nat]
            BY <2>1, <3>1, <3>2, <3>3
        <3>5. h = [s \in At |-> h[s]]
            BY <3>1 DEF Returns
        <3>6. QED BY <3>4, <3>5
    <2>3. QED BY <2>1, <2>2
<1> DEFINE last == i + 1 = k /\ k < Units
           rest == IF last THEN MaxElems - (b + c) ELSE 0
<1>2. IF last THEN b + c \in At /\ b + c # b /\ h[b + c] = Free(MaxElems - (b + c))
              ELSE b + c = MaxElems \/ (b + c \in At /\ h[b + c].bAlloc /\ b + c # b)
    BY GivenBack
<1>3. b - c < 0 \/ (b - c \in At /\ h[b - c].bAlloc)
    BY GivenBack
<1>4. \A s \in At : ~h[s].bAlloc /\ h[s].nElem # 0 =>
          s = b \/ (k < Units /\ s = Start(k) /\ s # b /\ h[s].nElem = MaxElems - s)
    BY GivenBack
<1>5. /\ MaxElems \in Nat /\ At = 0..(MaxElems - 1) /\ \A s \in At : s \in Nat /\ h[s].nElem \in Nat
      /\ \A s \in 0..MaxElems : s = MaxElems \/ s \in At
    <2>1. MaxElems = Start(Units) /\ Start(Units) \in Int /\ Units <= Start(Units) /\ Units \in Nat
        BY Starts, MultiAssumption
    <2>2. MaxElems \in Nat /\ At = 0..(MaxElems - 1)
        BY <2>1 DEF At
    <2>3. \A s \in At : h[s].nElem \in Nat
        BY <1>1
    <2>4. QED BY <2>2, <2>3
<1>6. h[b].nElem = c /\ ~h[b].bAlloc /\ b \in 0..MaxElems /\ b # MaxElems
    BY <1>1, <1>5 DEF Free
<1>m. /\ b + c \in 0..MaxElems /\ rest \in Nat /\ b \in Nat
      /\ last => b + c \in At /\ ~h[b + c].bAlloc /\ h[b + c].nElem = rest /\ b + c + rest = MaxElems
                 /\ rest # 0 /\ c + rest = MaxElems - b
      /\ ~last => rest = 0 /\ (b + c = MaxElems \/ h[b + c].bAlloc)
    <2>1. b \in Nat /\ b + c \in 0..MaxElems
        BY <1>2, <1>5, <1>6
    <2>2. CASE last
        <3>1. b + c \in At /\ ~h[b + c].bAlloc /\ h[b + c].nElem = MaxElems - (b + c) /\ rest = MaxElems - (b + c)
            BY <2>2, <1>2 DEF Free
        <3> HIDE DEF rest, last
        <3>2. b + c < MaxElems /\ b + c \in Nat
            BY <3>1, <1>5
        <3>3. /\ rest \in Nat /\ b + c + rest = MaxElems
              /\ rest # 0 /\ c + rest = MaxElems - b
            <4>1. b \in Int /\ c \in Int /\ MaxElems \in Int /\ b + c < MaxElems
                BY <2>1, <3>2, <1>5
            <4>2. rest = MaxElems - (b + c)
                BY <3>1
            <4>3. QED BY <4>1, <4>2
        <3>4. QED BY <2>1, <2>2, <3>1, <3>3
    <2>3. CASE ~last
        BY <2>1, <2>3, <1>2
    <2>4. QED BY <2>2, <2>3
<1> HIDE DEF last, rest
<1>7. FreeRun(h, b) = c + rest
    <2> DEFINE Step(g) == [s \in 0..MaxElems |->
                   IF s = MaxElems \/ h[s].bAlloc \/ h[s].nElem = 0 THEN 0
                   ELSE h[s].nElem + g[s + h[s].nElem]]
               W == [s \in 0..MaxElems |->
                   IF s = MaxElems \/ h[s].bAlloc \/ h[s].nElem = 0 THEN 0
                   ELSE IF s = b THEN c + rest ELSE h[s].nElem]
               Run == CHOOSE g : g = Step(g)
    <2>1. \A s \in 0..MaxElems : s # MaxElems /\ ~h[s].bAlloc /\ h[s].nElem # 0 =>
              W[s] = h[s].nElem + W[s + h[s].nElem]
        <3> TAKE s \in 0..MaxElems
        <3> HAVE s # MaxElems /\ ~h[s].bAlloc /\ h[s].nElem # 0
        <3>1. s \in At /\ h[s].nElem \in Nat
            BY <1>5
        <3>2. W[MaxElems] = 0
            BY <1>5
        <3>3. CASE s = b
            <4>1. W[s] = c + rest /\ s + h[s].nElem = b + c
                BY <3>3, <1>6
            <4>2. W[b + c] = rest
                <5>1. CASE last
                    <6>1. b + c \in At /\ b + c \in 0..MaxElems /\ b + c # MaxElems /\ b + c # b
                        BY <5>1, <1>m, <1>5
                    <6>2. QED BY <5>1, <6>1, <1>m
                <5>2. CASE ~last
                    BY <5>2, <1>m
                <5>3. QED BY <5>1, <5>2
            <4>3. QED BY <3>3, <4>1, <4>2, <1>6
        <3>4. CASE s # b /\ h[s].nElem = MaxElems - s
            <4>1. s + h[s].nElem = MaxElems
                <5>1. \A x, y \in Int : x + (y - x) = y
                    OBVIOUS
                <5>2. s \in Int /\ MaxElems \in Int
                    BY <3>1, <1>5
                <5>3. QED BY <3>4, <5>1, <5>2
            <4>2. W[s] = h[s].nElem
                BY <3>4
            <4>3. QED BY <3>1, <3>2, <4>1, <4>2
        <3>5. QED BY <3>1, <3>3, <3>4, <1>4
    <2>2. \A s \in 0..MaxElems : s = MaxElems \/ h[s].bAlloc \/ h[s].nElem = 0 => W[s] = 0
        OBVIOUS
    <2>3. W = [s \in 0..MaxElems |-> W[s]]
        OBVIOUS
    <2> HIDE DEF W
    <2>4. \A s \in 0..MaxElems :
              W[s] = IF s = MaxElems \/ h[s].bAlloc \/ h[s].nElem = 0 THEN 0
                     ELSE h[s].nElem + W[s + h[s].nElem]
        BY <2>1, <2>2
    <2>5. W = Step(W)
        BY <2>3, <2>4
    <2>6. Run = Step(Run)
        BY <2>5
    <2> HIDE DEF Run
    <2>7. Run[b] = c + Run[b + c]
        BY <2>6, <1>6
    <2>a. \A s \in 0..MaxElems :
              Run[s] = IF s = MaxElems \/ h[s].bAlloc \/ h[s].nElem = 0 THEN 0
                       ELSE h[s].nElem + Run[s + h[s].nElem]
        BY <2>6
    <2>8. Run[b + c] = rest
        <3>1. CASE last
            <4>1. b + c \in 0..MaxElems /\ b + c # MaxElems /\ MaxElems \in 0..MaxElems
                BY <3>1, <1>m, <1>5
            <4>2. Run[MaxElems] = 0
                BY <2>a, <4>1
            <4>3. Run[b + c] = rest + Run[MaxElems]
                BY <3>1, <4>1, <1>m, <2>a
            <4>4. QED BY <4>2, <4>3, <1>m
        <3>2. CASE ~last
            BY <3>2, <1>m, <2>a
        <3>3. QED BY <3>1, <3>2
    <2>9. FreeRun(h, b) = Run[b]
        BY DEF FreeRun, Run
    <2>10. QED BY <2>7, <2>8, <2>9
<1>8. MergeBack(h, b) = [start |-> b, n |-> 0]
    <2> DEFINE Ends(s) == s - h[s].nElem < 0 \/ h[s - h[s].nElem].bAlloc
               Step(g) == [s \in At |->
                   LET prev == s - h[s].nElem
                   IN  IF prev < 0 \/ h[prev].bAlloc THEN [start |-> s, n |-> 0]
                       ELSE [start |-> g[prev].start, n |-> g[prev].n + h[prev].nElem]]
               W == [s \in At |->
                   IF Ends(s) \/ h[s].nElem = 0 THEN [start |-> s, n |-> 0]
                   ELSE [start |-> b, n |-> c]]
               Back == CHOOSE g : g = Step(g)
    <2>1. Ends(b) /\ W[b] = [start |-> b, n |-> 0]
        BY <1>1, <1>6, <1>3
    <2>2. \A s \in At : ~Ends(s) /\ h[s].nElem # 0 => s - h[s].nElem = b
        <3> TAKE s \in At
        <3> HAVE ~Ends(s) /\ h[s].nElem # 0
        <3>1. s \in Nat /\ h[s].nElem \in Nat
            BY <1>5
        <3>2. s - h[s].nElem >= 0 /\ ~h[s - h[s].nElem].bAlloc
            BY <3>1
        <3>3. QED BY <3>2, GivenBackBefore
    <2>3. \A s \in At : W[s] = IF Ends(s) \/ h[s].nElem = 0 THEN [start |-> s, n |-> 0]
                               ELSE [start |-> b, n |-> c]
        OBVIOUS
    <2>4. W = [s \in At |-> W[s]]
        OBVIOUS
    <2> HIDE DEF W
    <2>5. \A s \in At : ~Ends(s) =>
              W[s] = [start |-> W[s - h[s].nElem].start,
                      n |-> W[s - h[s].nElem].n + h[s - h[s].nElem].nElem]
        <3> TAKE s \in At
        <3> HAVE ~Ends(s)
        <3>1. CASE h[s].nElem = 0
            <4>1. s - h[s].nElem = s
                BY <3>1, <1>5
            <4>2. W[s] = [start |-> s, n |-> 0]
                BY <3>1, <2>3
            <4>3. QED BY <3>1, <4>1, <4>2
        <3>2. CASE h[s].nElem # 0
            <4>1. s - h[s].nElem = b
                BY <3>2, <2>2
            <4>2. W[s] = [start |-> b, n |-> c]
                BY <3>2, <2>3
            <4>3. W[b].start = b /\ W[b].n + h[b].nElem = c
                BY <2>1, <1>6
            <4>4. QED BY <4>1, <4>2, <4>3
        <3>3. QED BY <3>1, <3>2
    <2>6. W = Step(W)
        <3>1. \A s \in At : Ends(s) => W[s] = [start |-> s, n |-> 0]
            BY <2>3
        <3>2. QED BY <2>4, <2>5, <3>1
    <2>7. Back = Step(Back)
        BY <2>6
    <2> HIDE DEF Back
    <2>8. Back[b] = [start |-> b, n |-> 0]
        BY <2>1, <2>7, <1>1
    <2>9. MergeBack(h, b) = Back[b]
        BY DEF MergeBack, Back
    <2>10. QED BY <2>8, <2>9
<1>9. FreeRun(h, b) = IF i + 1 = k /\ k < Units THEN MaxElems - b ELSE c
    BY <1>7, <1>m DEF last
<1>10. QED BY <1>8, <1>9

\* The buffer is one free block at first.
LEMMA MultiStarts == MultiInit => MultiIInv
<1> SUFFICES ASSUME MultiInit PROVE MultiIInv
    OBVIOUS
<1>1. c \in Nat \ {0} /\ Units \in Nat \ {0} /\ c * Units < SizeMod
    BY MultiAssumption DEF MultiInit
<1>2. /\ Start(0) = 0 /\ MaxElems = Start(Units) /\ Start(Units) \in Int /\ Units <= Start(Units)
      /\ MaxElems = c * Units
    BY <1>1, Starts DEF MaxElems
<1>3. /\ header = [b \in At |-> [bAlloc |-> FALSE, nElem |-> IF b = 0 THEN MaxElems ELSE 0]]
      /\ nBuffers = 0 /\ owned = {}
    BY DEF MultiInit
<1>4. 0 \in At /\ MaxElems \in Nat
    BY <1>1, <1>2 DEF At
<1>5. header \in [At -> [bAlloc : BOOLEAN, nElem : Nat]]
    BY <1>3, <1>4
<1>6. header[0] = Free(MaxElems) /\ \A s \in At : s # 0 => header[s] = Free(0)
    BY <1>3, <1>4 DEF Free
<1>7. 0 \in 0..0 /\ 0..(0 - 1) = {} /\ MaxElems - 0 = MaxElems
    BY <1>4
<1>8. ChainOf(header, 0, FALSE)
    BY <1>2, <1>5, <1>6, <1>7 DEF ChainOf
<1>9. Cardinality(owned) = 0
    BY <1>3, FS_EmptySet
<1>10. CarvedUpTo(0, FALSE)
    <2>1. nBuffers = Start(Cardinality(owned)) /\ owned = {}
        BY <1>2, <1>3, <1>9
    <2>2. nBuffers <= Start(0)
        BY <1>2, <1>3
    <2>3. QED BY <2>1, <2>2, <1>8 DEF CarvedUpTo
<1>11. 0 \in 0..Units /\ Start(Units) < SizeMod
    BY <1>1, <1>2
<1>12. QED BY <1>1, <1>10, <1>11 DEF MultiIInv

\* The next block is carved from the rest.
LEMMA MultiAllocateKeeps ==
    ASSUME MultiIInv, NEW b \in At, MultiAllocate(b)
    PROVE  MultiIInv'
<1>1. c \in Nat \ {0} /\ Start(Units) < SizeMod /\ Units \in Nat \ {0}
    BY MultiAssumption DEF MultiIInv
<1>2. PICK k \in 0..Units, sw \in BOOLEAN : CarvedUpTo(k, sw)
    BY DEF MultiIInv
<1>c. ChainOf(header, k, sw)
    BY <1>2 DEF CarvedUpTo
<1>4. /\ b \in Chained /\ ~header[b].bAlloc
      /\ header' = [s \in At |->
            CASE s = b -> [bAlloc |-> TRUE, nElem |-> c]
              [] s = b + c /\ header[b].nElem > c -> [bAlloc |-> FALSE, nElem |-> header[b].nElem - c]
              [] OTHER -> header[s]]
      /\ nBuffers' = nBuffers + c /\ owned' = owned \cup {b} /\ c' = c
    BY DEF MultiAllocate, Candidates
<1>5. ~sw /\ k < Units /\ b = Start(k)
    <2>1. \A i \in 0..(k - 1) : header[Start(i)].bAlloc
        BY <1>c DEF ChainOf, Taken
    <2>2. PICK i \in 0..(Blocks(k, sw) - 1) : b = Start(i)
        BY <1>1, <1>4, <1>c, ChainedStarts
    <2>3. ~(i \in 0..(k - 1))
        BY <2>1, <2>2, <1>4
    <2>4. QED BY <2>2, <2>3, <1>1 DEF Blocks
<1>3. /\ ChainOf(header, k, FALSE) /\ owned \subseteq {Start(i) : i \in 0..(k - 1)}
      /\ nBuffers = Start(Cardinality(owned)) /\ nBuffers <= Start(k)
    BY <1>2, <1>5 DEF CarvedUpTo
<1>6. /\ k \in Nat /\ k + 1 \in 0..Units /\ Start(k + 1) = b + c /\ b \in Nat
      /\ MaxElems = Start(Units) /\ MaxElems \in Int
    BY <1>1, <1>5, Starts
<1>7. header[b] = Free(MaxElems - b)
    BY <1>3, <1>5 DEF ChainOf
<1>8. k + 1 < Units => b + c < MaxElems
    <2>1. \A i, j \in Int : i < j => Start(i) + c <= Start(j)
        BY <1>1, Starts
    <2>2. k + 1 < Units => Start(k + 1) + c <= Start(Units)
        BY <2>1, <1>1, <1>6
    <2>3. QED BY <2>2, <1>1, <1>6
<1>9. k + 1 = Units => b + c = MaxElems
    BY <1>6
<1>10. header[b].nElem > c <=> k + 1 < Units
    BY <1>1, <1>5, <1>6, <1>7, <1>8, <1>9 DEF Free
<1>11. header'[b] = Taken /\ \A s \in At : s # b /\ s # b + c => header'[s] = header[s]
    <2>1. \A s \in At : s # b /\ s # b + c => header'[s] = header[s]
        BY <1>4
    <2>2. header'[b] = [bAlloc |-> TRUE, nElem |-> c]
        <3>1. \A s \in At : s = b => header'[s] = [bAlloc |-> TRUE, nElem |-> c]
            <4>1. b # b + c
                BY <1>1, <1>6
            <4>2. QED BY <4>1, <1>4
        <3>2. QED BY <3>1
    <2>3. QED BY <2>1, <2>2 DEF Taken
<1>12. k + 1 < Units => header'[b + c] = Free(MaxElems - (b + c))
    <2> SUFFICES ASSUME k + 1 < Units PROVE header'[b + c] = Free(MaxElems - (b + c))
        OBVIOUS
    <2>1. b + c \in At /\ b + c # b /\ header[b].nElem > c
        BY <1>1, <1>6, <1>8, <1>10 DEF At
    <2>2. header[b].nElem - c = MaxElems - (b + c)
        BY <1>1, <1>6, <1>7 DEF Free
    <2>3. QED BY <2>1, <2>2, <1>4 DEF Free
<1>13. ChainOf(header', k + 1, FALSE)
    <2>1. header' \in [At -> [bAlloc : BOOLEAN, nElem : Nat]]
        <3>1. \A s \in At : header'[s] \in [bAlloc : BOOLEAN, nElem : Nat]
            <4> TAKE s \in At
            <4>1. header[s] \in [bAlloc : BOOLEAN, nElem : Nat]
                BY <1>3 DEF ChainOf
            <4>2. CASE s = b
                BY <4>2, <1>1, <1>11 DEF Taken
            <4>3. CASE s = b + c
                <5>1. k + 1 < Units
                    <6>1. s \in Int /\ s < MaxElems
                        BY <1>6 DEF At
                    <6>2. QED BY <4>3, <6>1, <1>1, <1>5, <1>6, <1>9
                <5>2. MaxElems - (b + c) \in Nat
                    <6>1. b + c < MaxElems /\ b + c \in Int /\ MaxElems \in Int
                        BY <5>1, <1>1, <1>6, <1>8
                    <6>2. \A x, y \in Int : x < y => y - x \in Nat
                        OBVIOUS
                    <6>3. QED BY <6>1, <6>2
                <5>3. Free(MaxElems - (b + c)) \in [bAlloc : BOOLEAN, nElem : Nat]
                    BY <5>2 DEF Free
                <5>4. QED BY <4>3, <5>1, <5>3, <1>12
            <4>4. QED BY <4>1, <4>2, <4>3, <1>11
        <3>2. header' = [s \in At |-> header'[s]]
            BY <1>4
        <3>3. QED BY <3>1, <3>2
    <2>2. \A i \in 0..k : header'[Start(i)] = Taken
        <3> TAKE i \in 0..k
        <3>1. CASE i = k
            BY <3>1, <1>5, <1>11
        <3>2. CASE i \in 0..(k - 1)
            <4>1. Start(i) \in At /\ Start(i) + c <= b /\ Start(i) \in Int
                <5>1. Start(i) \in At /\ Start(i) + c <= Start(k)
                    BY <3>2, <1>1, StartsIn
                <5>2. \A s \in At : s \in Int
                    BY DEF At
                <5>3. QED BY <5>1, <5>2, <1>5
            <4>2. header[Start(i)] = Taken
                BY <3>2, <1>3 DEF ChainOf
            <4>3. Start(i) # b /\ Start(i) # b + c
                BY <4>1, <1>1, <1>6
            <4>4. QED BY <4>1, <4>2, <4>3, <1>11
        <3>3. QED BY <3>1, <3>2, <1>6
    <2>3. k + 1 < Units => header'[Start(k + 1)] = Free(MaxElems - Start(k + 1))
        BY <1>6, <1>12
    <2>4. \A s \in At : (\A i \in 0..(k + 1) : s # Start(i)) => header'[s] = Free(0)
        <3> TAKE s \in At
        <3> HAVE \A i \in 0..(k + 1) : s # Start(i)
        <3>1. s # b /\ s # b + c /\ \A i \in 0..k : s # Start(i)
            BY <1>5, <1>6
        <3>2. header[s] = Free(0)
            BY <3>1, <1>3 DEF ChainOf
        <3>3. QED BY <3>1, <3>2, <1>11
    <2>5. (k + 1) - 1 = k
        BY <1>6
    <2>6. QED BY <2>1, <2>2, <2>3, <2>4, <2>5 DEF ChainOf
<1>14. b \notin owned /\ IsFiniteSet(owned)
    <2>1. \A i \in 0..(k - 1) : Start(i) # b
        BY <1>1, <1>5, <1>6, StartsIn
    <2>2. owned \subseteq At
        BY <1>1, <1>3, StartsIn
    <2>3. IsFiniteSet(At)
        BY <1>6, FS_Interval DEF At
    <2>4. QED BY <2>1, <2>2, <2>3, <1>3, FS_Subset
<1>15. /\ nBuffers' = Start(Cardinality(owned')) /\ nBuffers' <= Start(k + 1)
    <2>1. Cardinality(owned') = Cardinality(owned) + 1 /\ Cardinality(owned) \in Nat
        BY <1>4, <1>14, FS_AddElement, FS_CardinalityType
    <2>2. Start(Cardinality(owned) + 1) = Start(Cardinality(owned)) + c /\ Start(Cardinality(owned)) \in Int
        BY <2>1, <1>1, Starts
    <2>3. nBuffers \in Int /\ nBuffers + c <= b + c
        BY <2>2, <1>1, <1>3, <1>5, <1>6
    <2>4. QED BY <2>1, <2>2, <2>3, <1>3, <1>4, <1>6
<1>16. owned' \subseteq {Start(i) : i \in 0..k}
    <2>1. \A i \in 0..(k - 1) : i \in 0..k
        BY <1>6
    <2>2. k \in 0..k
        BY <1>6
    <2>3. QED BY <2>1, <2>2, <1>3, <1>4, <1>5
<1>17. CarvedUpTo(k + 1, FALSE)'
    <2>1. \A i : Start(i)' = Start(i)
        BY <1>4 DEF Start
    <2>2. At' = At /\ MaxElems' = MaxElems /\ Taken' = Taken
        BY <1>4 DEF At, MaxElems, Taken
    <2>3. ChainOf(header, k + 1, FALSE)'
        BY <2>1, <2>2, <1>13 DEF ChainOf, Free
    <2>4. (k + 1) - 1 = k
        BY <1>6
    <2>5. QED BY <2>1, <2>3, <2>4, <1>15, <1>16 DEF CarvedUpTo
<1>18. QED BY <1>1, <1>4, <1>6, <1>17 DEF MultiIInv, Start

\* What was added before the remainder was taken can be taken off after it.
LEMMA ModTakesBack ==
    ASSUME NEW x \in Int, NEW d \in Int, NEW M \in Nat, M > 0
    PROVE  (((x + d) % M) - d) % M = x % M
<1> DEFINE y == x + d
           q == y \div M
           r == y % M
<1>1. y \in Int /\ q \in Int /\ r \in Int /\ y = M * q + r
    OBVIOUS
<1>2. r - d = x - M * q
    BY <1>1
<1> HIDE DEF y, q, r
<1>3. (x - M * q) % M = x % M
    <2> DEFINE e == x \div M
               t == x % M
               k == e - q
               z == x - M * q
    <2>1. e \in Int /\ t \in 0..(M - 1) /\ x = M * e + t
        OBVIOUS
    <2>2. k \in Int /\ z \in Int /\ M * k = M * e - M * q
        BY <1>1, <2>1
    <2>3. z = M * k + t
        BY <1>1, <2>1, <2>2
    <2> HIDE DEF e, t, k, z
    <2>4. z % M = t
        BY <2>1, <2>2, <2>3
    <2>5. QED BY <2>4 DEF z, t
<1>4. QED BY <1>2, <1>3 DEF r, y

LEMMA AtFinite == ASSUME c \in Nat \ {0} PROVE IsFiniteSet(At) /\ \A i \in Int : Start(i) \in Int
<1>1. \A i \in Int : Start(i) \in Int
    BY Starts
<1>2. Units \in Int
    BY MultiAssumption
<1>3. 0 \in Int /\ Start(Units) - 1 \in Int
    BY <1>1, <1>2
<1>4. At = 0..(Start(Units) - 1)
    BY Starts
<1>5. QED BY <1>1, <1>3, <1>4, FS_Interval

\* A block comes back as the block it was, or with the rest behind it: either
\* way it stays marked allocated.
LEMMA MultiDeallocateKeeps ==
    ASSUME MultiIInv, NEW b \in At, MultiDeallocate(b)
    PROVE  MultiIInv'
<1>1. c \in Nat \ {0} /\ Start(Units) < SizeMod /\ Units \in Nat \ {0}
    BY MultiAssumption DEF MultiIInv
<1>2. PICK k \in 0..Units, sw \in BOOLEAN : CarvedUpTo(k, sw)
    BY DEF MultiIInv
<1>3. /\ ChainOf(header, k, sw) /\ owned \subseteq {Start(i) : i \in 0..(k - 1)}
      /\ sw => Start(k - 1) \notin owned
    BY <1>2 DEF CarvedUpTo
<1>4. PICK h : h = [header EXCEPT ![b].bAlloc = FALSE]
    OBVIOUS
<1>5. /\ b \in owned
      /\ header' = [h EXCEPT ![MergeBack(h, b).start] =
                        [bAlloc |-> TRUE, nElem |-> FreeRun(h, b) + MergeBack(h, b).n]]
      /\ nBuffers' = (nBuffers - (FreeRun(h, b) + MergeBack(h, b).n)) % SizeMod
      /\ owned' = owned \ {b} /\ c' = c
    BY <1>4 DEF MultiDeallocate
<1>6. PICK i \in 0..(k - 1) : b = Start(i)
    BY <1>3, <1>5
<1>7. Returns(k, sw, i, b, h)
    BY <1>3, <1>4, <1>5, <1>6 DEF Returns
<1> DEFINE merged == i + 1 = k /\ k < Units
           n == IF merged THEN MaxElems - b ELSE c
           m == Cardinality(owned')
<1>8. FreeRun(h, b) = n /\ MergeBack(h, b) = [start |-> b, n |-> 0]
    BY <1>1, <1>7, MergedWithRest
<1>9. /\ MaxElems = Start(Units) /\ Start(Units) \in Int /\ Start(k) \in Int /\ b \in Int
      /\ Start(i + 1) = b + c /\ Start(k) <= Start(Units) /\ n \in Int
    <2>1. k \in Int /\ Units \in Int /\ i \in Int
        BY <1>1
    <2>2. MaxElems = Start(Units) /\ \A j \in Int : Start(j) \in Int /\ Start(j + 1) = Start(j) + c
        BY <1>1, Starts
    <2>3. Start(k) <= Start(Units)
        BY <1>1, StartsIn
    <2>4. n \in Int
        BY <2>1, <2>2, <1>1, <1>6
    <2>5. QED BY <2>1, <2>2, <2>3, <2>4, <1>6
<1> HIDE DEF n
<1>10. header' = [h EXCEPT ![b] = [bAlloc |-> TRUE, nElem |-> n]] /\ nBuffers' = (nBuffers - n) % SizeMod
    <2>1. MergeBack(h, b).start = b /\ FreeRun(h, b) + MergeBack(h, b).n = n
        BY <1>8, <1>9
    <2>2. QED BY <2>1, <1>5
<1>11. header' = [s \in At |-> IF s = b THEN [bAlloc |-> TRUE, nElem |-> n] ELSE header[s]]
    <2>1. header \in [At -> [bAlloc : BOOLEAN, nElem : Nat]]
        BY <1>3 DEF ChainOf
    <2>2. DOMAIN h = At /\ h = [s \in At |-> h[s]] /\ \A s \in At : s # b => h[s] = header[s]
        BY <2>1, <1>4
    <2>3. QED BY <2>2, <1>10
<1>12. Cardinality(owned) = m + 1 /\ m \in Nat /\ IsFiniteSet(owned)
    <2>1. owned \subseteq At
        BY <1>1, <1>3, StartsIn
    <2>2. IsFiniteSet(At)
        BY <1>1, AtFinite
    <2>3. IsFiniteSet(owned)
        BY <2>1, <2>2, FS_Subset
    <2>4. /\ Cardinality(owned) \in Nat /\ Cardinality(owned') = Cardinality(owned) - 1
          /\ Cardinality(owned') \in Nat
        BY <2>3, <1>5, FS_RemoveElement, FS_CardinalityType
    <2>5. QED BY <2>3, <2>4
<1> HIDE DEF m
<1>13. Start(m + 1) = Start(m) + c /\ Start(m) \in Int /\ Start(m) >= 0
    <2>1. m \in Int
        BY <1>12
    <2>2. Start(m + 1) = Start(m) + c /\ Start(m) \in Int /\ m <= Start(m)
        BY <2>1, <1>1, <1>12, Starts
    <2>3. QED BY <2>2, <1>12
<1>14. SizeMod \in Nat /\ SizeMod > 0
    <2>1. Units <= Start(Units)
        BY <1>1, Starts
    <2>2. QED BY <2>1, <1>1, <1>9, MultiAssumption
<1>15. owned' \subseteq {Start(j) : j \in 0..(k - 1)}
    BY <1>3, <1>5
<1>p. \A j : Start(j)' = Start(j)
    BY <1>5 DEF Start
<1>q. At' = At /\ MaxElems' = MaxElems /\ Taken' = Taken
    BY <1>5 DEF At, MaxElems, Taken
\* Not next to the rest: the headers stay.
<1>16. CASE ~merged
    <2>1. n = c
        BY <1>16 DEF n
    <2>2. header' = header
        <3>1. header \in [At -> [bAlloc : BOOLEAN, nElem : Nat]] /\ header[b] = Taken
            BY <1>3, <1>6, <1>7 DEF ChainOf, Returns
        <3>2. \A s \in At : header'[s] = header[s]
            BY <3>1, <2>1, <1>11 DEF Taken
        <3>3. header = [s \in At |-> header[s]] /\ header' = [s \in At |-> header'[s]]
            BY <3>1, <1>11
        <3>4. QED BY <3>2, <3>3
    <2>3. IF sw THEN nBuffers' = (Start(m) - (MaxElems - Start(k))) % SizeMod
          ELSE nBuffers' = Start(m) /\ nBuffers' <= Start(k)
        <3>1. CASE sw
            <4>0. Start(Cardinality(owned)) = Start(m) + c
                BY <1>12, <1>13
            <4>1. nBuffers = (Start(m) + c - (MaxElems - Start(k))) % SizeMod
                <5>1. nBuffers = (Start(Cardinality(owned)) - (MaxElems - Start(k))) % SizeMod
                    BY <3>1, <1>2 DEF CarvedUpTo
                <5>2. QED BY <4>0, <5>1, <1>1, <1>9, <1>13
            <4> DEFINE x == Start(m) - (MaxElems - Start(k))
            <4>2. x \in Int /\ Start(m) + c - (MaxElems - Start(k)) = x + c
                BY <1>1, <1>9, <1>13
            <4> HIDE DEF x
            <4>3. nBuffers = (x + c) % SizeMod
                BY <4>1, <4>2
            <4>4. (((x + c) % SizeMod) - c) % SizeMod = x % SizeMod
                <5>1. x \in Int /\ c \in Int
                    BY <4>2, <1>1
                <5>2. QED BY <5>1, <1>14, ModTakesBack
            <4>5. QED BY <3>1, <4>3, <4>4, <2>1, <1>10 DEF x
        <3>2. CASE ~sw
            <4>1. nBuffers = Start(m) + c /\ nBuffers <= Start(k)
                BY <3>2, <1>2, <1>12, <1>13 DEF CarvedUpTo
            <4>2. nBuffers - c = Start(m) /\ Start(m) <= Start(k) /\ Start(m) < SizeMod
                BY <4>1, <1>1, <1>9, <1>13, MultiAssumption
            <4>3. Start(m) % SizeMod = Start(m)
                BY <4>2, <1>13, <1>14
            <4>4. QED BY <3>2, <4>2, <4>3, <2>1, <1>10
        <3>3. QED BY <3>1, <3>2
    <2>4. ChainOf(header, k, sw)'
        BY <2>2, <1>p, <1>q, <1>3 DEF ChainOf, Free
    <2>5. CarvedUpTo(k, sw)'
        BY <2>3, <2>4, <1>3, <1>5, <1>15, <1>p, <1>q DEF CarvedUpTo, m
    <2>6. QED BY <2>5, <1>1, <1>5 DEF MultiIInv, Start
\* Next to the rest, which it swallows.
<1>17. CASE merged
    <2>1. n = MaxElems - b /\ ~sw /\ i = k - 1 /\ k < Units /\ 0 < k /\ k \in Nat
        BY <1>1, <1>7, <1>17 DEF n, Returns
    <2>2. header'[b] = [bAlloc |-> TRUE, nElem |-> MaxElems - b] /\ \A s \in At : s # b => header'[s] = header[s]
        BY <2>1, <1>11
    <2>3. \A j, l \in 0..k : Start(j) = Start(l) => j = l
        BY <1>1, StartsIn
    <2>4. ChainOf(header', k, TRUE)
        <3>0. b + c = Start(k) /\ Start(k) < MaxElems
            <4>1. i + 1 = k
                BY <1>17
            <4>2. Start(k) \in At
                BY <2>1, <1>1, StartsIn
            <4>3. QED BY <4>1, <4>2, <1>9 DEF At
        <3>1. header' \in [At -> [bAlloc : BOOLEAN, nElem : Nat]]
            <4>1. MaxElems - b \in Nat
                BY <3>0, <1>1, <1>9
            <4>2. header \in [At -> [bAlloc : BOOLEAN, nElem : Nat]]
                BY <1>3 DEF ChainOf
            <4>3. ASSUME NEW s \in At
                  PROVE  header'[s] \in [bAlloc : BOOLEAN, nElem : Nat]
                <5>1. CASE s = b
                    BY <5>1, <4>1, <2>2
                <5>2. CASE s # b
                    BY <5>2, <4>2, <2>2
                <5>3. QED BY <5>1, <5>2
            <4>4. header' = [s \in At |-> header'[s]]
                BY <1>11
            <4>5. QED BY <4>3, <4>4
        <3>2. \A j \in 0..(k - 1) : j # k - 1 => header'[Start(j)] = Taken
            <4> TAKE j \in 0..(k - 1)
            <4> HAVE j # k - 1
            <4>1. header[Start(j)] = Taken /\ Start(j) \in At
                BY <2>1, <1>3, <1>1, StartsIn DEF ChainOf
            <4>2. Start(j) # b
                BY <2>1, <2>3, <1>6
            <4>3. QED BY <4>1, <4>2, <2>2
        <3>3. header'[Start(k - 1)] = [bAlloc |-> TRUE, nElem |-> MaxElems - Start(k - 1)]
            BY <2>1, <2>2, <1>6
        <3>4. header'[Start(k)] = Free(MaxElems - Start(k))
            <4>1. header[Start(k)] = Free(MaxElems - Start(k)) /\ Start(k) \in At
                BY <2>1, <1>1, <1>3, StartsIn DEF ChainOf
            <4>2. Start(k) # b
                BY <3>0, <1>1, <1>9
            <4>3. QED BY <4>1, <4>2, <2>2
        <3>5. \A s \in At : (\A j \in 0..k : s # Start(j)) => header'[s] = Free(0)
            <4> TAKE s \in At
            <4> HAVE \A j \in 0..k : s # Start(j)
            <4>1. s # b
                BY <2>1, <1>6
            <4>2. header[s] = Free(0)
                BY <1>3 DEF ChainOf
            <4>3. QED BY <4>1, <4>2, <2>2
        <3>6. QED BY <3>1, <3>2, <3>3, <3>4, <3>5, <2>1 DEF ChainOf
    <2>5. nBuffers' = (Start(m) - (MaxElems - Start(k))) % SizeMod
        <3>1. nBuffers = Start(m) + c
            BY <2>1, <1>2, <1>12, <1>13 DEF CarvedUpTo
        <3>2. Start(k) = b + c
            BY <1>9, <1>17
        <3>3. nBuffers - n = Start(m) - (MaxElems - Start(k))
            BY <2>1, <3>1, <3>2, <1>1, <1>9, <1>13
        <3>4. QED BY <3>3, <1>10
    <2>6. Start(k - 1) \notin owned'
        BY <2>1, <1>5, <1>6
    <2>7. ChainOf(header, k, TRUE)'
        BY <2>4, <1>p, <1>q DEF ChainOf, Free
    <2>8. CarvedUpTo(k, TRUE)'
        BY <2>5, <2>6, <2>7, <1>15, <1>p, <1>q DEF CarvedUpTo, m
    <2>9. QED BY <2>8, <1>1, <1>5 DEF MultiIInv, Start
<1>18. QED BY <1>16, <1>17

LEMMA MultiKeeps ==
    ASSUME MultiIInv, [MultiNext]_multiVars
    PROVE  MultiIInv'
<1>1. CASE \E b \in At : MultiAllocate(b) \/ MultiDeallocate(b)
    BY <1>1, MultiAllocateKeeps, MultiDeallocateKeeps
<1>2. CASE UNCHANGED multiVars
    <2>1. c' = c /\ header' = header /\ nBuffers' = nBuffers /\ owned' = owned
        BY <1>2 DEF multiVars
    <2>2. \A j : Start(j)' = Start(j)
        BY <2>1 DEF Start
    <2>3. At' = At /\ MaxElems' = MaxElems /\ Taken' = Taken
        BY <2>1 DEF At, MaxElems, Taken
    <2>4. ASSUME NEW k \in 0..Units, NEW sw \in BOOLEAN, CarvedUpTo(k, sw) PROVE CarvedUpTo(k, sw)'
        BY <2>1, <2>2, <2>3, <2>4 DEF CarvedUpTo, ChainOf, Free
    <2>5. QED BY <2>1, <2>2, <2>4 DEF MultiIInv
<1>3. QED BY <1>1, <1>2 DEF MultiNext

\* MultiIInv: whatever comes back and in whatever order, the buffer stays cut
\* into blocks of the user's size and one free rest, which goes to the block
\* in front of it when that one comes back.
THEOREM MultiInvariant == MultiSpec => []MultiIInv
<1>1. QED BY MultiStarts, MultiKeeps, PTL DEF MultiSpec

\* MultiInv: the headers chain over the whole buffer, blocks in use are on the
\* chain with the size asked for, and size() counts their elements, until a
\* block comes back in front of the free rest: then it is short of that rest,
\* and nothing is left to allocate.
THEOREM MultiInvHolds == MultiSpec => []MultiInv
<1>1. MultiIInv => MultiInv
    <2> SUFFICES ASSUME MultiIInv PROVE MultiInv
        OBVIOUS
    <2>1. c \in Nat \ {0} /\ Units \in Nat \ {0}
        BY MultiAssumption DEF MultiIInv
    <2>2. PICK k \in 0..Units, sw \in BOOLEAN : CarvedUpTo(k, sw)
        BY DEF MultiIInv
    <2>3. ChainOf(header, k, sw) /\ owned \subseteq {Start(i) : i \in 0..(k - 1)}
          /\ (sw => Start(k - 1) \notin owned)
        BY <2>2 DEF CarvedUpTo
    <2>4. k \in Nat /\ k <= Units /\ (sw => 0 < k /\ k < Units)
        BY <2>1, <2>3 DEF ChainOf
    <2> DEFINE top == Blocks(k, sw)
    <2>5. /\ top \in 0..Units
          /\ Chained = {Start(i) : i \in 0..(top - 1)}
          /\ \A i \in 0..(top - 1) :
                NextBlock(Start(i)) = IF i + 1 < top THEN Start(i + 1) ELSE MaxElems
        BY <2>1, <2>3, ChainedStarts
    <2>t. 0..(k - 1) \subseteq 0..(top - 1) /\ \A i \in 0..(top - 1) : i \in 0..(k - 1) \/ (i = k /\ k < Units /\ ~sw)
        BY <2>1, <2>4 DEF Blocks
    <2> HIDE DEF top
    <2>6. MaxElems = Start(Units) /\ Start(k) \in Int /\ Start(Units) \in Int
        BY <2>1, <2>4, Starts
    <2>7. \A b \in Chained : NextBlock(b) \in Chained \cup {MaxElems}
        <3>1. ASSUME NEW i \in 0..(top - 1) PROVE NextBlock(Start(i)) \in Chained \cup {MaxElems}
            <4>1. i + 1 < top => i + 1 \in 0..(top - 1)
                BY <2>1, <2>5
            <4>2. QED BY <4>1, <2>5
        <3>2. QED BY <3>1, <2>5
    <2>8. \A b \in owned : b \in Chained /\ header[b] = [bAlloc |-> TRUE, nElem |-> c]
        BY <2>3, <2>5, <2>t DEF ChainOf, Taken
    <2>r. \A i \in 0..k : i < Units => MaxElems - Start(i) >= c /\ MaxElems - Start(i) > 0
        <3>1. \A i, j \in Int : i < j => Start(i) + c <= Start(j)
            BY <2>1, Starts
        <3>2. \A i \in Int : Start(i) \in Int
            BY <2>1, Starts
        <3> TAKE i \in 0..k
        <3>3. i \in Int /\ Units \in Int
            BY <2>1
        <3>4. QED BY <3>1, <3>2, <3>3, <2>1, <2>6
    <2>9. \A b \in Chained : header[b].nElem > 0
        <3> TAKE b \in Chained
        <3>1. PICK i \in 0..(top - 1) : b = Start(i)
            BY <2>5
        <3>2. CASE i \in 0..(k - 1) /\ ~(sw /\ i = k - 1)
            BY <3>1, <3>2, <2>1, <2>3 DEF ChainOf, Taken
        <3>3. CASE i = k - 1 /\ sw
            <4>1. header[b].nElem = MaxElems - Start(k - 1)
                BY <3>1, <3>3, <2>3 DEF ChainOf
            <4>2. 0 < k /\ k < Units /\ k \in Nat
                BY <3>3, <2>4
            <4>3. k - 1 \in 0..k /\ k - 1 < Units
                BY <4>2, <2>1
            <4>4. QED BY <4>1, <4>3, <2>r
        <3>4. CASE i = k /\ k < Units /\ ~sw
            <4>1. header[b].nElem = MaxElems - Start(k) /\ k \in 0..k
                BY <3>1, <3>4, <2>3, <2>4 DEF ChainOf, Free
            <4>2. QED BY <3>4, <4>1, <2>r
        <3>5. QED BY <3>2, <3>3, <3>4, <2>t
    <2>10. c * Cardinality(owned) = Start(Cardinality(owned)) /\ Start(Cardinality(owned)) \in Int
        <3>1. owned \subseteq At
            BY <2>1, <2>3, StartsIn
        <3>2. IsFiniteSet(At)
            BY <2>1, AtFinite
        <3>3. Cardinality(owned) \in Nat
            BY <3>1, <3>2, FS_Subset, FS_CardinalityType
        <3>4. \A x, y \in Nat : x * y = y * x /\ y * x \in Int
            OBVIOUS
        <3>5. QED BY <3>3, <3>4, <2>1 DEF Start
    <2>e. MultiSizeExact
        <3>1. CASE ~sw
            <4>1. \A i \in 0..(top - 1) : ~(header[Start(i)].bAlloc /\ header[Start(i)].nElem > c)
                <5> TAKE i \in 0..(top - 1)
                <5>1. CASE i \in 0..(k - 1)
                    <6>1. header[Start(i)].nElem = c
                        BY <3>1, <5>1, <2>3 DEF ChainOf, Taken
                    <6>2. QED BY <6>1, <2>1
                <5>2. CASE i = k /\ k < Units
                    BY <5>2, <2>3 DEF ChainOf, Free
                <5>3. QED BY <5>1, <5>2, <2>t
            <4>2. Swollen = {}
                BY <4>1, <2>5 DEF Swollen
            <4>3. nBuffers = Start(Cardinality(owned))
                BY <3>1, <2>2 DEF CarvedUpTo
            <4>4. QED BY <4>2, <4>3, <2>10 DEF MultiSizeExact
        <3>2. CASE sw
            <4> DEFINE b == Start(k - 1)
            <4>1. k - 1 \in 0..(k - 1) /\ k - 1 \in 0..(top - 1) /\ k - 1 \in Int /\ (k - 1) + 1 = k
                BY <2>4, <2>t, <3>2
            <4>2. header[b] = [bAlloc |-> TRUE, nElem |-> MaxElems - b] /\ b \in Chained /\ b \notin owned
                BY <3>2, <4>1, <2>3, <2>5 DEF ChainOf
            <4>3. Start(k) = b + c /\ b \in Int
                BY <4>1, <2>1, Starts
            <4>4. MaxElems - Start(k) >= c
                BY <3>2, <2>4, <2>r
            <4> HIDE DEF b
            <4>5. header[b].nElem - c = MaxElems - Start(k) /\ header[b].nElem > c
                BY <4>2, <4>3, <4>4, <2>1, <2>6
            <4>6. \A i \in 0..(top - 1) : header[Start(i)].bAlloc /\ (Start(i) # b => header[Start(i)].nElem = c)
                <5> TAKE i \in 0..(top - 1)
                <5>1. i \in 0..(k - 1)
                    BY <3>2, <2>t
                <5>2. CASE i = k - 1
                    BY <5>2, <4>2 DEF b
                <5>3. CASE i # k - 1
                    BY <5>1, <5>3, <2>3 DEF ChainOf, Taken
                <5>4. QED BY <5>2, <5>3
            <4>7. Swollen = {b}
                BY <4>2, <4>5, <4>6, <2>1, <2>5 DEF Swollen
            <4>8. Candidates = {}
                BY <4>6, <2>5 DEF Candidates
            <4>9. nBuffers = (Start(Cardinality(owned)) - (MaxElems - Start(k))) % SizeMod
                BY <3>2, <2>2 DEF CarvedUpTo
            <4>10. nBuffers = (c * Cardinality(owned) - (header[b].nElem - c)) % SizeMod
                BY <4>5, <4>9, <2>10
            <4>11. b \in Swollen
                BY <4>7
            <4>12. QED BY <4>2, <4>7, <4>8, <4>10, <4>11 DEF MultiSizeExact
        <3>3. QED BY <3>1, <3>2
    <2>11. QED BY <2>7, <2>8, <2>9, <2>e DEF MultiInv, ChainCoversPool
<1>2. QED BY <1>1, MultiInvariant, PTL

-----------------------------------------------------------------------------

(***************************************************************************)
(* LinkedList: the nodes in use are those of some sequence, linked in its  *)
(* order both ways, the list itself being the node before the first and    *)
(* behind the last.  Every operation is a step of that sequence.           *)
(***************************************************************************)

-----------------------------------------------------------------------------

(***************************************************************************)
(* LinkedList: the links of the nodes.  The list itself counts as a node 0 *)
(* whose next is the head and whose previous is the tail.                  *)
(***************************************************************************)

Ref == 0..MaxItems

ListFields ==
    [head: Ref, tail: Ref, used: SUBSET Item, nElements: Int, blocks: BOOLEAN,
     next: [Item -> Ref], prev: [Item -> Ref], element: [Item -> Elements \cup {0}]]

Nexts(l) == [i \in Ref |-> IF i = 0 THEN l.head ELSE l.next[i]]
Prevs(l) == [i \in Ref |-> IF i = 0 THEN l.tail ELSE l.prev[i]]

LinkMaps == [Ref -> Ref]

Led(f, i, to) == [f EXCEPT ![i] = to]

\* l and m differ in their links only.
SameItems(l, m) ==
    m.used = l.used /\ m.nElements = l.nElements /\ m.blocks = l.blocks /\ m.element = l.element

LEMMA Refs == Ref = Item \cup {0} /\ 0 \in Ref /\ 0 \notin Item
    BY ListAssumption DEF Ref, Item

LEMMA LedIs ==
    ASSUME NEW f \in LinkMaps, NEW i \in Ref, NEW to \in Ref
    PROVE  /\ Led(f, i, to) \in LinkMaps
           /\ \A j \in Ref : Led(f, i, to)[j] = IF j = i THEN to ELSE f[j]
    BY DEF LinkMaps, Led

LEMMA LinksOf ==
    ASSUME NEW l \in ListFields
    PROVE  /\ Nexts(l) \in LinkMaps /\ Prevs(l) \in LinkMaps
           /\ Nexts(l)[0] = l.head /\ Prevs(l)[0] = l.tail
           /\ \A i \in Item : Nexts(l)[i] = l.next[i] /\ Prevs(l)[i] = l.prev[i]
<1>1. /\ l.head \in Ref /\ l.tail \in Ref /\ l.next \in [Item -> Ref] /\ l.prev \in [Item -> Ref]
    BY DEF ListFields
<1>2. \A i \in Item : i \in Ref /\ i # 0
    BY Refs
<1>3. QED BY <1>1, <1>2, Refs DEF LinkMaps, Nexts, Prevs

LEMMA SameLinks ==
    ASSUME NEW f \in LinkMaps, NEW g \in LinkMaps, \A i \in Ref : f[i] = g[i]
    PROVE  f = g
    BY DEF LinkMaps

\* One link at a time.
WithHead(l, i) == [l EXCEPT !.head = i]
WithTail(l, i) == [l EXCEPT !.tail = i]
WithNext(l, i, to) == [l EXCEPT !.next[i] = to]
WithPrev(l, i, to) == [l EXCEPT !.prev[i] = to]

LEMMA NextLed ==
    ASSUME NEW l \in ListFields, NEW i \in Item, NEW to \in Ref
    PROVE  /\ WithNext(l, i, to) \in ListFields /\ SameItems(l, WithNext(l, i, to))
           /\ Nexts(WithNext(l, i, to)) = Led(Nexts(l), i, to)
           /\ Prevs(WithNext(l, i, to)) = Prevs(l)
<1> DEFINE m == WithNext(l, i, to)
<1>1. m \in ListFields /\ SameItems(l, m)
    BY DEF WithNext, ListFields, SameItems
<1>2. m.head = l.head /\ m.tail = l.tail /\ m.prev = l.prev
      /\ \A j \in Item : m.next[j] = IF j = i THEN to ELSE l.next[j]
    BY DEF WithNext, ListFields
<1> HIDE DEF m
<1>3. Prevs(m) = Prevs(l)
    BY <1>2 DEF Prevs
<1>4. i \in Ref /\ i # 0
    BY Refs
<1>5. \A j \in Ref : Nexts(m)[j] = Led(Nexts(l), i, to)[j]
    <2> TAKE j \in Ref
    <2>1. Led(Nexts(l), i, to)[j] = IF j = i THEN to ELSE Nexts(l)[j]
        BY <1>4, LinksOf, LedIs
    <2>2. CASE j = 0
        BY <2>1, <2>2, <1>1, <1>2, <1>4, LinksOf
    <2>3. CASE j # 0
        <3>1. j \in Item
            BY <2>3, Refs
        <3>2. QED BY <2>1, <3>1, <1>1, <1>2, LinksOf
    <2>4. QED BY <2>2, <2>3
<1>6. Nexts(m) = Led(Nexts(l), i, to)
    BY <1>1, <1>4, <1>5, LinksOf, LedIs, SameLinks
<1>7. QED BY <1>1, <1>3, <1>6 DEF m

LEMMA PrevLed ==
    ASSUME NEW l \in ListFields, NEW i \in Item, NEW to \in Ref
    PROVE  /\ WithPrev(l, i, to) \in ListFields /\ SameItems(l, WithPrev(l, i, to))
           /\ Prevs(WithPrev(l, i, to)) = Led(Prevs(l), i, to)
           /\ Nexts(WithPrev(l, i, to)) = Nexts(l)
<1> DEFINE m == WithPrev(l, i, to)
<1>1. m \in ListFields /\ SameItems(l, m)
    BY DEF WithPrev, ListFields, SameItems
<1>2. m.head = l.head /\ m.tail = l.tail /\ m.next = l.next
      /\ \A j \in Item : m.prev[j] = IF j = i THEN to ELSE l.prev[j]
    BY DEF WithPrev, ListFields
<1> HIDE DEF m
<1>3. Nexts(m) = Nexts(l)
    BY <1>2 DEF Nexts
<1>4. i \in Ref /\ i # 0
    BY Refs
<1>5. \A j \in Ref : Prevs(m)[j] = Led(Prevs(l), i, to)[j]
    <2> TAKE j \in Ref
    <2>1. Led(Prevs(l), i, to)[j] = IF j = i THEN to ELSE Prevs(l)[j]
        BY <1>4, LinksOf, LedIs
    <2>2. CASE j = 0
        BY <2>1, <2>2, <1>1, <1>2, <1>4, LinksOf
    <2>3. CASE j # 0
        <3>1. j \in Item
            BY <2>3, Refs
        <3>2. QED BY <2>1, <3>1, <1>1, <1>2, LinksOf
    <2>4. QED BY <2>2, <2>3
<1>6. Prevs(m) = Led(Prevs(l), i, to)
    BY <1>1, <1>4, <1>5, LinksOf, LedIs, SameLinks
<1>7. QED BY <1>1, <1>3, <1>6 DEF m

LEMMA HeadLed ==
    ASSUME NEW l \in ListFields, NEW to \in Ref
    PROVE  /\ WithHead(l, to) \in ListFields /\ SameItems(l, WithHead(l, to))
           /\ Nexts(WithHead(l, to)) = Led(Nexts(l), 0, to)
           /\ Prevs(WithHead(l, to)) = Prevs(l)
<1> DEFINE m == WithHead(l, to)
<1>1. m \in ListFields /\ SameItems(l, m)
    BY DEF WithHead, ListFields, SameItems
<1>2. m.head = to /\ m.tail = l.tail /\ m.prev = l.prev /\ m.next = l.next
    BY DEF WithHead, ListFields
<1> HIDE DEF m
<1>3. Prevs(m) = Prevs(l)
    BY <1>2 DEF Prevs
<1>4. \A j \in Ref : Nexts(m)[j] = Led(Nexts(l), 0, to)[j]
    <2> TAKE j \in Ref
    <2>1. Led(Nexts(l), 0, to)[j] = IF j = 0 THEN to ELSE Nexts(l)[j]
        BY Refs, LinksOf, LedIs
    <2>2. j # 0 => j \in Item
        BY Refs
    <2>3. QED BY <2>1, <2>2, <1>1, <1>2, LinksOf
<1>5. Nexts(m) = Led(Nexts(l), 0, to)
    BY <1>1, <1>4, Refs, LinksOf, LedIs, SameLinks
<1>6. QED BY <1>1, <1>3, <1>5 DEF m

LEMMA TailLed ==
    ASSUME NEW l \in ListFields, NEW to \in Ref
    PROVE  /\ WithTail(l, to) \in ListFields /\ SameItems(l, WithTail(l, to))
           /\ Prevs(WithTail(l, to)) = Led(Prevs(l), 0, to)
           /\ Nexts(WithTail(l, to)) = Nexts(l)
<1> DEFINE m == WithTail(l, to)
<1>1. m \in ListFields /\ SameItems(l, m)
    BY DEF WithTail, ListFields, SameItems
<1>2. m.tail = to /\ m.head = l.head /\ m.prev = l.prev /\ m.next = l.next
    BY DEF WithTail, ListFields
<1> HIDE DEF m
<1>3. Nexts(m) = Nexts(l)
    BY <1>2 DEF Nexts
<1>4. \A j \in Ref : Prevs(m)[j] = Led(Prevs(l), 0, to)[j]
    <2> TAKE j \in Ref
    <2>1. Led(Prevs(l), 0, to)[j] = IF j = 0 THEN to ELSE Prevs(l)[j]
        BY Refs, LinksOf, LedIs
    <2>2. j # 0 => j \in Item
        BY Refs
    <2>3. QED BY <2>1, <2>2, <1>1, <1>2, LinksOf
<1>5. Prevs(m) = Led(Prevs(l), 0, to)
    BY <1>1, <1>4, Refs, LinksOf, LedIs, SameLinks
<1>6. QED BY <1>1, <1>3, <1>5 DEF m

\* The ends are not special.
LEMMA LedBehind ==
    ASSUME NEW l \in ListFields, NEW p \in Ref, NEW i \in Ref
    PROVE  /\ LinkBehind(l, p, i) \in ListFields /\ SameItems(l, LinkBehind(l, p, i))
           /\ Nexts(LinkBehind(l, p, i)) = Led(Nexts(l), p, i)
           /\ Prevs(LinkBehind(l, p, i)) = Prevs(l)
<1>1. CASE p = 0
    <2>1. LinkBehind(l, p, i) = WithHead(l, i)
        BY <1>1 DEF LinkBehind, WithHead
    <2>2. QED BY <1>1, <2>1, HeadLed
<1>2. CASE p # 0
    <2>1. LinkBehind(l, p, i) = WithNext(l, p, i)
        BY <1>2 DEF LinkBehind, WithNext
    <2>2. p \in Item
        BY <1>2, Refs
    <2>3. QED BY <2>1, <2>2, NextLed
<1>3. QED BY <1>1, <1>2

LEMMA LedBefore ==
    ASSUME NEW l \in ListFields, NEW n \in Ref, NEW i \in Ref
    PROVE  /\ LinkBefore(l, n, i) \in ListFields /\ SameItems(l, LinkBefore(l, n, i))
           /\ Prevs(LinkBefore(l, n, i)) = Led(Prevs(l), n, i)
           /\ Nexts(LinkBefore(l, n, i)) = Nexts(l)
<1>1. CASE n = 0
    <2>1. LinkBefore(l, n, i) = WithTail(l, i)
        BY <1>1 DEF LinkBefore, WithTail
    <2>2. QED BY <1>1, <2>1, TailLed
<1>2. CASE n # 0
    <2>1. LinkBefore(l, n, i) = WithPrev(l, n, i)
        BY <1>2 DEF LinkBefore, WithPrev
    <2>2. n \in Item
        BY <1>2, Refs
    <2>3. QED BY <2>1, <2>2, PrevLed
<1>3. QED BY <1>1, <1>2

-----------------------------------------------------------------------------

(***************************************************************************)
(* A list is a chain of nodes, from 0 back to 0.                           *)
(***************************************************************************)

Nth(s, k) == IF k \in 1..Len(s) THEN s[k] ELSE 0

ItemsOf(s) == {s[k] : k \in 1..Len(s)}

\* No node is there twice.
NodeChain(s) == s \in Seq(Item) /\ \A j, k \in 1..Len(s) : s[j] = s[k] => j = k

\* The nodes of s are linked in its order, both ways.
ChainedNodes(f, g, s) ==
    \A k \in 0..Len(s) : f[Nth(s, k)] = Nth(s, k + 1) /\ g[Nth(s, k + 1)] = Nth(s, k)

LEMMA ChainLength ==
    ASSUME NEW s, NodeChain(s)
    PROVE  Len(s) \in Nat /\ Len(s) \in Int /\ Len(s) >= 0
    BY LenProperties DEF NodeChain

LEMMA NthIs ==
    ASSUME NEW s, NodeChain(s)
    PROVE  /\ \A k \in Int : Nth(s, k) \in Ref
           /\ \A k \in 1..Len(s) : Nth(s, k) = s[k] /\ Nth(s, k) \in Item /\ Nth(s, k) # 0
           /\ \A k \in Int : k \notin 1..Len(s) => Nth(s, k) = 0
           /\ \A j, k \in 0..Len(s) : Nth(s, j) = Nth(s, k) => j = k
           /\ \A j, k \in 1..(Len(s) + 1) : Nth(s, j) = Nth(s, k) => j = k
<1>1. Len(s) \in Int /\ Len(s) >= 0
    BY ChainLength
<1>2. \A k \in 1..Len(s) : Nth(s, k) = s[k] /\ s[k] \in Item /\ s[k] # 0 /\ s[k] \in Ref
    BY ElementOfSeq, Refs DEF NodeChain, Nth
<1>3. \A k \in Int : k \notin 1..Len(s) => Nth(s, k) = 0
    BY DEF Nth
<1>4. \A k \in Int : Nth(s, k) \in Ref
    BY <1>2, <1>3, Refs
<1>5. \A j, k \in 1..Len(s) : Nth(s, j) = Nth(s, k) => j = k
    BY <1>2 DEF NodeChain
<1>6. \A j, k \in 0..Len(s) : Nth(s, j) = Nth(s, k) => j = k
    <2> TAKE j, k \in 0..Len(s)
    <2> HAVE Nth(s, j) = Nth(s, k)
    <2>1. CASE j # 0 /\ k # 0
        <3>1. j \in 1..Len(s) /\ k \in 1..Len(s)
            BY <2>1, <1>1
        <3>2. QED BY <3>1, <1>5
    <2>2. CASE j = 0 /\ k # 0
        <3>1. k \in 1..Len(s) /\ j \in Int /\ j \notin 1..Len(s)
            BY <2>2, <1>1
        <3>2. QED BY <3>1, <1>2, <1>3
    <2>3. CASE j # 0 /\ k = 0
        <3>1. j \in 1..Len(s) /\ k \in Int /\ k \notin 1..Len(s)
            BY <2>3, <1>1
        <3>2. QED BY <3>1, <1>2, <1>3
    <2>4. QED BY <2>1, <2>2, <2>3
<1>7. \A j, k \in 1..(Len(s) + 1) : Nth(s, j) = Nth(s, k) => j = k
    <2> DEFINE L == Len(s) + 1
    <2> TAKE j, k \in 1..(Len(s) + 1)
    <2> HAVE Nth(s, j) = Nth(s, k)
    <2>1. CASE j # L /\ k # L
        <3>1. j \in 1..Len(s) /\ k \in 1..Len(s)
            BY <2>1, <1>1
        <3>2. QED BY <3>1, <1>5
    <2>2. CASE j = L /\ k # L
        <3>1. k \in 1..Len(s) /\ j \in Int /\ j \notin 1..Len(s)
            BY <2>2, <1>1
        <3>2. QED BY <3>1, <1>2, <1>3
    <2>3. CASE j # L /\ k = L
        <3>1. j \in 1..Len(s) /\ k \in Int /\ k \notin 1..Len(s)
            BY <2>3, <1>1
        <3>2. QED BY <3>1, <1>2, <1>3
    <2>4. QED BY <2>1, <2>2, <2>3
<1>8. QED BY <1>2, <1>3, <1>4, <1>6, <1>7

\* The sequences after an insertion, a removal and a swap, node by node.
IsPut(t, s, k, i) ==
    /\ t \in Seq(Item) /\ Len(t) = Len(s) + 1
    /\ \A j \in 0..(Len(s) + 2) :
           Nth(t, j) = IF j <= k THEN Nth(s, j) ELSE IF j = k + 1 THEN i ELSE Nth(s, j - 1)

IsTaken(t, s, k) ==
    /\ t \in Seq(Item) /\ Len(t) = Len(s) - 1
    /\ \A j \in 0..Len(s) : Nth(t, j) = IF j < k THEN Nth(s, j) ELSE Nth(s, j + 1)

IsExchanged(t, s, a, b) ==
    /\ t \in Seq(Item) /\ Len(t) = Len(s)
    /\ \A j \in 0..(Len(s) + 1) :
           Nth(t, j) = IF j = a THEN Nth(s, b) ELSE IF j = b THEN Nth(s, a) ELSE Nth(s, j)

\* A sequence of nodes is a chain if its nodes differ.
LEMMA ChainIf ==
    ASSUME NEW t \in Seq(Item), \A j, k \in 1..Len(t) : Nth(t, j) = Nth(t, k) => j = k
    PROVE  NodeChain(t)
    BY DEF NodeChain, Nth

LEMMA ItemsAre ==
    ASSUME NEW s
    PROVE  \A i : i \in ItemsOf(s) <=> \E k \in 1..Len(s) : Nth(s, k) = i
    BY DEF ItemsOf, Nth

LEMMA ChainPut ==
    ASSUME NEW s, NodeChain(s), NEW k \in 0..Len(s), NEW i \in Item, i \notin ItemsOf(s),
           NEW t, IsPut(t, s, k, i)
    PROVE  NodeChain(t) /\ ItemsOf(t) = ItemsOf(s) \cup {i}
<1> DEFINE L == Len(s)
<1>1. L \in Int /\ L >= 0 /\ k \in Int
    BY ChainLength
<1>2. t \in Seq(Item) /\ Len(t) = L + 1
      /\ \A j \in 1..(L + 1) :
             Nth(t, j) = IF j <= k THEN Nth(s, j) ELSE IF j = k + 1 THEN i ELSE Nth(s, j - 1)
    BY <1>1 DEF IsPut
<1>3. \A j \in 1..L : Nth(s, j) # i
    BY ItemsAre
<1>4. \A j, m \in 1..L : Nth(s, j) = Nth(s, m) => j = m
    BY <1>1, NthIs
<1> HIDE DEF L
<1>5. NodeChain(t)
    <2> SUFFICES ASSUME NEW j \in 1..(L + 1), NEW m \in 1..(L + 1), Nth(t, j) = Nth(t, m) PROVE j = m
        BY <1>2, ChainIf
    <2> DEFINE Old(x) == IF x <= k THEN x ELSE x - 1
    <2>1. \A x \in 1..(L + 1) : x # k + 1 => Old(x) \in 1..L /\ Nth(t, x) = Nth(s, Old(x))
        <3> TAKE x \in 1..(L + 1)
        <3> HAVE x # k + 1
        <3>1. CASE x <= k
            <4>1. x \in 1..L
                BY <1>1, <3>1 DEF L
            <4>2. QED BY <4>1, <3>1, <1>2
        <3>2. CASE x > k
            <4>1. x - 1 \in 1..L /\ ~(x <= k)
                BY <1>1, <3>2
            <4>2. QED BY <4>1, <1>2
        <3>3. QED BY <1>1, <3>1, <3>2
    <2>2. Nth(t, k + 1) = i
        BY <1>1, <1>2 DEF L
    <2>3. CASE j # k + 1 /\ m # k + 1
        <3>1. Old(j) = Old(m)
            BY <2>1, <2>3, <1>4
        <3>2. QED BY <3>1, <2>3, <1>1
    <2>4. CASE j = k + 1 /\ m # k + 1
        BY <2>1, <2>2, <2>4, <1>3
    <2>5. CASE j # k + 1 /\ m = k + 1
        BY <2>1, <2>2, <2>5, <1>3
    <2>6. QED BY <2>3, <2>4, <2>5
<1>6. ASSUME NEW x PROVE x \in ItemsOf(t) <=> x \in ItemsOf(s) \cup {i}
    <2>1. ASSUME NEW j \in 1..(L + 1), Nth(t, j) = x PROVE x \in ItemsOf(s) \cup {i}
        <3>1. CASE j <= k
            <4>1. j \in 1..L /\ Nth(s, j) = x
                BY <1>1, <1>2, <2>1, <3>1 DEF L
            <4>2. QED BY <4>1, ItemsAre DEF L
        <3>2. CASE j = k + 1
            BY <1>1, <1>2, <2>1, <3>2
        <3>3. CASE j > k + 1
            <4>1. j - 1 \in 1..L /\ Nth(s, j - 1) = x
                BY <1>1, <1>2, <2>1, <3>3
            <4>2. QED BY <4>1, ItemsAre DEF L
        <3>4. QED BY <1>1, <3>1, <3>2, <3>3
    <2>2. ASSUME NEW j \in 1..L, Nth(s, j) = x PROVE \E m \in 1..(L + 1) : Nth(t, m) = x
        <3>1. CASE j <= k
            <4>1. j \in 1..(L + 1) /\ Nth(t, j) = x
                BY <1>1, <1>2, <2>2, <3>1
            <4>2. QED BY <4>1
        <3>2. CASE j > k
            <4>1. j + 1 \in 1..(L + 1) /\ Nth(t, j + 1) = x
                BY <1>1, <1>2, <2>2, <3>2
            <4>2. QED BY <4>1
        <3>3. QED BY <1>1, <3>1, <3>2
    <2>3. k + 1 \in 1..(L + 1) /\ Nth(t, k + 1) = i
        BY <1>1, <1>2 DEF L
    <2>4. x \in ItemsOf(t) <=> \E m \in 1..(L + 1) : Nth(t, m) = x
        BY <1>2, ItemsAre
    <2>5. x \in ItemsOf(s) <=> \E m \in 1..L : Nth(s, m) = x
        BY ItemsAre DEF L
    <2>6. QED BY <2>1, <2>2, <2>3, <2>4, <2>5
<1>7. QED BY <1>5, <1>6

LEMMA LinksPut ==
    ASSUME NEW s, NodeChain(s), NEW k \in 0..Len(s), NEW i \in Item, i \notin ItemsOf(s),
           NEW t, IsPut(t, s, k, i), NEW f \in LinkMaps, NEW g \in LinkMaps, ChainedNodes(f, g, s)
    PROVE  ChainedNodes(Led(Led(f, i, Nth(s, k + 1)), Nth(s, k), i),
                   Led(Led(g, i, Nth(s, k)), Nth(s, k + 1), i), t)
<1> DEFINE L == Len(s)
           p == Nth(s, k)
           n == Nth(s, k + 1)
           f1 == Led(f, i, n)
           g1 == Led(g, i, p)
           F == Led(f1, p, i)
           G == Led(g1, n, i)
<1>1. L \in Int /\ L >= 0 /\ k \in Int /\ k >= 0 /\ k <= L
    BY ChainLength
<1>2. Len(t) = L + 1
      /\ \A j \in 0..(L + 2) :
             Nth(t, j) = IF j <= k THEN Nth(s, j) ELSE IF j = k + 1 THEN i ELSE Nth(s, j - 1)
    BY <1>1 DEF IsPut
<1>3. /\ \A j \in 0..(L + 1) : Nth(s, j) # i /\ Nth(s, j) \in Ref
      /\ \A j, m \in 0..L : Nth(s, j) = Nth(s, m) => j = m
      /\ \A j, m \in 1..(L + 1) : Nth(s, j) = Nth(s, m) => j = m
    <2>1. \A j \in 1..L : Nth(s, j) # i
        BY ItemsAre
    <2>2. i # 0
        BY Refs
    <2>3. \A j \in Int : j \notin 1..L => Nth(s, j) = 0
        BY NthIs
    <2>4. \A j \in 0..(L + 1) : Nth(s, j) # i
        BY <2>1, <2>2, <2>3, <1>1
    <2>5. QED BY <1>1, <2>4, NthIs
<1>4. \A j \in 0..L : f[Nth(s, j)] = Nth(s, j + 1) /\ g[Nth(s, j + 1)] = Nth(s, j)
    BY DEF ChainedNodes
<1>5. i \in Ref /\ p \in Ref /\ n \in Ref /\ i # p /\ i # n
    BY <1>1, <1>3, Refs
<1>6. /\ \A x \in Ref : F[x] = IF x = p THEN i ELSE IF x = i THEN n ELSE f[x]
      /\ \A x \in Ref : G[x] = IF x = n THEN i ELSE IF x = i THEN p ELSE g[x]
    <2>1. f1 \in LinkMaps /\ \A x \in Ref : f1[x] = IF x = i THEN n ELSE f[x]
        BY <1>5, LedIs
    <2>2. g1 \in LinkMaps /\ \A x \in Ref : g1[x] = IF x = i THEN p ELSE g[x]
        BY <1>5, LedIs
    <2> HIDE DEF f1, g1
    <2> HIDE DEF p, n
    <2>3. \A x \in Ref : F[x] = IF x = p THEN i ELSE f1[x]
        BY <1>5, <2>1, LedIs
    <2>4. \A x \in Ref : G[x] = IF x = n THEN i ELSE g1[x]
        BY <1>5, <2>2, LedIs
    <2>5. QED BY <2>1, <2>2, <2>3, <2>4
<1> HIDE DEF f1, g1, F, G, L
<1>7. ASSUME NEW j \in 0..(L + 1) PROVE F[Nth(t, j)] = Nth(t, j + 1) /\ G[Nth(t, j + 1)] = Nth(t, j)
    <2>1. CASE j < k
        <3>1. j \in 0..L /\ k \in 0..L /\ j + 1 \in 1..(L + 1) /\ k + 1 \in 1..(L + 1) /\ j # k
              /\ j \in 0..(L + 1) /\ j + 1 \in 0..(L + 1)
            BY <1>1, <2>1
        <3>2. Nth(t, j) = Nth(s, j) /\ Nth(t, j + 1) = Nth(s, j + 1)
            BY <1>1, <1>2, <2>1
        <3>3. Nth(s, j) # p /\ Nth(s, j + 1) # n
            BY <1>3, <3>1
        <3>4. QED BY <1>3, <1>4, <1>6, <3>1, <3>2, <3>3
    <2>2. CASE j = k
        <3>1. Nth(t, j) = p /\ Nth(t, j + 1) = i
            BY <1>1, <1>2, <2>2
        <3>2. QED BY <3>1, <1>5, <1>6
    <2>3. CASE j = k + 1
        <3>1. Nth(t, j) = i /\ Nth(t, j + 1) = n
            BY <1>1, <1>2, <2>3
        <3>2. QED BY <3>1, <1>5, <1>6
    <2>4. CASE j > k + 1
        <3>1. j - 1 \in 0..L /\ k \in 0..L /\ (j - 1) + 1 \in 1..(L + 1) /\ k + 1 \in 1..(L + 1)
              /\ j - 1 # k /\ j - 1 \in 0..(L + 1) /\ (j - 1) + 1 = j /\ j \in 0..(L + 1)
            BY <1>1, <2>4
        <3>2. Nth(t, j) = Nth(s, j - 1) /\ Nth(t, j + 1) = Nth(s, j)
            BY <1>1, <1>2, <2>4
        <3>3. Nth(s, j - 1) # p /\ Nth(s, j) # n
            BY <1>3, <3>1
        <3>4. f[Nth(s, j - 1)] = Nth(s, j) /\ g[Nth(s, j)] = Nth(s, j - 1)
            BY <1>4, <3>1
        <3>5. QED BY <1>3, <1>6, <3>1, <3>2, <3>3, <3>4
    <2>5. QED BY <1>1, <2>1, <2>2, <2>3, <2>4
<1>8. ChainedNodes(F, G, t)
    BY <1>2, <1>7 DEF ChainedNodes
<1>9. QED BY <1>8 DEF F, G, f1, g1

LEMMA ChainTaken ==
    ASSUME NEW s, NodeChain(s), NEW k \in 1..Len(s), NEW t, IsTaken(t, s, k)
    PROVE  NodeChain(t) /\ ItemsOf(t) = ItemsOf(s) \ {s[k]}
<1> DEFINE L == Len(s)
           i == Nth(s, k)
           Old(x) == IF x < k THEN x ELSE x + 1
<1>1. L \in Int /\ L >= 0 /\ k \in Int /\ k >= 1 /\ k <= L
    BY ChainLength
<1>2. t \in Seq(Item) /\ Len(t) = L - 1
      /\ \A j \in 0..L : Nth(t, j) = IF j < k THEN Nth(s, j) ELSE Nth(s, j + 1)
    BY DEF IsTaken
<1>3. \A j, m \in 1..L : Nth(s, j) = Nth(s, m) => j = m
    BY <1>1, NthIs
<1>4. i = s[k]
    BY NthIs
<1> HIDE DEF L
<1>5. \A x \in 1..(L - 1) : Old(x) \in 1..L /\ Old(x) # k /\ Nth(t, x) = Nth(s, Old(x))
    <2> TAKE x \in 1..(L - 1)
    <2>1. x \in 0..L
        BY <1>1
    <2>2. CASE x < k
        BY <1>1, <1>2, <2>1, <2>2
    <2>3. CASE ~(x < k)
        BY <1>1, <1>2, <2>1, <2>3
    <2>4. QED BY <2>2, <2>3
<1>6. NodeChain(t)
    <2> SUFFICES ASSUME NEW j \in 1..(L - 1), NEW m \in 1..(L - 1), Nth(t, j) = Nth(t, m) PROVE j = m
        BY <1>2, ChainIf
    <2>1. Old(j) = Old(m)
        BY <1>3, <1>5
    <2>2. QED BY <2>1, <1>1
<1>7. ASSUME NEW x PROVE x \in ItemsOf(t) <=> x \in ItemsOf(s) \ {i}
    <2>1. ASSUME NEW j \in 1..(L - 1), Nth(t, j) = x PROVE (\E m \in 1..L : Nth(s, m) = x) /\ x # i
        <3>1. Old(j) \in 1..L /\ Old(j) # k /\ Nth(s, Old(j)) = x
            BY <1>5, <2>1
        <3> HIDE DEF Old
        <3>2. k \in 1..L
            BY <1>1
        <3>3. QED BY <3>1, <3>2, <1>3
    <2>2. ASSUME NEW m \in 1..L, Nth(s, m) = x, x # i PROVE \E j \in 1..(L - 1) : Nth(t, j) = x
        <3>1. CASE m < k
            <4>1. m \in 1..(L - 1) /\ m \in 0..L
                BY <1>1, <3>1
            <4>2. QED BY <4>1, <3>1, <2>2, <1>2
        <3>2. CASE m > k
            <4>1. m - 1 \in 1..(L - 1) /\ m - 1 \in 0..L /\ ~(m - 1 < k) /\ (m - 1) + 1 = m
                BY <1>1, <3>2
            <4>2. Nth(t, m - 1) = x
                BY <4>1, <2>2, <1>2
            <4>3. QED BY <4>1, <4>2
        <3>3. CASE m = k
            BY <2>2, <3>3
        <3>4. QED BY <1>1, <3>1, <3>2, <3>3
    <2>3. x \in ItemsOf(t) <=> \E m \in 1..(L - 1) : Nth(t, m) = x
        BY <1>2, ItemsAre
    <2>4. x \in ItemsOf(s) <=> \E m \in 1..L : Nth(s, m) = x
        BY ItemsAre DEF L
    <2>5. QED BY <2>1, <2>2, <2>3, <2>4
<1>8. QED BY <1>4, <1>6, <1>7

LEMMA LinksTaken ==
    ASSUME NEW s, NodeChain(s), NEW k \in 1..Len(s), NEW t, IsTaken(t, s, k),
           NEW f \in LinkMaps, NEW g \in LinkMaps, ChainedNodes(f, g, s)
    PROVE  ChainedNodes(Led(f, Nth(s, k - 1), Nth(s, k + 1)), Led(g, Nth(s, k + 1), Nth(s, k - 1)), t)
<1> DEFINE L == Len(s)
           p == Nth(s, k - 1)
           n == Nth(s, k + 1)
           F == Led(f, p, n)
           G == Led(g, n, p)
<1>1. L \in Int /\ L >= 0 /\ k \in Int /\ k >= 1 /\ k <= L
    BY ChainLength
<1>2. Len(t) = L - 1
      /\ \A j \in 0..L : Nth(t, j) = IF j < k THEN Nth(s, j) ELSE Nth(s, j + 1)
    BY DEF IsTaken
<1>3. /\ \A j \in 0..(L + 1) : Nth(s, j) \in Ref
      /\ \A j, m \in 0..L : Nth(s, j) = Nth(s, m) => j = m
      /\ \A j, m \in 1..(L + 1) : Nth(s, j) = Nth(s, m) => j = m
    BY <1>1, NthIs
<1>4. \A j \in 0..L : f[Nth(s, j)] = Nth(s, j + 1) /\ g[Nth(s, j + 1)] = Nth(s, j)
    BY DEF ChainedNodes
<1>5. p \in Ref /\ n \in Ref
    BY <1>1, <1>3
<1>6. /\ \A x \in Ref : F[x] = IF x = p THEN n ELSE f[x]
      /\ \A x \in Ref : G[x] = IF x = n THEN p ELSE g[x]
    <2> HIDE DEF p, n
    <2>1. \A x \in Ref : F[x] = IF x = p THEN n ELSE f[x]
        BY <1>5, LedIs
    <2>2. \A x \in Ref : G[x] = IF x = n THEN p ELSE g[x]
        BY <1>5, LedIs
    <2>3. QED BY <2>1, <2>2
<1> HIDE DEF F, G, L
<1>7. ASSUME NEW j \in 0..(L - 1) PROVE F[Nth(t, j)] = Nth(t, j + 1) /\ G[Nth(t, j + 1)] = Nth(t, j)
    <2>1. CASE j < k - 1
        <3>1. j \in 0..L /\ k - 1 \in 0..L /\ j + 1 \in 1..(L + 1) /\ k + 1 \in 1..(L + 1) /\ j # k - 1
              /\ j \in 0..(L + 1) /\ j + 1 \in 0..(L + 1) /\ j + 1 # k + 1 /\ j + 1 \in 0..L /\ j + 1 < k
            BY <1>1, <2>1
        <3>2. Nth(t, j) = Nth(s, j) /\ Nth(t, j + 1) = Nth(s, j + 1)
            BY <1>1, <1>2, <2>1, <3>1
        <3>3. Nth(s, j) # p /\ Nth(s, j + 1) # n
            BY <1>3, <3>1
        <3>4. QED BY <1>3, <1>4, <1>6, <3>1, <3>2, <3>3
    <2>2. CASE j = k - 1
        <3>1. j \in 0..L /\ j + 1 \in 0..L /\ ~(j + 1 < k) /\ j < k /\ (j + 1) + 1 = k + 1
            BY <1>1, <2>2
        <3>2. Nth(t, j) = p /\ Nth(t, j + 1) = n
            BY <1>2, <2>2, <3>1
        <3>3. QED BY <3>2, <1>5, <1>6
    <2>3. CASE j > k - 1
        <3>1. /\ j \in 0..L /\ j + 1 \in 0..L /\ k - 1 \in 0..L /\ j + 1 # k - 1
              /\ (j + 1) + 1 \in 1..(L + 1) /\ k + 1 \in 1..(L + 1) /\ (j + 1) + 1 # k + 1
              /\ j + 1 \in 0..(L + 1) /\ (j + 1) + 1 \in 0..(L + 1) /\ ~(j < k) /\ ~(j + 1 < k)
            BY <1>1, <2>3
        <3>2. Nth(t, j) = Nth(s, j + 1) /\ Nth(t, j + 1) = Nth(s, (j + 1) + 1)
            BY <1>2, <3>1
        <3>3. Nth(s, j + 1) # p /\ Nth(s, (j + 1) + 1) # n
            BY <1>3, <3>1
        <3>4. f[Nth(s, j + 1)] = Nth(s, (j + 1) + 1) /\ g[Nth(s, (j + 1) + 1)] = Nth(s, j + 1)
            BY <1>4, <3>1
        <3>5. QED BY <1>3, <1>6, <3>1, <3>2, <3>3, <3>4
    <2>4. QED BY <1>1, <2>1, <2>2, <2>3
<1>8. ChainedNodes(F, G, t)
    BY <1>2, <1>7 DEF ChainedNodes
<1>9. QED BY <1>8 DEF F, G

LEMMA ChainExchanged ==
    ASSUME NEW s, NodeChain(s), NEW a \in 1..Len(s), NEW b \in 1..Len(s), NEW t, IsExchanged(t, s, a, b)
    PROVE  NodeChain(t) /\ ItemsOf(t) = ItemsOf(s)
<1> DEFINE L == Len(s)
           Old(x) == IF x = a THEN b ELSE IF x = b THEN a ELSE x
<1>1. L \in Int /\ a \in 1..L /\ b \in 1..L
    BY ChainLength
<1>2. t \in Seq(Item) /\ Len(t) = L
      /\ \A j \in 1..L : Nth(t, j) = Nth(s, Old(j))
    BY <1>1 DEF IsExchanged
<1>3. \A j, m \in 1..L : Nth(s, j) = Nth(s, m) => j = m
    BY <1>1, NthIs
<1> HIDE DEF L
<1>4. /\ \A x \in 1..L : Old(x) \in 1..L /\ Old(Old(x)) = x
      /\ \A x, y \in 1..L : Old(x) = Old(y) => x = y
    BY <1>1
<1> HIDE DEF Old
<1>5. NodeChain(t)
    <2> SUFFICES ASSUME NEW j \in 1..L, NEW m \in 1..L, Nth(t, j) = Nth(t, m) PROVE j = m
        BY <1>2, ChainIf
    <2>1. Old(j) = Old(m)
        BY <1>2, <1>3, <1>4
    <2>2. QED BY <2>1, <1>4
<1>6. ASSUME NEW x PROVE x \in ItemsOf(t) <=> x \in ItemsOf(s)
    <2>1. x \in ItemsOf(t) <=> \E m \in 1..L : Nth(t, m) = x
        BY <1>2, ItemsAre
    <2>2. x \in ItemsOf(s) <=> \E m \in 1..L : Nth(s, m) = x
        BY ItemsAre DEF L
    <2>3. ASSUME NEW m \in 1..L, Nth(s, m) = x PROVE \E j \in 1..L : Nth(t, j) = x
        <3>1. Old(m) \in 1..L /\ Nth(t, Old(m)) = x
            BY <1>2, <1>4, <2>3
        <3>2. QED BY <3>1
    <2>4. ASSUME NEW m \in 1..L, Nth(t, m) = x PROVE \E j \in 1..L : Nth(s, j) = x
        <3>1. Old(m) \in 1..L /\ Nth(s, Old(m)) = x
            BY <1>2, <1>4, <2>4
        <3>2. QED BY <3>1
    <2>5. QED BY <2>1, <2>2, <2>3, <2>4
<1>7. QED BY <1>5, <1>6

\* Three links of f are led elsewhere, and four of them.
LeadsThree(F, f, a, a1, b, b1, p, p1) ==
    \A x \in Ref : F[x] = IF x = p THEN p1 ELSE IF x = b THEN b1 ELSE IF x = a THEN a1 ELSE f[x]

LeadsFour(F, f, a, a1, b, b1, p, p1, q, q1) ==
    \A x \in Ref : F[x] = IF x = q THEN q1 ELSE IF x = p THEN p1
                          ELSE IF x = b THEN b1 ELSE IF x = a THEN a1 ELSE f[x]

LEMMA LedThree ==
    ASSUME NEW f \in LinkMaps, NEW a \in Ref, NEW b \in Ref, NEW p \in Ref,
           NEW a1 \in Ref, NEW b1 \in Ref, NEW p1 \in Ref
    PROVE  /\ Led(Led(Led(f, a, a1), b, b1), p, p1) \in LinkMaps
           /\ LeadsThree(Led(Led(Led(f, a, a1), b, b1), p, p1), f, a, a1, b, b1, p, p1)
<1> DEFINE f1 == Led(f, a, a1)
           f2 == Led(f1, b, b1)
           f3 == Led(f2, p, p1)
<1>1. f1 \in LinkMaps /\ \A x \in Ref : f1[x] = IF x = a THEN a1 ELSE f[x]
    BY LedIs
<1> HIDE DEF f1
<1>2. f2 \in LinkMaps /\ \A x \in Ref : f2[x] = IF x = b THEN b1 ELSE f1[x]
    BY <1>1, LedIs
<1> HIDE DEF f2
<1>3. f3 \in LinkMaps /\ \A x \in Ref : f3[x] = IF x = p THEN p1 ELSE f2[x]
    BY <1>2, LedIs
<1> HIDE DEF f3
<1>4. f3 \in LinkMaps /\ LeadsThree(f3, f, a, a1, b, b1, p, p1)
    BY <1>1, <1>2, <1>3 DEF LeadsThree
<1>5. QED BY <1>4 DEF f3, f2, f1

LEMMA LedFour ==
    ASSUME NEW f \in LinkMaps, NEW a \in Ref, NEW b \in Ref, NEW p \in Ref, NEW q \in Ref,
           NEW a1 \in Ref, NEW b1 \in Ref, NEW p1 \in Ref, NEW q1 \in Ref
    PROVE  LeadsFour(Led(Led(Led(Led(f, a, a1), b, b1), p, p1), q, q1),
                     f, a, a1, b, b1, p, p1, q, q1)
<1> DEFINE f3 == Led(Led(Led(f, a, a1), b, b1), p, p1)
           f4 == Led(f3, q, q1)
<1>1. f3 \in LinkMaps /\ LeadsThree(f3, f, a, a1, b, b1, p, p1)
    BY LedThree
<1> HIDE DEF f3
<1>2. f4 \in LinkMaps /\ \A x \in Ref : f4[x] = IF x = q THEN q1 ELSE f3[x]
    BY <1>1, LedIs
<1> HIDE DEF f4
<1>3. LeadsFour(f4, f, a, a1, b, b1, p, p1, q, q1)
    BY <1>1, <1>2 DEF LeadsThree, LeadsFour
<1>4. QED BY <1>3 DEF f4, f3

\* SwapElements of nodes apart: the links of the two and of their neighbours.
LEMMA LinksExchanged ==
    ASSUME NEW s, NodeChain(s), NEW a \in 1..Len(s), NEW b \in 1..Len(s),
           a # b, a + 1 # b, b + 1 # a, NEW t, IsExchanged(t, s, a, b),
           NEW f \in LinkMaps, NEW g \in LinkMaps, ChainedNodes(f, g, s),
           NEW F, F = Led(Led(Led(Led(f, s[a], Nth(s, b + 1)), s[b], Nth(s, a + 1)),
                              Nth(s, b - 1), s[a]), Nth(s, a - 1), s[b]),
           NEW G, G = Led(Led(Led(Led(g, s[a], Nth(s, b - 1)), s[b], Nth(s, a - 1)),
                              Nth(s, b + 1), s[a]), Nth(s, a + 1), s[b])
    PROVE  ChainedNodes(F, G, t)
<1> DEFINE L == Len(s)
           Old(x) == IF x = a THEN b ELSE IF x = b THEN a ELSE x
           Ahead(x) == IF x = a - 1 THEN b ELSE IF x = b - 1 THEN a
                       ELSE IF x = b THEN a + 1 ELSE IF x = a THEN b + 1 ELSE x + 1
           Back(x) == IF x = a + 1 THEN b ELSE IF x = b + 1 THEN a
                      ELSE IF x = b THEN a - 1 ELSE IF x = a THEN b - 1 ELSE x - 1
<1>1. L \in Int /\ L >= 0 /\ a \in 1..L /\ b \in 1..L
    BY ChainLength
<1>2. Len(t) = L /\ \A j \in 0..(L + 1) : Nth(t, j) = Nth(s, Old(j))
    BY DEF IsExchanged
<1>3. /\ \A j \in Int : Nth(s, j) \in Ref
      /\ \A j, m \in 0..L : Nth(s, j) = Nth(s, m) => j = m
      /\ \A j, m \in 1..(L + 1) : Nth(s, j) = Nth(s, m) => j = m
      /\ s[a] = Nth(s, a) /\ s[b] = Nth(s, b)
    BY <1>1, NthIs
<1>4. \A j \in 0..L : f[Nth(s, j)] = Nth(s, j + 1) /\ g[Nth(s, j + 1)] = Nth(s, j)
    BY DEF ChainedNodes
<1>5. /\ s[a] \in Ref /\ s[b] \in Ref
      /\ Nth(s, a - 1) \in Ref /\ Nth(s, a + 1) \in Ref /\ Nth(s, b - 1) \in Ref /\ Nth(s, b + 1) \in Ref
    BY <1>1, <1>3
<1>6. \A x \in Ref : F[x] = IF x = Nth(s, a - 1) THEN s[b] ELSE IF x = Nth(s, b - 1) THEN s[a]
                            ELSE IF x = s[b] THEN Nth(s, a + 1) ELSE IF x = s[a] THEN Nth(s, b + 1)
                            ELSE f[x]
    <2>1. LeadsFour(F, f, s[a], Nth(s, b + 1), s[b], Nth(s, a + 1),
                    Nth(s, b - 1), s[a], Nth(s, a - 1), s[b])
        BY <1>5, LedFour
    <2>2. QED BY <2>1 DEF LeadsFour
<1>7. \A x \in Ref : G[x] = IF x = Nth(s, a + 1) THEN s[b] ELSE IF x = Nth(s, b + 1) THEN s[a]
                            ELSE IF x = s[b] THEN Nth(s, a - 1) ELSE IF x = s[a] THEN Nth(s, b - 1)
                            ELSE g[x]
    <2>1. LeadsFour(G, g, s[a], Nth(s, b - 1), s[b], Nth(s, a - 1),
                    Nth(s, b + 1), s[a], Nth(s, a + 1), s[b])
        BY <1>5, LedFour
    <2>2. QED BY <2>1 DEF LeadsFour
<1> HIDE DEF L
<1>8. \A x \in 0..L : F[Nth(s, x)] = Nth(s, Ahead(x))
    <2> TAKE x \in 0..L
    <2>1. a - 1 \in 0..L /\ b - 1 \in 0..L /\ a \in 0..L /\ b \in 0..L /\ Nth(s, x) \in Ref
        BY <1>1, <1>3
    <2>2. /\ Nth(s, x) = Nth(s, a - 1) <=> x = a - 1
          /\ Nth(s, x) = Nth(s, b - 1) <=> x = b - 1
          /\ Nth(s, x) = s[b] <=> x = b
          /\ Nth(s, x) = s[a] <=> x = a
        BY <1>3, <2>1
    <2>3. f[Nth(s, x)] = Nth(s, x + 1)
        BY <1>4
    <2>4. QED BY <1>3, <1>6, <2>1, <2>2, <2>3
<1>9. \A x \in 1..(L + 1) : G[Nth(s, x)] = Nth(s, Back(x))
    <2> TAKE x \in 1..(L + 1)
    <2>1. a + 1 \in 1..(L + 1) /\ b + 1 \in 1..(L + 1) /\ a \in 1..(L + 1) /\ b \in 1..(L + 1)
          /\ Nth(s, x) \in Ref /\ x - 1 \in 0..L /\ (x - 1) + 1 = x
        BY <1>1, <1>3
    <2>2. /\ Nth(s, x) = Nth(s, a + 1) <=> x = a + 1
          /\ Nth(s, x) = Nth(s, b + 1) <=> x = b + 1
          /\ Nth(s, x) = s[b] <=> x = b
          /\ Nth(s, x) = s[a] <=> x = a
        BY <1>3, <2>1
    <2>3. g[Nth(s, x)] = Nth(s, x - 1)
        BY <1>4, <2>1
    <2>4. QED BY <1>3, <1>7, <2>1, <2>2, <2>3
<1>10. ASSUME NEW j \in 0..L PROVE F[Nth(t, j)] = Nth(t, j + 1) /\ G[Nth(t, j + 1)] = Nth(t, j)
    <2>1. Old(j) \in 0..L /\ Old(j + 1) \in 1..(L + 1) /\ j \in 0..(L + 1) /\ j + 1 \in 0..(L + 1)
        BY <1>1
    <2>2. Ahead(Old(j)) = Old(j + 1) /\ Back(Old(j + 1)) = Old(j)
        BY <1>1
    <2> HIDE DEF Old, Ahead, Back
    <2>3. QED BY <1>2, <1>8, <1>9, <2>1, <2>2
<1>11. QED BY <1>2, <1>10 DEF ChainedNodes

\* SwapElements of neighbours.
LEMMA LinksAdjacent ==
    ASSUME NEW s, NodeChain(s), NEW a \in 1..Len(s), NEW b \in 1..Len(s), b = a + 1,
           NEW t, IsExchanged(t, s, a, b),
           NEW f \in LinkMaps, NEW g \in LinkMaps, ChainedNodes(f, g, s),
           NEW F, F = Led(Led(Led(f, Nth(s, a - 1), s[b]), s[a], Nth(s, b + 1)), s[b], s[a]),
           NEW G, G = Led(Led(Led(g, s[b], Nth(s, a - 1)), Nth(s, b + 1), s[a]), s[a], s[b])
    PROVE  ChainedNodes(F, G, t)
<1> DEFINE L == Len(s)
           Old(x) == IF x = a THEN b ELSE IF x = b THEN a ELSE x
           Ahead(x) == IF x = b THEN a ELSE IF x = a THEN b + 1 ELSE IF x = a - 1 THEN b ELSE x + 1
           Back(x) == IF x = a THEN b ELSE IF x = b + 1 THEN a ELSE IF x = b THEN a - 1 ELSE x - 1
<1>1. L \in Int /\ L >= 0 /\ a \in 1..L /\ b \in 1..L
    BY ChainLength
<1>2. Len(t) = L /\ \A j \in 0..(L + 1) : Nth(t, j) = Nth(s, Old(j))
    BY DEF IsExchanged
<1>3. /\ \A j \in Int : Nth(s, j) \in Ref
      /\ \A j, m \in 0..L : Nth(s, j) = Nth(s, m) => j = m
      /\ \A j, m \in 1..(L + 1) : Nth(s, j) = Nth(s, m) => j = m
      /\ s[a] = Nth(s, a) /\ s[b] = Nth(s, b)
    BY <1>1, NthIs
<1>4. \A j \in 0..L : f[Nth(s, j)] = Nth(s, j + 1) /\ g[Nth(s, j + 1)] = Nth(s, j)
    BY DEF ChainedNodes
<1>5. s[a] \in Ref /\ s[b] \in Ref /\ Nth(s, a - 1) \in Ref /\ Nth(s, b + 1) \in Ref
    BY <1>1, <1>3
<1>6. \A x \in Ref : F[x] = IF x = s[b] THEN s[a] ELSE IF x = s[a] THEN Nth(s, b + 1)
                            ELSE IF x = Nth(s, a - 1) THEN s[b] ELSE f[x]
    <2>1. LeadsThree(F, f, Nth(s, a - 1), s[b], s[a], Nth(s, b + 1), s[b], s[a])
        BY <1>5, LedThree
    <2>2. QED BY <2>1 DEF LeadsThree
<1>7. \A x \in Ref : G[x] = IF x = s[a] THEN s[b] ELSE IF x = Nth(s, b + 1) THEN s[a]
                            ELSE IF x = s[b] THEN Nth(s, a - 1) ELSE g[x]
    <2>1. LeadsThree(G, g, s[b], Nth(s, a - 1), Nth(s, b + 1), s[a], s[a], s[b])
        BY <1>5, LedThree
    <2>2. QED BY <2>1 DEF LeadsThree
<1> HIDE DEF L
<1>8. \A x \in 0..L : F[Nth(s, x)] = Nth(s, Ahead(x))
    <2> TAKE x \in 0..L
    <2>1. a - 1 \in 0..L /\ a \in 0..L /\ b \in 0..L /\ Nth(s, x) \in Ref
        BY <1>1, <1>3
    <2>2. /\ Nth(s, x) = Nth(s, a - 1) <=> x = a - 1
          /\ Nth(s, x) = s[b] <=> x = b
          /\ Nth(s, x) = s[a] <=> x = a
        BY <1>3, <2>1
    <2>3. f[Nth(s, x)] = Nth(s, x + 1)
        BY <1>4
    <2>4. QED BY <1>3, <1>6, <2>1, <2>2, <2>3
<1>9. \A x \in 1..(L + 1) : G[Nth(s, x)] = Nth(s, Back(x))
    <2> TAKE x \in 1..(L + 1)
    <2>1. b + 1 \in 1..(L + 1) /\ a \in 1..(L + 1) /\ b \in 1..(L + 1)
          /\ Nth(s, x) \in Ref /\ x - 1 \in 0..L /\ (x - 1) + 1 = x
        BY <1>1, <1>3
    <2>2. /\ Nth(s, x) = Nth(s, b + 1) <=> x = b + 1
          /\ Nth(s, x) = s[b] <=> x = b
          /\ Nth(s, x) = s[a] <=> x = a
        BY <1>3, <2>1
    <2>3. g[Nth(s, x)] = Nth(s, x - 1)
        BY <1>4, <2>1
    <2>4. QED BY <1>3, <1>7, <2>1, <2>2, <2>3
<1>10. ASSUME NEW j \in 0..L PROVE F[Nth(t, j)] = Nth(t, j + 1) /\ G[Nth(t, j + 1)] = Nth(t, j)
    <2>1. Old(j) \in 0..L /\ Old(j + 1) \in 1..(L + 1) /\ j \in 0..(L + 1) /\ j + 1 \in 0..(L + 1)
        BY <1>1
    <2>2. Ahead(Old(j)) = Old(j + 1) /\ Back(Old(j + 1)) = Old(j)
        BY <1>1
    <2> HIDE DEF Old, Ahead, Back
    <2>3. QED BY <1>2, <1>8, <1>9, <2>1, <2>2
<1>11. QED BY <1>2, <1>10 DEF ChainedNodes

-----------------------------------------------------------------------------

\* One node more at k + 1, none at k, two changed places.
WithNode(s, k, i) == SubSeq(s, 1, k) \o <<i>> \o SubSeq(s, k + 1, Len(s))

WithoutNode(s, k) == SubSeq(s, 1, k - 1) \o SubSeq(s, k + 1, Len(s))

Exchanged(s, i, j) ==
    [k \in 1..Len(s) |-> CASE s[k] = i -> j [] s[k] = j -> i [] OTHER -> s[k]]

\* Parts of a sequence of nodes.
LEMMA PartOf ==
    ASSUME NEW s \in Seq(Item), NEW m \in Int, NEW n \in Int, m >= 1, n <= Len(s), n >= m - 1
    PROVE  /\ SubSeq(s, m, n) \in Seq(Item) /\ Len(SubSeq(s, m, n)) = n - m + 1
           /\ \A j \in 1..(n - m + 1) : SubSeq(s, m, n)[j] = s[m + j - 1]
<1>1. Len(s) \in Nat
    BY LenProperties
<1>2. \A j \in m..n : s[j] \in Item
    <2> TAKE j \in m..n
    <2>1. j \in 1..Len(s)
        BY <1>1
    <2>2. QED BY <2>1, ElementOfSeq
<1>3. IF m <= n + 1 THEN n - m + 1 = n - m + 1 ELSE TRUE
    OBVIOUS
<1>4. /\ SubSeq(s, m, n) \in Seq(Item)
      /\ Len(SubSeq(s, m, n)) = IF m <= n THEN n - m + 1 ELSE 0
      /\ \A j \in 1..(n - m + 1) : SubSeq(s, m, n)[j] = s[m + j - 1]
    BY <1>1, <1>2, SubSeqProperties
<1>5. QED BY <1>4

LEMMA JoinedIs ==
    ASSUME NEW u \in Seq(Item), NEW v \in Seq(Item)
    PROVE  /\ u \o v \in Seq(Item) /\ Len(u \o v) = Len(u) + Len(v)
           /\ Len(u) \in Int /\ Len(u) >= 0 /\ Len(v) \in Int /\ Len(v) >= 0
           /\ \A j \in 1..(Len(u) + Len(v)) :
                  (u \o v)[j] = IF j <= Len(u) THEN u[j] ELSE v[j - Len(u)]
<1>1. Len(u) \in Nat /\ Len(v) \in Nat
    BY LenProperties
<1>2. QED BY <1>1, ConcatProperties

LEMMA WithNodeIs ==
    ASSUME NEW s, NodeChain(s), NEW k \in 0..Len(s), NEW i \in Item
    PROVE  IsPut(WithNode(s, k, i), s, k, i)
<1> DEFINE L == Len(s)
           u == SubSeq(s, 1, k)
           v == SubSeq(s, k + 1, Len(s))
           uw == u \o <<i>>
           t == uw \o v
<1>1. L \in Int /\ L >= 0 /\ k \in Int /\ k >= 0 /\ k <= L /\ s \in Seq(Item)
    BY ChainLength DEF NodeChain
<1>2. u \in Seq(Item) /\ Len(u) = k /\ \A j \in 1..k : u[j] = s[j]
    <2>1. /\ u \in Seq(Item) /\ Len(u) = k - 1 + 1
          /\ \A j \in 1..(k - 1 + 1) : u[j] = s[1 + j - 1]
        BY <1>1, PartOf
    <2> HIDE DEF u
    <2>2. QED BY <2>1, <1>1
<1>3. v \in Seq(Item) /\ Len(v) = L - k /\ \A j \in 1..(L - k) : v[j] = s[k + j]
    <2>1. /\ v \in Seq(Item) /\ Len(v) = L - (k + 1) + 1
          /\ \A j \in 1..(L - (k + 1) + 1) : v[j] = s[(k + 1) + j - 1]
        BY <1>1, PartOf
    <2> HIDE DEF v
    <2>2. QED BY <2>1, <1>1
<1>4. <<i>> \in Seq(Item) /\ Len(<<i>>) = 1 /\ <<i>>[1] = i
    OBVIOUS
<1> HIDE DEF u, v
<1>5. /\ uw \in Seq(Item) /\ Len(uw) = k + 1
      /\ \A j \in 1..(k + 1) : uw[j] = IF j <= k THEN s[j] ELSE i
    <2>1. /\ uw \in Seq(Item) /\ Len(uw) = Len(u) + Len(<<i>>)
          /\ \A j \in 1..(Len(u) + Len(<<i>>)) :
                 uw[j] = IF j <= Len(u) THEN u[j] ELSE <<i>>[j - Len(u)]
        BY <1>2, <1>4, JoinedIs
    <2> HIDE DEF uw
    <2>2. \A j \in 1..(k + 1) : ~(j <= k) => j - k = 1
        BY <1>1
    <2>3. QED BY <2>1, <2>2, <1>1, <1>2, <1>4
<1> HIDE DEF uw
<1>6. /\ t \in Seq(Item) /\ Len(t) = L + 1
      /\ \A j \in 1..(L + 1) :
             t[j] = IF j <= k THEN s[j] ELSE IF j = k + 1 THEN i ELSE s[j - 1]
    <2>1. /\ t \in Seq(Item) /\ Len(t) = Len(uw) + Len(v)
          /\ \A j \in 1..(Len(uw) + Len(v)) :
                 t[j] = IF j <= Len(uw) THEN uw[j] ELSE v[j - Len(uw)]
        BY <1>3, <1>5, JoinedIs
    <2> HIDE DEF t
    <2>2. ASSUME NEW j \in 1..(L + 1), j > k + 1 PROVE v[j - (k + 1)] = s[j - 1]
        <3>1. j - (k + 1) \in 1..(L - k) /\ k + (j - (k + 1)) = j - 1
            BY <1>1, <2>2
        <3>2. QED BY <3>1, <1>3
    <2>3. t \in Seq(Item) /\ Len(t) = L + 1
        BY <2>1, <1>1, <1>3, <1>5
    <2>4. ASSUME NEW j \in 1..(L + 1)
          PROVE  t[j] = IF j <= k THEN s[j] ELSE IF j = k + 1 THEN i ELSE s[j - 1]
        <3>1. t[j] = IF j <= k + 1 THEN uw[j] ELSE v[j - (k + 1)]
            BY <2>1, <1>1, <1>3, <1>5
        <3>2. CASE j <= k + 1
            <4>1. j \in 1..(k + 1)
                BY <1>1, <3>2
            <4>2. uw[j] = IF j <= k THEN s[j] ELSE i
                BY <4>1, <1>5
            <4>3. QED BY <4>1, <4>2, <3>1, <3>2, <1>1
        <3>3. CASE j > k + 1
            BY <3>1, <3>3, <2>2, <1>1
        <3>4. QED BY <3>2, <3>3, <1>1
    <2>5. QED BY <2>3, <2>4
<1>7. t = WithNode(s, k, i)
    BY DEF t, uw, u, v, WithNode
<1> HIDE DEF t
<1>8. ASSUME NEW j \in 0..(L + 2)
      PROVE  Nth(t, j) = IF j <= k THEN Nth(s, j) ELSE IF j = k + 1 THEN i ELSE Nth(s, j - 1)
    <2>1. CASE j \in 1..(L + 1)
        BY <1>1, <1>6, <2>1 DEF Nth
    <2>2. CASE j = 0
        BY <1>1, <1>6, <2>2 DEF Nth
    <2>3. CASE j = L + 2
        BY <1>1, <1>6, <2>3 DEF Nth
    <2>4. QED BY <1>1, <2>1, <2>2, <2>3
<1>9. QED BY <1>6, <1>7, <1>8 DEF IsPut

LEMMA WithoutNodeIs ==
    ASSUME NEW s, NodeChain(s), NEW k \in 1..Len(s)
    PROVE  IsTaken(WithoutNode(s, k), s, k)
<1> DEFINE L == Len(s)
           u == SubSeq(s, 1, k - 1)
           v == SubSeq(s, k + 1, Len(s))
           t == u \o v
<1>1. L \in Int /\ L >= 0 /\ k \in Int /\ k >= 1 /\ k <= L /\ s \in Seq(Item)
    BY ChainLength DEF NodeChain
<1>2. u \in Seq(Item) /\ Len(u) = k - 1 /\ \A j \in 1..(k - 1) : u[j] = s[j]
    <2>1. /\ u \in Seq(Item) /\ Len(u) = (k - 1) - 1 + 1
          /\ \A j \in 1..((k - 1) - 1 + 1) : u[j] = s[1 + j - 1]
        BY <1>1, PartOf
    <2> HIDE DEF u
    <2>2. QED BY <2>1, <1>1
<1>3. v \in Seq(Item) /\ Len(v) = L - k /\ \A j \in 1..(L - k) : v[j] = s[k + j]
    <2>1. /\ v \in Seq(Item) /\ Len(v) = L - (k + 1) + 1
          /\ \A j \in 1..(L - (k + 1) + 1) : v[j] = s[(k + 1) + j - 1]
        BY <1>1, PartOf
    <2> HIDE DEF v
    <2>2. QED BY <2>1, <1>1
<1> HIDE DEF u, v
<1>4. /\ t \in Seq(Item) /\ Len(t) = L - 1
      /\ \A j \in 1..(L - 1) : t[j] = IF j < k THEN s[j] ELSE s[j + 1]
    <2>1. /\ t \in Seq(Item) /\ Len(t) = Len(u) + Len(v)
          /\ \A j \in 1..(Len(u) + Len(v)) :
                 t[j] = IF j <= Len(u) THEN u[j] ELSE v[j - Len(u)]
        BY <1>2, <1>3, JoinedIs
    <2> HIDE DEF t
    <2>2. ASSUME NEW j \in 1..(L - 1), j >= k PROVE v[j - (k - 1)] = s[j + 1]
        <3>1. j - (k - 1) \in 1..(L - k) /\ k + (j - (k - 1)) = j + 1
            BY <1>1, <2>2
        <3>2. QED BY <3>1, <1>3
    <2>3. t \in Seq(Item) /\ Len(t) = L - 1
        BY <2>1, <1>1, <1>2, <1>3
    <2>4. ASSUME NEW j \in 1..(L - 1) PROVE t[j] = IF j < k THEN s[j] ELSE s[j + 1]
        <3>1. t[j] = IF j <= k - 1 THEN u[j] ELSE v[j - (k - 1)]
            <4>1. Len(u) = k - 1
                BY <1>2
            <4>2. Len(u) + Len(v) = L - 1
                BY <1>1, <1>2, <1>3
            <4>3. j \in 1..(Len(u) + Len(v))
                BY <4>2
            <4>4. QED BY <4>1, <4>3, <2>1
        <3>2. CASE j < k
            <4>1. j \in 1..(k - 1) /\ j <= k - 1
                BY <1>1, <3>2
            <4>2. QED BY <4>1, <3>1, <3>2, <1>2
        <3>3. CASE j >= k
            <4>1. ~(j <= k - 1) /\ ~(j < k)
                BY <3>3, <1>1
            <4>2. QED BY <4>1, <3>1, <3>3, <2>2
        <3>4. QED BY <3>2, <3>3, <1>1
    <2>5. QED BY <2>3, <2>4
<1>5. t = WithoutNode(s, k)
    BY DEF t, u, v, WithoutNode
<1> HIDE DEF t
<1>6. ASSUME NEW j \in 0..L PROVE Nth(t, j) = IF j < k THEN Nth(s, j) ELSE Nth(s, j + 1)
    <2>1. CASE j \in 1..(L - 1)
        BY <1>1, <1>4, <2>1 DEF Nth
    <2>2. CASE j = 0
        BY <1>1, <1>4, <2>2 DEF Nth
    <2>3. CASE j = L
        BY <1>1, <1>4, <2>3 DEF Nth
    <2>4. QED BY <1>1, <2>1, <2>2, <2>3
<1>7. QED BY <1>4, <1>5, <1>6 DEF IsTaken

LEMMA ExchangedIs ==
    ASSUME NEW s, NodeChain(s), NEW a \in 1..Len(s), NEW b \in 1..Len(s)
    PROVE  IsExchanged(Exchanged(s, s[a], s[b]), s, a, b)
<1> DEFINE L == Len(s)
           t == Exchanged(s, s[a], s[b])
<1>1. L \in Int /\ L >= 0 /\ L \in Nat /\ a \in 1..L /\ b \in 1..L /\ \A k \in 1..L : s[k] \in Item
    BY ChainLength, ElementOfSeq DEF NodeChain
<1>2. \A j \in 1..L : (s[j] = s[a] <=> j = a) /\ (s[j] = s[b] <=> j = b)
    BY <1>1 DEF NodeChain
<1>3. t = [j \in 1..L |-> IF j = a THEN s[b] ELSE IF j = b THEN s[a] ELSE s[j]]
    BY <1>2 DEF Exchanged
<1> HIDE DEF t, L
<1>4. /\ \A j \in 1..L : t[j] = IF j = a THEN s[b] ELSE IF j = b THEN s[a] ELSE s[j]
      /\ t \in [1..L -> Item]
    BY <1>1, <1>3
<1>5. t \in Seq(Item) /\ Len(t) = L
    BY <1>1, <1>4, SeqDef, LenProperties
<1>6. ASSUME NEW j \in 0..(L + 1)
      PROVE  Nth(t, j) = IF j = a THEN Nth(s, b) ELSE IF j = b THEN Nth(s, a) ELSE Nth(s, j)
    <2>1. CASE j \in 1..L
        BY <1>1, <1>4, <1>5, <2>1 DEF Nth, L
    <2>2. CASE j \notin 1..L
        BY <1>1, <1>5, <2>2 DEF Nth, L
    <2>3. QED BY <2>1, <2>2
<1>7. QED BY <1>5, <1>6 DEF IsExchanged, t, L

-----------------------------------------------------------------------------

(***************************************************************************)
(* A walk along the links.                                                 *)
(***************************************************************************)

\* The walks of each length, as LinkedFrom builds them.
WalksUpTo(A, link, N) ==
    A = [n \in 0..N |-> [i \in 0..MaxItems |->
            IF i = 0 \/ n = 0 THEN <<>> ELSE <<i>> \o A[n - 1][link[i]]]]

LEMMA WalkingWorks ==
    ASSUME NEW link, NEW N \in Nat
    PROVE  \E A : WalksUpTo(A, link, N)
<1> DEFINE Bad == {k \in Nat : ~\E A : WalksUpTo(A, link, k)}
<1>1. SUFFICES ASSUME Bad # {} PROVE FALSE
    OBVIOUS
<1>2. PICK m \in Bad : \A k \in Bad : m <= k
    <2>1. Bad \subseteq Nat
        OBVIOUS
    <2> HIDE DEF Bad
    <2>2. QED BY <1>1, <2>1, LeastNatural
<1>3. m # 0
    <2>1. WalksUpTo([n \in 0..0 |-> [i \in 0..MaxItems |-> <<>>]], link, 0)
        BY DEF WalksUpTo
    <2>2. QED BY <2>1
<1>4. m \in Nat /\ m - 1 \in Nat /\ m - 1 \notin Bad
    BY <1>2, <1>3
<1>5. PICK A : WalksUpTo(A, link, m - 1)
    BY <1>4
<1> DEFINE Row(F, n) == [i \in 0..MaxItems |->
                            IF i = 0 \/ n = 0 THEN <<>> ELSE <<i>> \o F[n - 1][link[i]]]
           B == [n \in 0..m |-> IF n = m THEN Row(A, m) ELSE A[n]]
<1>6. A = [n \in 0..(m - 1) |-> Row(A, n)]
    BY <1>5 DEF WalksUpTo
<1>7. \A n \in 0..m : B[n] = Row(B, n)
    <2> TAKE n \in 0..m
    <2>1. n # 0 => n - 1 \in 0..m /\ n - 1 # m
        BY <1>4
    <2>2. n # 0 => B[n - 1] = A[n - 1]
        BY <2>1
    <2>3. Row(B, n) = Row(A, n)
        <3> HIDE DEF B
        <3>1. QED BY <2>2
    <2> HIDE DEF Row
    <2>4. CASE n = m
        BY <2>3, <2>4
    <2>5. CASE n # m
        <3>1. n \in 0..(m - 1)
            BY <2>5, <1>4
        <3>2. QED BY <2>3, <2>5, <3>1, <1>6
    <2>6. QED BY <2>4, <2>5
<1>8. B = [n \in 0..m |-> Row(B, n)]
    <2>1. B = [n \in 0..m |-> B[n]]
        OBVIOUS
    <2> HIDE DEF B, Row
    <2>2. QED BY <2>1, <1>7
<1>9. WalksUpTo(B, link, m)
    <2> HIDE DEF B
    <2>1. QED BY <1>8 DEF WalksUpTo
<1>10. QED BY <1>2, <1>9

\* A chain is no longer than there are nodes.
LEMMA ChainFits ==
    ASSUME NEW s, NodeChain(s)
    PROVE  Len(s) <= MaxItems
<1>1. Len(s) \in Nat /\ s \in [1..Len(s) -> Item]
    BY ChainLength, LenProperties DEF NodeChain
<1>2. \A n \in Nat : IsFiniteSet(1..n) /\ Cardinality(1..n) = n
    <2> TAKE n \in Nat
    <2>1. Cardinality(1..n) = IF 1 <= n THEN n - 1 + 1 ELSE 0
        BY FS_Interval
    <2>2. IsFiniteSet(1..n)
        BY FS_Interval
    <2>3. QED BY <2>1, <2>2
<1>3. s \in Injection(1..Len(s), Item)
    BY <1>1 DEF Injection, IsInjective, NodeChain
<1>4. Cardinality(1..Len(s)) <= Cardinality(Item)
    <2>1. IsFiniteSet(Item)
        BY <1>2, ListAssumption DEF Item
    <2>2. QED BY <2>1, <1>3, FS_Injection
<1>5. QED BY <1>1, <1>2, <1>4, ListAssumption DEF Item

\* The end of a sequence, one more at a time.
LEMMA EndOf ==
    ASSUME NEW s \in Seq(Item), NEW k \in 1..Len(s)
    PROVE  <<s[k]>> \o SubSeq(s, k + 1, Len(s)) = SubSeq(s, k, Len(s))
<1> DEFINE L == Len(s)
           u == <<s[k]>>
           v == SubSeq(s, k + 1, Len(s))
           w == SubSeq(s, k, Len(s))
           t == u \o v
<1>1. L \in Int /\ L >= 0 /\ k \in Int /\ k >= 1 /\ k <= L /\ s[k] \in Item
    BY LenProperties, ElementOfSeq
<1>2. u \in Seq(Item) /\ Len(u) = 1 /\ u[1] = s[k]
    BY <1>1
<1>3. v \in Seq(Item) /\ Len(v) = L - k /\ \A j \in 1..(L - k) : v[j] = s[k + j]
    <2>1. /\ v \in Seq(Item) /\ Len(v) = L - (k + 1) + 1
          /\ \A j \in 1..(L - (k + 1) + 1) : v[j] = s[(k + 1) + j - 1]
        BY <1>1, PartOf
    <2> HIDE DEF v
    <2>2. QED BY <2>1, <1>1
<1>4. w \in Seq(Item) /\ Len(w) = L - k + 1 /\ \A j \in 1..(L - k + 1) : w[j] = s[k + j - 1]
    BY <1>1, PartOf
<1> HIDE DEF u, v, w
<1>5. /\ t \in Seq(Item) /\ Len(t) = Len(u) + Len(v)
      /\ \A j \in 1..(Len(u) + Len(v)) : t[j] = IF j <= Len(u) THEN u[j] ELSE v[j - Len(u)]
    BY <1>2, <1>3, JoinedIs
<1> HIDE DEF t
<1>6. ASSUME NEW j \in 1..(L - k + 1) PROVE t[j] = s[k + j - 1]
    <2>1. t[j] = IF j <= 1 THEN u[j] ELSE v[j - 1]
        BY <1>1, <1>2, <1>3, <1>5
    <2>2. CASE j = 1
        BY <2>1, <2>2, <1>1, <1>2
    <2>3. CASE j # 1
        <3>1. j - 1 \in 1..(L - k) /\ ~(j <= 1) /\ k + (j - 1) = k + j - 1
            BY <2>3, <1>1
        <3>2. QED BY <3>1, <2>1, <1>3
    <2>4. QED BY <2>2, <2>3
<1>7. t = w
    <2>1. Len(t) = Len(w) /\ \A j \in 1..Len(t) : t[j] = w[j]
        BY <1>1, <1>2, <1>3, <1>4, <1>5, <1>6
    <2>2. QED BY <2>1, <1>4, <1>5, SeqEqual
<1>8. QED BY <1>7 DEF t, u, v, w

\* Where the links lead along a chain, LinkedFrom finds the chain.
LEMMA Walked ==
    ASSUME NEW s, NodeChain(s), NEW link, \A k \in 1..Len(s) : link[s[k]] = Nth(s, k + 1)
    PROVE  LinkedFrom(Nth(s, 1), link) = s
<1> DEFINE L == Len(s)
           N == MaxItems + 1
           Along[n \in 0..(MaxItems + 1)] ==
               [i \in 0..MaxItems |->
                   IF i = 0 \/ n = 0 THEN <<>> ELSE <<i>> \o Along[n - 1][link[i]]]
<1>1. L \in Int /\ L >= 0 /\ L <= MaxItems /\ N \in Nat /\ s \in Seq(Item) /\ L < N
    BY ChainLength, ChainFits, ListAssumption DEF NodeChain
<1>2. LinkedFrom(Nth(s, 1), link) = Along[N][Nth(s, 1)]
    BY DEF LinkedFrom
<1>3. Along = CHOOSE A : A = [n \in 0..(MaxItems + 1) |-> [i \in 0..MaxItems |->
                  IF i = 0 \/ n = 0 THEN <<>> ELSE <<i>> \o A[n - 1][link[i]]]]
    BY DEF Along
<1> HIDE DEF Along
<1>4. WalksUpTo(Along, link, N)
    <2>1. PICK A : WalksUpTo(A, link, N)
        BY <1>1, WalkingWorks
    <2>2. A = [n \in 0..(MaxItems + 1) |-> [i \in 0..MaxItems |->
                  IF i = 0 \/ n = 0 THEN <<>> ELSE <<i>> \o A[n - 1][link[i]]]]
        BY <2>1 DEF WalksUpTo
    <2>3. Along = [n \in 0..(MaxItems + 1) |-> [i \in 0..MaxItems |->
                  IF i = 0 \/ n = 0 THEN <<>> ELSE <<i>> \o Along[n - 1][link[i]]]]
        BY <1>3, <2>2
    <2>4. QED BY <2>3 DEF WalksUpTo
<1>5. \A n \in 0..N, i \in Ref :
          Along[n][i] = IF i = 0 \/ n = 0 THEN <<>> ELSE <<i>> \o Along[n - 1][link[i]]
    <2> TAKE n \in 0..N, i \in Ref
    <2>1. Along[n] = [j \in 0..MaxItems |->
                         IF j = 0 \/ n = 0 THEN <<>> ELSE <<j>> \o Along[n - 1][link[j]]]
        BY <1>4 DEF WalksUpTo
    <2>2. QED BY <2>1 DEF Ref
<1> HIDE DEF L, N
\* From the node m places before the end a walk of m steps is enough.
<1> DEFINE Ends(m) == \A n \in m..N : Along[n][Nth(s, L + 1 - m)] = SubSeq(s, L + 1 - m, L)
           Bad == {m \in 0..L : ~Ends(m)}
<1>6. Bad = {}
    <2>1. SUFFICES ASSUME Bad # {} PROVE FALSE
        OBVIOUS
    <2>2. PICK m \in Bad : \A k \in Bad : m <= k
        <3>1. Bad \subseteq Nat
            BY <1>1
        <3> HIDE DEF Bad
        <3>2. QED BY <2>1, <3>1, LeastNatural
    <2>3. m \in 0..L /\ ~Ends(m)
        BY <2>2
    <2> SUFFICES ASSUME NEW n \in m..N PROVE Along[n][Nth(s, L + 1 - m)] = SubSeq(s, L + 1 - m, L)
        BY <2>3
    <2> DEFINE k == L + 1 - m
    <2>4. n \in 0..N /\ k \in Int /\ Nth(s, k) \in Ref
        BY <2>3, <1>1, NthIs
    <2>5. Along[n][Nth(s, k)] = IF Nth(s, k) = 0 \/ n = 0 THEN <<>>
                                ELSE <<Nth(s, k)>> \o Along[n - 1][link[Nth(s, k)]]
        BY <2>4, <1>5
    <2>6. CASE m = 0
        <3>1. Nth(s, k) = 0
            BY <2>6, <1>1, NthIs DEF L
        <3>2. SubSeq(s, L + 1, L) = <<>>
            <4>1. L + 1 \in Int /\ L + 1 >= 1 /\ L <= Len(s) /\ L >= (L + 1) - 1 /\ L - (L + 1) + 1 = 0
                BY <1>1 DEF L
            <4>2. SubSeq(s, L + 1, L) \in Seq(Item) /\ Len(SubSeq(s, L + 1, L)) = L - (L + 1) + 1
                BY <4>1, <1>1, PartOf
            <4>3. QED BY <4>1, <4>2, EmptySeq
        <3>3. k = L + 1
            BY <2>6, <1>1
        <3>4. QED BY <2>5, <3>1, <3>2, <3>3
    <2>7. CASE m # 0
        <3>1. /\ m - 1 \in 0..L /\ n - 1 \in (m - 1)..N /\ n # 0 /\ k \in 1..L
              /\ L + 1 - (m - 1) = k + 1
            <4>1. m \in 0..L
                BY <2>3
            <4> HIDE DEF Ends, Bad
            <4>2. QED BY <4>1, <2>7, <1>1
        <3>2. Ends(m - 1)
            <4>1. m - 1 \notin Bad
                BY <2>2, <2>3, <3>1
            <4>2. QED BY <3>1, <4>1
        <3>3. Along[n - 1][Nth(s, k + 1)] = SubSeq(s, k + 1, L)
            BY <3>1, <3>2
        <3>4. Nth(s, k) = s[k] /\ Nth(s, k) # 0 /\ link[s[k]] = Nth(s, k + 1)
            BY <3>1, NthIs DEF L
        <3>5. <<s[k]>> \o SubSeq(s, k + 1, L) = SubSeq(s, k, L)
            BY <3>1, <1>1, EndOf DEF L
        <3> HIDE DEF k, Ends, Bad
        <3>6. QED BY <2>5, <3>1, <3>3, <3>4, <3>5 DEF k
    <2>8. QED BY <2>6, <2>7
<1>7. Ends(L)
    <2>1. L \in 0..L
        BY <1>1
    <2>2. QED BY <2>1, <1>6
<1>8. N \in L..N /\ L + 1 - L = 1
    BY <1>1
<1>9. Along[N][Nth(s, 1)] = SubSeq(s, 1, L)
    <2>1. Along[N][Nth(s, L + 1 - L)] = SubSeq(s, L + 1 - L, L)
        BY <1>7, <1>8
    <2>2. QED BY <2>1, <1>8
<1>10. SubSeq(s, 1, L) = s
    <2>1. /\ SubSeq(s, 1, L) \in Seq(Item) /\ Len(SubSeq(s, 1, L)) = L - 1 + 1
          /\ \A j \in 1..(L - 1 + 1) : SubSeq(s, 1, L)[j] = s[1 + j - 1]
        BY <1>1, PartOf DEF L
    <2> DEFINE w == SubSeq(s, 1, L)
    <2> HIDE DEF w
    <2>2. w \in Seq(Item) /\ Len(w) = Len(s) /\ \A j \in 1..Len(w) : w[j] = s[j]
        BY <2>1, <1>1 DEF w, L
    <2>3. w = s
        BY <2>2, <1>1, SeqEqual
    <2>4. QED BY <2>3 DEF w
<1>11. QED BY <1>2, <1>9, <1>10

-----------------------------------------------------------------------------

(***************************************************************************)
(* The list that holds the nodes of s in their order.                      *)
(***************************************************************************)

ListLinks(l, s) ==
    /\ l \in ListFields
    /\ NodeChain(s)
    /\ ChainedNodes(Nexts(l), Prevs(l), s)
    /\ l.used = ItemsOf(s)
    /\ l.nElements = Len(s)
    /\ l.blocks <=> l.used # {}

\* What the links of a node and of the ends say.
LEMMA LinkedIs ==
    ASSUME NEW l, NEW s, ListLinks(l, s)
    PROVE  /\ l.head = Nth(s, 1) /\ l.tail = Nth(s, Len(s))
           /\ \A k \in 1..Len(s) : l.next[s[k]] = Nth(s, k + 1) /\ l.prev[s[k]] = Nth(s, k - 1)
           /\ \A k \in 1..Len(s) : s[k] \in Item
<1> DEFINE f == Nexts(l)
           g == Prevs(l)
           L == Len(s)
<1>1. L \in Int /\ L >= 0 /\ NodeChain(s)
    BY ChainLength DEF ListLinks
<1>2. \A k \in 0..L : f[Nth(s, k)] = Nth(s, k + 1) /\ g[Nth(s, k + 1)] = Nth(s, k)
    BY DEF ListLinks, ChainedNodes
<1>3. /\ f[0] = l.head /\ g[0] = l.tail
      /\ \A i \in Item : f[i] = l.next[i] /\ g[i] = l.prev[i]
    BY LinksOf DEF ListLinks
<1>4. /\ \A k \in 1..L : Nth(s, k) = s[k] /\ s[k] \in Item
      /\ Nth(s, 0) = 0 /\ Nth(s, L + 1) = 0
    BY <1>1, NthIs
<1> HIDE DEF f, g, L
<1>5. l.head = Nth(s, 1) /\ l.tail = Nth(s, L)
    <2>1. f[Nth(s, 0)] = Nth(s, 0 + 1) /\ g[Nth(s, L + 1)] = Nth(s, L)
        BY <1>1, <1>2
    <2>2. QED BY <2>1, <1>3, <1>4
<1>6. ASSUME NEW k \in 1..L PROVE l.next[s[k]] = Nth(s, k + 1) /\ l.prev[s[k]] = Nth(s, k - 1)
    <2>1. k \in 0..L /\ k - 1 \in 0..L /\ (k - 1) + 1 = k
        BY <1>1
    <2>2. f[Nth(s, k)] = Nth(s, k + 1) /\ g[Nth(s, k)] = Nth(s, k - 1)
        BY <2>1, <1>2
    <2>3. QED BY <2>2, <1>3, <1>4
<1>7. QED BY <1>4, <1>5, <1>6 DEF L

LEMMA UsedIs ==
    ASSUME NEW l, NEW s, ListLinks(l, s), NEW i \in l.used
    PROVE  \E k \in 1..Len(s) : s[k] = i
    BY DEF ListLinks, ItemsOf

\* The chain is what LinkedFrom finds.
LEMMA LinkedOrder ==
    ASSUME NEW l, NEW s, ListLinks(l, s)
    PROVE  LinkedFrom(l.head, l.next) = s
<1>1. NodeChain(s) /\ l.head = Nth(s, 1) /\ \A k \in 1..Len(s) : l.next[s[k]] = Nth(s, k + 1)
    BY LinkedIs DEF ListLinks
<1>2. LinkedFrom(Nth(s, 1), l.next) = s
    BY <1>1, Walked
<1>3. QED BY <1>1, <1>2

LEMMA EmptyLinked == ListLinks(EmptyList, <<>>)
<1> DEFINE l == EmptyList
<1>1. l \in ListFields
    BY Refs DEF EmptyList, ListFields
<1>2. l.head = 0 /\ l.tail = 0 /\ l.used = {} /\ l.nElements = 0 /\ l.blocks = FALSE
    BY DEF EmptyList
<1> HIDE DEF l
<1>3. <<>> \in Seq(Item) /\ Len(<<>>) = 0
    OBVIOUS
<1>4. NodeChain(<<>>) /\ ItemsOf(<<>>) = {} /\ \A k \in Int : Nth(<<>>, k) = 0
    BY <1>3 DEF NodeChain, ItemsOf, Nth
<1>5. Nexts(l)[0] = 0 /\ Prevs(l)[0] = 0
    BY <1>1, <1>2, LinksOf
<1>6. ChainedNodes(Nexts(l), Prevs(l), <<>>)
    BY <1>3, <1>4, <1>5 DEF ChainedNodes
<1>7. QED BY <1>1, <1>2, <1>3, <1>4, <1>6 DEF ListLinks, l

\* NewNode fills a node, and its links lead away.
IsNewItem(m, l, i, p, n) ==
    /\ m \in ListFields
    /\ m.used = l.used \cup {i} /\ m.nElements = l.nElements + 1 /\ m.blocks = TRUE
    /\ Nexts(m) = Led(Nexts(l), i, n)
    /\ Prevs(m) = Led(Prevs(l), i, p)

LEMMA NewItemLed ==
    ASSUME NEW l \in ListFields, NEW i \in Item, NEW e \in Elements, NEW p \in Ref, NEW n \in Ref
    PROVE  IsNewItem(NewItem(l, i, e, p, n), l, i, p, n)
<1> DEFINE m == NewItem(l, i, e, p, n)
           w == WithPrev(WithNext(l, i, n), i, p)
<1>1. /\ WithNext(l, i, n) \in ListFields
      /\ Nexts(WithNext(l, i, n)) = Led(Nexts(l), i, n)
      /\ Prevs(WithNext(l, i, n)) = Prevs(l)
    BY NextLed
<1>2. w \in ListFields /\ Nexts(w) = Led(Nexts(l), i, n) /\ Prevs(w) = Led(Prevs(l), i, p)
    BY <1>1, PrevLed
<1>3. w.head = l.head /\ w.tail = l.tail /\ w.next = [l.next EXCEPT ![i] = n] /\ w.prev = [l.prev EXCEPT ![i] = p]
    BY DEF WithNext, WithPrev, ListFields
<1>4. /\ m \in ListFields
      /\ m.used = l.used \cup {i} /\ m.nElements = l.nElements + 1 /\ m.blocks = TRUE
      /\ m.head = l.head /\ m.tail = l.tail /\ m.next = [l.next EXCEPT ![i] = n] /\ m.prev = [l.prev EXCEPT ![i] = p]
    <2> DEFINE u == l.used \cup {i}
               el == [l.element EXCEPT ![i] = e]
               ne == [l.next EXCEPT ![i] = n]
               pr == [l.prev EXCEPT ![i] = p]
    <2>1. m = [l EXCEPT !.used = u, !.nElements = l.nElements + 1, !.blocks = TRUE,
                        !.element = el, !.prev = pr, !.next = ne]
        BY DEF NewItem, ListFields
    <2>2. /\ l.head \in Ref /\ l.tail \in Ref /\ u \in SUBSET Item /\ l.nElements + 1 \in Int
          /\ el \in [Item -> Elements \cup {0}] /\ ne \in [Item -> Ref] /\ pr \in [Item -> Ref]
        BY DEF ListFields
    <2> HIDE DEF u, el, ne, pr, m
    <2>3. m \in ListFields
        BY <2>1, <2>2 DEF ListFields
    <2>4. /\ m.used = u /\ m.nElements = l.nElements + 1 /\ m.blocks = TRUE
          /\ m.head = l.head /\ m.tail = l.tail /\ m.next = ne /\ m.prev = pr
        BY <2>1 DEF ListFields
    <2>5. QED BY <2>3, <2>4 DEF u, ne, pr
<1> HIDE DEF m, w
<1>5. Nexts(m) = Nexts(w) /\ Prevs(m) = Prevs(w)
    BY <1>3, <1>4 DEF Nexts, Prevs
<1>6. IsNewItem(m, l, i, p, n)
    BY <1>2, <1>4, <1>5 DEF IsNewItem
<1>7. QED BY <1>6 DEF m

\* A new node finds its place between two.
LEMMA Places ==
    ASSUME NEW l, NEW s, ListLinks(l, s), NEW k \in 0..Len(s), NEW i \in Item, i \notin l.used,
           NEW e \in Elements, NEW p, p = Nth(s, k), NEW n, n = Nth(s, k + 1)
    PROVE  ListLinks(Place(l, i, e, p, n), WithNode(s, k, i))
<1> DEFINE t == WithNode(s, k, i)
           x == NewItem(l, i, e, p, n)
           y == LinkBehind(x, p, i)
           z == LinkBefore(y, n, i)
<1>1. NodeChain(s) /\ l \in ListFields /\ ChainedNodes(Nexts(l), Prevs(l), s) /\ i \notin ItemsOf(s)
      /\ Len(s) \in Int /\ i \in Ref /\ l.used = ItemsOf(s) /\ l.nElements = Len(s)
    BY ChainLength, Refs DEF ListLinks
<1>2. IsPut(t, s, k, i)
    BY <1>1, WithNodeIs
<1> HIDE DEF t
<1>3. NodeChain(t) /\ ItemsOf(t) = ItemsOf(s) \cup {i} /\ Len(t) = Len(s) + 1
    <2>1. NodeChain(t) /\ ItemsOf(t) = ItemsOf(s) \cup {i}
        BY <1>1, <1>2, ChainPut
    <2>2. QED BY <2>1, <1>2 DEF IsPut
<1>4. p \in Ref /\ n \in Ref
    <2>1. k \in Int /\ k + 1 \in Int
        BY <1>1
    <2>2. QED BY <2>1, <1>1, NthIs
<1>5. /\ x \in ListFields /\ x.used = l.used \cup {i} /\ x.nElements = l.nElements + 1 /\ x.blocks = TRUE
      /\ Nexts(x) = Led(Nexts(l), i, n) /\ Prevs(x) = Led(Prevs(l), i, p)
    <2>1. l \in ListFields /\ p \in Ref /\ n \in Ref
        BY <1>1, <1>4
    <2>2. IsNewItem(x, l, i, p, n)
        BY <2>1, NewItemLed
    <2>3. QED BY <2>2 DEF IsNewItem
<1> HIDE DEF x
<1>6. /\ y \in ListFields /\ SameItems(x, y)
      /\ Nexts(y) = Led(Nexts(x), p, i) /\ Prevs(y) = Prevs(x)
    BY <1>1, <1>4, <1>5, LedBehind
<1> HIDE DEF y
<1>7. /\ z \in ListFields /\ SameItems(y, z)
      /\ Prevs(z) = Led(Prevs(y), n, i) /\ Nexts(z) = Nexts(y)
    BY <1>1, <1>4, <1>6, LedBefore
<1> HIDE DEF z
<1>8. ChainedNodes(Led(Led(Nexts(l), i, n), p, i), Led(Led(Prevs(l), i, p), n, i), t)
    <2>1. Nexts(l) \in LinkMaps /\ Prevs(l) \in LinkMaps
        BY <1>1, LinksOf
    <2>2. QED BY <1>1, <1>2, <2>1, LinksPut
<1>9. ChainedNodes(Nexts(z), Prevs(z), t)
    BY <1>5, <1>6, <1>7, <1>8
<1>10. z.used = ItemsOf(t) /\ z.nElements = Len(t) /\ (z.blocks <=> z.used # {})
    BY <1>1, <1>3, <1>5, <1>6, <1>7 DEF SameItems
<1>11. ListLinks(z, t)
    BY <1>3, <1>7, <1>9, <1>10 DEF ListLinks
<1>12. QED BY <1>11 DEF z, y, x, t, Place

\* What is left around a node that is taken out: it keeps its own links.
LEMMA Bridges ==
    ASSUME NEW l, NEW s, ListLinks(l, s), NEW k \in 1..Len(s), NEW i, i = s[k]
    PROVE  /\ Bridge(l, i) \in ListFields /\ SameItems(l, Bridge(l, i))
           /\ NodeChain(WithoutNode(s, k)) /\ ItemsOf(WithoutNode(s, k)) = ItemsOf(s) \ {i}
           /\ Len(WithoutNode(s, k)) = Len(s) - 1
           /\ ChainedNodes(Nexts(Bridge(l, i)), Prevs(Bridge(l, i)), WithoutNode(s, k))
<1> DEFINE t == WithoutNode(s, k)
           p == Nth(s, k - 1)
           n == Nth(s, k + 1)
           y == LinkBehind(l, p, n)
           z == LinkBefore(y, n, p)
<1>1. NodeChain(s) /\ l \in ListFields /\ ChainedNodes(Nexts(l), Prevs(l), s) /\ Len(s) \in Int
    BY ChainLength DEF ListLinks
<1>2. IsTaken(t, s, k)
    BY <1>1, WithoutNodeIs
<1> HIDE DEF t
<1>3. NodeChain(t) /\ ItemsOf(t) = ItemsOf(s) \ {i} /\ Len(t) = Len(s) - 1
    <2>1. NodeChain(t) /\ ItemsOf(t) = ItemsOf(s) \ {s[k]}
        BY <1>1, <1>2, ChainTaken
    <2>2. QED BY <2>1, <1>2 DEF IsTaken
<1>4. p \in Ref /\ n \in Ref
    <2>1. k - 1 \in Int /\ k + 1 \in Int
        BY <1>1
    <2>2. QED BY <2>1, <1>1, NthIs
<1>5. l.prev[i] = p /\ l.next[i] = n
    BY LinkedIs
<1>6. ChainedNodes(Led(Nexts(l), p, n), Led(Prevs(l), n, p), t)
    <2>1. Nexts(l) \in LinkMaps /\ Prevs(l) \in LinkMaps
        BY <1>1, LinksOf
    <2>2. QED BY <1>1, <1>2, <2>1, LinksTaken
<1> HIDE DEF p, n
<1>7. /\ y \in ListFields /\ SameItems(l, y)
      /\ Nexts(y) = Led(Nexts(l), p, n) /\ Prevs(y) = Prevs(l)
    BY <1>1, <1>4, LedBehind
<1> HIDE DEF y
<1>8. /\ z \in ListFields /\ SameItems(y, z)
      /\ Prevs(z) = Led(Prevs(y), n, p) /\ Nexts(z) = Nexts(y)
    BY <1>1, <1>4, <1>7, LedBefore
<1> HIDE DEF z
<1>9. ChainedNodes(Nexts(z), Prevs(z), t) /\ SameItems(l, z)
    BY <1>6, <1>7, <1>8 DEF SameItems
<1>10. z = Bridge(l, i)
    BY <1>5 DEF z, y, Bridge
<1>11. QED BY <1>3, <1>8, <1>9, <1>10 DEF t

\* A node is taken out and freed; the last one takes the blocks with it.
LEMMA Frees ==
    ASSUME NEW l, NEW s, ListLinks(l, s), NEW k \in 1..Len(s), NEW i, i = s[k]
    PROVE  ListLinks(FreeItemOf(Bridge(l, i), i), WithoutNode(s, k))
<1> DEFINE t == WithoutNode(s, k)
           b == Bridge(l, i)
           less == [b EXCEPT !.used = b.used \ {i}, !.nElements = b.nElements - 1]
           bare == [less EXCEPT !.head = 0, !.tail = 0, !.blocks = FALSE]
           z == FreeItemOf(b, i)
<1>1. /\ b \in ListFields /\ SameItems(l, b) /\ NodeChain(t) /\ ItemsOf(t) = ItemsOf(s) \ {i}
      /\ Len(t) = Len(s) - 1 /\ ChainedNodes(Nexts(b), Prevs(b), t)
    BY Bridges
<1>2. /\ l.used = ItemsOf(s) /\ l.nElements = Len(s) /\ (l.blocks <=> l.used # {})
      /\ Len(s) \in Int /\ i \in ItemsOf(s) /\ i \in Item
    BY ChainLength, LinkedIs DEF ListLinks, ItemsOf
<1> HIDE DEF b, t
<1>3. /\ b.used = ItemsOf(s) /\ b.nElements = Len(s) /\ b.blocks = l.blocks /\ l.blocks = b.blocks
      /\ b.blocks \in BOOLEAN
    BY <1>1, <1>2 DEF SameItems, ListFields
<1>4. z = IF less.nElements = 0 THEN bare ELSE less
    BY DEF FreeItemOf
<1>5. /\ less \in ListFields /\ less.used = ItemsOf(t) /\ less.nElements = Len(t) /\ less.blocks = b.blocks
      /\ less.head = b.head /\ less.tail = b.tail /\ less.next = b.next /\ less.prev = b.prev
    <2>1. b.used \ {i} \in SUBSET Item /\ b.nElements - 1 \in Int
        BY <1>1 DEF ListFields
    <2>2. less \in ListFields
        BY <1>1, <2>1 DEF ListFields
    <2>3. /\ less.used = b.used \ {i} /\ less.nElements = b.nElements - 1 /\ less.blocks = b.blocks
          /\ less.head = b.head /\ less.tail = b.tail /\ less.next = b.next /\ less.prev = b.prev
        BY <1>1 DEF ListFields
    <2>4. QED BY <2>2, <2>3, <1>1, <1>3
<1> HIDE DEF less
<1>6. ChainedNodes(Nexts(less), Prevs(less), t)
    BY <1>1, <1>5 DEF Nexts, Prevs
<1>7. CASE Len(t) = 0
    <2>1. less.head = 0 /\ less.tail = 0
        <3>1. Nexts(less)[Nth(t, 0)] = Nth(t, 0 + 1) /\ Prevs(less)[Nth(t, 0 + 1)] = Nth(t, 0)
            BY <1>6, <1>7 DEF ChainedNodes
        <3>2. Nth(t, 0) = 0 /\ Nth(t, 0 + 1) = 0
            BY <1>7 DEF Nth
        <3>3. QED BY <3>1, <3>2, <1>5, LinksOf
    <2>2. /\ bare \in ListFields /\ bare.used = less.used /\ bare.nElements = less.nElements
          /\ bare.blocks = FALSE /\ bare.head = 0 /\ bare.tail = 0
          /\ bare.next = less.next /\ bare.prev = less.prev
        BY <1>5, Refs DEF ListFields
    <2>3. z = bare
        BY <1>4, <1>5, <1>7
    <2> HIDE DEF bare, z
    <2>4. Nexts(z) = Nexts(less) /\ Prevs(z) = Prevs(less)
        BY <2>1, <2>2, <2>3 DEF Nexts, Prevs
    <2>5. ItemsOf(t) = {}
        BY <1>7 DEF ItemsOf
    <2>6. ListLinks(z, t)
        BY <2>2, <2>3, <2>4, <2>5, <1>1, <1>5, <1>6 DEF ListLinks
    <2>7. QED BY <2>6 DEF z, b, t
<1>8. CASE Len(t) # 0
    <2>1. z = less
        BY <1>4, <1>5, <1>8
    <2> HIDE DEF z
    <2>2. ItemsOf(t) # {} /\ l.used # {}
        <3>1. 1 \in 1..Len(t)
            BY <1>1, <1>8, ChainLength
        <3>2. t[1] \in ItemsOf(t)
            BY <3>1 DEF ItemsOf
        <3>3. QED BY <3>2, <1>2
    <2>3. z.blocks
        BY <2>1, <2>2, <1>2, <1>3, <1>5
    <2>4. ListLinks(z, t)
        BY <2>1, <2>2, <2>3, <1>1, <1>5, <1>6 DEF ListLinks
    <2>5. QED BY <2>4 DEF z, b, t
<1>9. QED BY <1>7, <1>8

\* Two links can be led elsewhere in any order.
LEMMA LedEither ==
    ASSUME NEW f \in LinkMaps, NEW i \in Ref, NEW j \in Ref, i # j, NEW a \in Ref, NEW d \in Ref
    PROVE  Led(Led(f, i, a), j, d) = Led(Led(f, j, d), i, a)
<1> DEFINE x == Led(f, i, a)
           y == Led(f, j, d)
           F == Led(x, j, d)
           G == Led(y, i, a)
<1>1. x \in LinkMaps /\ \A n \in Ref : x[n] = IF n = i THEN a ELSE f[n]
    BY LedIs
<1>2. y \in LinkMaps /\ \A n \in Ref : y[n] = IF n = j THEN d ELSE f[n]
    BY LedIs
<1> HIDE DEF x, y
<1>3. F \in LinkMaps /\ \A n \in Ref : F[n] = IF n = j THEN d ELSE x[n]
    BY <1>1, LedIs
<1>4. G \in LinkMaps /\ \A n \in Ref : G[n] = IF n = i THEN a ELSE y[n]
    BY <1>2, LedIs
<1> HIDE DEF F, G
<1>5. F = G
    BY <1>1, <1>2, <1>3, <1>4, SameLinks
<1>6. QED BY <1>5 DEF F, G, x, y

\* A node that is taken out and put where it was.
LEMMA PutBack ==
    ASSUME NEW s, NodeChain(s), NEW k \in 1..Len(s), NEW r, IsTaken(r, s, k),
           NEW t, IsPut(t, r, k - 1, s[k])
    PROVE  t = s
<1> DEFINE L == Len(s)
<1>1. L \in Int /\ k \in Int /\ k >= 1 /\ k <= L /\ s \in Seq(Item)
    BY ChainLength DEF NodeChain
<1>2. Len(r) = L - 1 /\ \A j \in 0..L : Nth(r, j) = IF j < k THEN Nth(s, j) ELSE Nth(s, j + 1)
    BY DEF IsTaken
<1>3. /\ t \in Seq(Item) /\ Len(t) = L
      /\ \A j \in 0..(L + 1) : Nth(t, j) = IF j <= k - 1 THEN Nth(r, j)
                                           ELSE IF j = (k - 1) + 1 THEN s[k] ELSE Nth(r, j - 1)
    BY <1>1, <1>2 DEF IsPut
<1>4. s[k] = Nth(s, k)
    BY NthIs
<1> HIDE DEF L
<1>5. ASSUME NEW j \in 1..L PROVE Nth(t, j) = Nth(s, j)
    <2>1. CASE j < k
        <3>1. j \in 0..L /\ j \in 0..(L + 1) /\ j <= k - 1
            BY <2>1, <1>1
        <3>2. QED BY <3>1, <2>1, <1>2, <1>3
    <2>2. CASE j = k
        <3>1. j \in 0..(L + 1) /\ ~(j <= k - 1) /\ j = (k - 1) + 1
            BY <2>2, <1>1
        <3>2. QED BY <3>1, <2>2, <1>3, <1>4
    <2>3. CASE j > k
        <3>1. j \in 0..(L + 1) /\ j - 1 \in 0..L /\ ~(j <= k - 1) /\ j # (k - 1) + 1 /\ ~(j - 1 < k)
              /\ (j - 1) + 1 = j
            BY <2>3, <1>1
        <3>2. QED BY <3>1, <1>2, <1>3
    <2>4. QED BY <2>1, <2>2, <2>3, <1>1
<1>6. \A j \in 1..L : t[j] = s[j]
    <2> TAKE j \in 1..L
    <2>1. Nth(t, j) = t[j] /\ Nth(s, j) = s[j]
        BY <1>3 DEF Nth, L
    <2>2. QED BY <2>1, <1>5
<1>7. QED BY <1>1, <1>3, <1>6, SeqEqual DEF L

\* A node that was bridged over is linked again in front, and behind all.
LinkedInFront(l, h, i) == [l EXCEPT !.prev[h] = i, !.next[i] = h, !.prev[i] = 0, !.head = i]

LinkedAtEnd(l, q, i) == [l EXCEPT !.next[q] = i, !.prev[i] = q, !.next[i] = 0, !.tail = i]

LEMMA FrontLed ==
    ASSUME NEW l \in ListFields, NEW h \in Item, NEW i \in Item, i # h
    PROVE  /\ LinkedInFront(l, h, i) \in ListFields /\ SameItems(l, LinkedInFront(l, h, i))
           /\ Nexts(LinkedInFront(l, h, i)) = Led(Led(Nexts(l), i, h), 0, i)
           /\ Prevs(LinkedInFront(l, h, i)) = Led(Led(Prevs(l), i, 0), h, i)
<1> DEFINE x == WithPrev(l, h, i)
           y == WithNext(x, i, h)
           z == WithPrev(y, i, 0)
           w == WithHead(z, i)
<1>1. h \in Ref /\ i \in Ref /\ 0 \in Ref /\ i # 0 /\ Prevs(l) \in LinkMaps
    BY Refs, LinksOf
<1>2. w = LinkedInFront(l, h, i)
    BY DEF LinkedInFront, WithPrev, WithNext, WithHead, ListFields
<1>3. x \in ListFields /\ SameItems(l, x) /\ Prevs(x) = Led(Prevs(l), h, i) /\ Nexts(x) = Nexts(l)
    BY <1>1, PrevLed
<1> HIDE DEF x
<1>4. y \in ListFields /\ SameItems(x, y) /\ Nexts(y) = Led(Nexts(x), i, h) /\ Prevs(y) = Prevs(x)
    BY <1>1, <1>3, NextLed
<1> HIDE DEF y
<1>5. z \in ListFields /\ SameItems(y, z) /\ Prevs(z) = Led(Prevs(y), i, 0) /\ Nexts(z) = Nexts(y)
    BY <1>1, <1>4, PrevLed
<1> HIDE DEF z
<1>6. w \in ListFields /\ SameItems(z, w) /\ Nexts(w) = Led(Nexts(z), 0, i) /\ Prevs(w) = Prevs(z)
    BY <1>1, <1>5, HeadLed
<1> HIDE DEF w
<1>7. Led(Led(Prevs(l), h, i), i, 0) = Led(Led(Prevs(l), i, 0), h, i)
    BY <1>1, LedEither
<1>8. SameItems(l, w)
    BY <1>3, <1>4, <1>5, <1>6 DEF SameItems
<1>9. QED BY <1>2, <1>3, <1>4, <1>5, <1>6, <1>7, <1>8

LEMMA EndLed ==
    ASSUME NEW l \in ListFields, NEW q \in Item, NEW i \in Item, i # q
    PROVE  /\ LinkedAtEnd(l, q, i) \in ListFields /\ SameItems(l, LinkedAtEnd(l, q, i))
           /\ Nexts(LinkedAtEnd(l, q, i)) = Led(Led(Nexts(l), i, 0), q, i)
           /\ Prevs(LinkedAtEnd(l, q, i)) = Led(Led(Prevs(l), i, q), 0, i)
<1> DEFINE x == WithNext(l, q, i)
           y == WithPrev(x, i, q)
           z == WithNext(y, i, 0)
           w == WithTail(z, i)
<1>1. q \in Ref /\ i \in Ref /\ 0 \in Ref /\ i # 0 /\ Nexts(l) \in LinkMaps
    BY Refs, LinksOf
<1>2. w = LinkedAtEnd(l, q, i)
    BY DEF LinkedAtEnd, WithPrev, WithNext, WithTail, ListFields
<1>3. x \in ListFields /\ SameItems(l, x) /\ Nexts(x) = Led(Nexts(l), q, i) /\ Prevs(x) = Prevs(l)
    BY <1>1, NextLed
<1> HIDE DEF x
<1>4. y \in ListFields /\ SameItems(x, y) /\ Prevs(y) = Led(Prevs(x), i, q) /\ Nexts(y) = Nexts(x)
    BY <1>1, <1>3, PrevLed
<1> HIDE DEF y
<1>5. z \in ListFields /\ SameItems(y, z) /\ Nexts(z) = Led(Nexts(y), i, 0) /\ Prevs(z) = Prevs(y)
    BY <1>1, <1>4, NextLed
<1> HIDE DEF z
<1>6. w \in ListFields /\ SameItems(z, w) /\ Prevs(w) = Led(Prevs(z), 0, i) /\ Nexts(w) = Nexts(z)
    BY <1>1, <1>5, TailLed
<1> HIDE DEF w
<1>7. Led(Led(Nexts(l), q, i), i, 0) = Led(Led(Nexts(l), i, 0), q, i)
    BY <1>1, LedEither
<1>8. SameItems(l, w)
    BY <1>3, <1>4, <1>5, <1>6 DEF SameItems
<1>9. QED BY <1>2, <1>3, <1>4, <1>5, <1>6, <1>7, <1>8

LEMMA FrontOf ==
    ASSUME NEW l, NEW s, ListLinks(l, s), NEW k \in 1..Len(s), NEW i, i = s[k]
    PROVE  ListLinks(IF i = l.head THEN l ELSE LinkedInFront(Bridge(l, i), Bridge(l, i).head, i),
                  WithNode(WithoutNode(s, k), 0, i))
<1> DEFINE r == WithoutNode(s, k)
           t == WithNode(r, 0, i)
           b == Bridge(l, i)
           h == b.head
           w == LinkedInFront(b, h, i)
<1>1. /\ b \in ListFields /\ SameItems(l, b) /\ NodeChain(r) /\ ItemsOf(r) = ItemsOf(s) \ {i}
      /\ Len(r) = Len(s) - 1 /\ ChainedNodes(Nexts(b), Prevs(b), r)
    BY Bridges
<1>2. /\ NodeChain(s) /\ l.used = ItemsOf(s) /\ l.nElements = Len(s) /\ (l.blocks <=> l.used # {})
      /\ Len(s) \in Int /\ k \in Int /\ 1 <= k /\ k <= Len(s)
      /\ i \in ItemsOf(s) /\ i \in Item /\ l.head = Nth(s, 1) /\ Nth(s, k) = i
    <2>1. /\ NodeChain(s) /\ l.used = ItemsOf(s) /\ l.nElements = Len(s) /\ (l.blocks <=> l.used # {})
          /\ i \in ItemsOf(s)
        BY DEF ListLinks, ItemsOf
    <2>2. Len(s) \in Int /\ k \in Int /\ 1 <= k /\ k <= Len(s)
        BY <2>1, ChainLength
    <2>3. i \in Item /\ l.head = Nth(s, 1)
        BY LinkedIs
    <2>4. Nth(s, k) = i
        BY <2>1, NthIs
    <2>5. QED BY <2>1, <2>2, <2>3, <2>4
<1>3. IsTaken(r, s, k)
    BY <1>2, WithoutNodeIs
<1> HIDE DEF b, r
<1>4. 0 \in 0..Len(r) /\ Len(r) \in Int
    BY <1>1, <1>2
<1>5. IsPut(t, r, 0, i)
    BY <1>1, <1>2, <1>4, WithNodeIs
<1> HIDE DEF t
<1>6. NodeChain(t) /\ ItemsOf(t) = ItemsOf(r) \cup {i}
    BY <1>1, <1>2, <1>4, <1>5, ChainPut
<1>7. CASE i = l.head
    <2>1. k = 1
        <3>1. 1 \in 1..Len(s)
            BY <1>2
        <3>2. QED BY <3>1, <1>2, <1>7, NthIs
    <2>2. t = s
        <3>1. k - 1 = 0
            BY <2>1
        <3>2. IsPut(t, r, k - 1, s[k])
            BY <3>1, <1>5
        <3>3. QED BY <3>2, <1>2, <1>3, PutBack
    <2>3. QED BY <2>2, <1>7 DEF t, r
<1>8. CASE i # l.head
    <2>1. h = Nth(r, 1) /\ h \in Item /\ h # i /\ h \in Ref
        <3>1. k # 1
            BY <1>2, <1>8
        <3>2. 1 \in 1..Len(r) /\ 0 \in 0..Len(r) /\ 0 + 1 = 1
            BY <3>1, <1>1, <1>2
        <3>3. Nexts(b)[Nth(r, 0)] = Nth(r, 1) /\ Nth(r, 0) = 0
            BY <3>2, <1>1, NthIs DEF ChainedNodes
        <3>4. Nth(r, 1) = r[1] /\ r[1] \in ItemsOf(r) /\ Nth(r, 1) \in Item
            BY <3>2, <1>1, NthIs DEF ItemsOf
        <3>5. Nexts(b)[0] = h
            BY <1>1, LinksOf
        <3>6. QED BY <3>3, <3>4, <3>5, <1>1, Refs
    <2> HIDE DEF h
    <2>2. /\ w \in ListFields /\ SameItems(b, w)
          /\ Nexts(w) = Led(Led(Nexts(b), i, h), 0, i)
          /\ Prevs(w) = Led(Led(Prevs(b), i, 0), h, i)
        BY <2>1, <1>1, <1>2, FrontLed
    <2> HIDE DEF w
    <2>3. ChainedNodes(Led(Led(Nexts(b), i, Nth(r, 0 + 1)), Nth(r, 0), i),
                  Led(Led(Prevs(b), i, Nth(r, 0)), Nth(r, 0 + 1), i), t)
        <3>1. Nexts(b) \in LinkMaps /\ Prevs(b) \in LinkMaps /\ i \notin ItemsOf(r)
            BY <1>1, LinksOf
        <3>2. QED BY <3>1, <1>1, <1>2, <1>4, <1>5, LinksPut
    <2>4. Nth(r, 0) = 0 /\ Nth(r, 0 + 1) = h
        BY <2>1, <1>4 DEF Nth
    <2>5. ChainedNodes(Nexts(w), Prevs(w), t)
        BY <2>2, <2>3, <2>4
    <2>6. w.used = ItemsOf(t) /\ w.nElements = Len(t) /\ (w.blocks <=> w.used # {})
        <3>1. ItemsOf(t) = ItemsOf(s) /\ Len(t) = Len(s)
            BY <1>1, <1>2, <1>5, <1>6 DEF IsPut
        <3>2. QED BY <3>1, <2>2, <1>1, <1>2 DEF SameItems
    <2>7. ListLinks(w, t)
        BY <2>2, <2>5, <2>6, <1>6 DEF ListLinks
    <2>8. QED BY <2>7, <1>8 DEF w, h, b, t, r
<1>9. QED BY <1>7, <1>8

LEMMA EndOfList ==
    ASSUME NEW l, NEW s, ListLinks(l, s), NEW k \in 1..Len(s), NEW i, i = s[k]
    PROVE  ListLinks(IF i = l.tail THEN l ELSE LinkedAtEnd(Bridge(l, i), Bridge(l, i).tail, i),
                  WithNode(WithoutNode(s, k), Len(s) - 1, i))
<1> DEFINE r == WithoutNode(s, k)
           t == WithNode(r, Len(s) - 1, i)
           b == Bridge(l, i)
           q == b.tail
           w == LinkedAtEnd(b, q, i)
<1>1. /\ b \in ListFields /\ SameItems(l, b) /\ NodeChain(r) /\ ItemsOf(r) = ItemsOf(s) \ {i}
      /\ Len(r) = Len(s) - 1 /\ ChainedNodes(Nexts(b), Prevs(b), r)
    BY Bridges
<1>2. /\ NodeChain(s) /\ l.used = ItemsOf(s) /\ l.nElements = Len(s) /\ (l.blocks <=> l.used # {})
      /\ Len(s) \in Int /\ k \in Int /\ 1 <= k /\ k <= Len(s)
      /\ i \in ItemsOf(s) /\ i \in Item /\ l.tail = Nth(s, Len(s)) /\ Nth(s, k) = i
    <2>1. /\ NodeChain(s) /\ l.used = ItemsOf(s) /\ l.nElements = Len(s) /\ (l.blocks <=> l.used # {})
          /\ i \in ItemsOf(s)
        BY DEF ListLinks, ItemsOf
    <2>2. Len(s) \in Int /\ k \in Int /\ 1 <= k /\ k <= Len(s)
        BY <2>1, ChainLength
    <2>3. i \in Item /\ l.tail = Nth(s, Len(s))
        BY LinkedIs
    <2>4. Nth(s, k) = i
        BY <2>1, NthIs
    <2>5. QED BY <2>1, <2>2, <2>3, <2>4
<1>3. IsTaken(r, s, k)
    BY <1>2, WithoutNodeIs
<1> HIDE DEF b, r
<1>4. Len(s) - 1 \in 0..Len(r) /\ Len(r) \in Int
    BY <1>1, <1>2
<1>5. IsPut(t, r, Len(s) - 1, i)
    BY <1>1, <1>2, <1>4, WithNodeIs
<1> HIDE DEF t
<1>6. NodeChain(t) /\ ItemsOf(t) = ItemsOf(r) \cup {i}
    BY <1>1, <1>2, <1>4, <1>5, ChainPut
<1>7. CASE i = l.tail
    <2>1. k = Len(s)
        <3>1. Len(s) \in 1..Len(s)
            BY <1>2
        <3>2. QED BY <3>1, <1>2, <1>7, NthIs
    <2>2. t = s
        BY <2>1, <1>2, <1>3, <1>5, PutBack
    <2>3. QED BY <2>2, <1>7 DEF t, r
<1>8. CASE i # l.tail
    <2>1. q = Nth(r, Len(r)) /\ q \in Item /\ q # i /\ q \in Ref
        <3>1. k # Len(s)
            BY <1>2, <1>8
        <3>2. Len(r) \in 1..Len(r) /\ Len(r) \in 0..Len(r) /\ Len(r) + 1 \in Int /\ Len(r) + 1 \notin 1..Len(r)
            BY <3>1, <1>1, <1>2
        <3>3. Prevs(b)[Nth(r, Len(r) + 1)] = Nth(r, Len(r)) /\ Nth(r, Len(r) + 1) = 0
            BY <3>2, <1>1, NthIs DEF ChainedNodes
        <3>4. Nth(r, Len(r)) = r[Len(r)] /\ r[Len(r)] \in ItemsOf(r) /\ Nth(r, Len(r)) \in Item
            BY <3>2, <1>1, NthIs DEF ItemsOf
        <3>5. Prevs(b)[0] = q
            BY <1>1, LinksOf
        <3>6. QED BY <3>3, <3>4, <3>5, <1>1, Refs
    <2> HIDE DEF q
    <2>2. /\ w \in ListFields /\ SameItems(b, w)
          /\ Nexts(w) = Led(Led(Nexts(b), i, 0), q, i)
          /\ Prevs(w) = Led(Led(Prevs(b), i, q), 0, i)
        BY <2>1, <1>1, <1>2, EndLed
    <2> HIDE DEF w
    <2>3. ChainedNodes(Led(Led(Nexts(b), i, Nth(r, (Len(s) - 1) + 1)), Nth(r, Len(s) - 1), i),
                  Led(Led(Prevs(b), i, Nth(r, Len(s) - 1)), Nth(r, (Len(s) - 1) + 1), i), t)
        <3>1. Nexts(b) \in LinkMaps /\ Prevs(b) \in LinkMaps /\ i \notin ItemsOf(r)
            BY <1>1, LinksOf
        <3>2. QED BY <3>1, <1>1, <1>2, <1>4, <1>5, LinksPut
    <2>4. Nth(r, Len(s) - 1) = q /\ Nth(r, (Len(s) - 1) + 1) = 0
        <3>1. (Len(s) - 1) + 1 \notin 1..Len(r)
            BY <1>1, <1>2
        <3>2. QED BY <3>1, <2>1, <1>1 DEF Nth
    <2>5. ChainedNodes(Nexts(w), Prevs(w), t)
        BY <2>2, <2>3, <2>4
    <2>6. w.used = ItemsOf(t) /\ w.nElements = Len(t) /\ (w.blocks <=> w.used # {})
        <3>1. ItemsOf(t) = ItemsOf(s) /\ Len(t) = Len(s)
            BY <1>1, <1>2, <1>5, <1>6 DEF IsPut
        <3>2. QED BY <3>1, <2>2, <1>1, <1>2 DEF SameItems
    <2>7. ListLinks(w, t)
        BY <2>2, <2>5, <2>6, <1>6 DEF ListLinks
    <2>8. QED BY <2>7, <1>8 DEF w, q, b, t, r
<1>9. QED BY <1>7, <1>8

-----------------------------------------------------------------------------

\* A list with the links of t and the nodes of s, which are those of t.
LEMMA LinkedAgain ==
    ASSUME NEW l, NEW s, ListLinks(l, s), NEW m \in ListFields, SameItems(l, m),
           NEW t, NodeChain(t), ItemsOf(t) = ItemsOf(s), Len(t) = Len(s), ChainedNodes(Nexts(m), Prevs(m), t)
    PROVE  ListLinks(m, t)
    BY DEF ListLinks, SameItems

\* The last links of SwapElements of neighbours.
LinkedRound(l, a, b, n) == [l EXCEPT !.next[a] = n, !.next[b] = a, !.prev[a] = b]

LEMMA RoundLed ==
    ASSUME NEW l \in ListFields, NEW a \in Item, NEW b \in Item, NEW n \in Ref
    PROVE  /\ LinkedRound(l, a, b, n) \in ListFields /\ SameItems(l, LinkedRound(l, a, b, n))
           /\ Nexts(LinkedRound(l, a, b, n)) = Led(Led(Nexts(l), a, n), b, a)
           /\ Prevs(LinkedRound(l, a, b, n)) = Led(Prevs(l), a, b)
<1> DEFINE x == WithNext(l, a, n)
           y == WithNext(x, b, a)
           z == WithPrev(y, a, b)
<1>1. a \in Ref /\ b \in Ref
    BY Refs
<1>2. z = LinkedRound(l, a, b, n)
    BY DEF LinkedRound, WithPrev, WithNext, ListFields
<1>3. x \in ListFields /\ SameItems(l, x) /\ Nexts(x) = Led(Nexts(l), a, n) /\ Prevs(x) = Prevs(l)
    BY <1>1, NextLed
<1> HIDE DEF x
<1>4. y \in ListFields /\ SameItems(x, y) /\ Nexts(y) = Led(Nexts(x), b, a) /\ Prevs(y) = Prevs(x)
    BY <1>1, <1>3, NextLed
<1> HIDE DEF y
<1>5. z \in ListFields /\ SameItems(y, z) /\ Prevs(z) = Led(Prevs(y), a, b) /\ Nexts(z) = Nexts(y)
    BY <1>1, <1>4, PrevLed
<1> HIDE DEF z
<1>6. SameItems(l, z)
    BY <1>3, <1>4, <1>5 DEF SameItems
<1>7. QED BY <1>2, <1>3, <1>4, <1>5, <1>6

LEMMA SwapsAdjacent ==
    ASSUME NEW l, NEW s, ListLinks(l, s), NEW j \in 1..Len(s), NEW k \in 1..Len(s), k = j + 1,
           NEW t, IsExchanged(t, s, j, k), NEW a, a = s[j], NEW b, b = s[k]
    PROVE  ListLinks(SwapAdjacent(l, a, b), t)
<1> DEFINE p == Nth(s, j - 1)
           n == Nth(s, k + 1)
           v == WithPrev(l, b, p)
           x == LinkBehind(v, p, b)
           y == LinkBefore(x, n, a)
           z == LinkedRound(y, a, b, n)
<1>1. /\ NodeChain(s) /\ l \in ListFields /\ ChainedNodes(Nexts(l), Prevs(l), s) /\ Len(s) \in Int
      /\ a \in Item /\ b \in Item /\ a \in Ref /\ b \in Ref
    BY ChainLength, LinkedIs, Refs DEF ListLinks
<1>2. NodeChain(t) /\ ItemsOf(t) = ItemsOf(s) /\ Len(t) = Len(s)
    BY <1>1, ChainExchanged DEF IsExchanged
<1>3. p \in Ref /\ n \in Ref
    <2>1. j - 1 \in Int /\ k + 1 \in Int
        BY <1>1
    <2>2. QED BY <2>1, <1>1, NthIs
<1>4. l.prev[a] = p /\ l.next[b] = n
    BY LinkedIs
<1>5. z = SwapAdjacent(l, a, b)
    BY <1>4 DEF SwapAdjacent, LinkedRound, WithPrev
<1> DEFINE F == Led(Led(Led(Nexts(l), Nth(s, j - 1), s[k]), s[j], Nth(s, k + 1)), s[k], s[j])
           G == Led(Led(Led(Prevs(l), s[k], Nth(s, j - 1)), Nth(s, k + 1), s[j]), s[j], s[k])
<1>6. ChainedNodes(F, G, t)
    <2>1. Nexts(l) \in LinkMaps /\ Prevs(l) \in LinkMaps
        BY <1>1, LinksOf
    <2> HIDE DEF p, n
    <2>2. QED BY <1>1, <2>1, LinksAdjacent
<1>7. /\ F = Led(Led(Led(Nexts(l), p, b), a, n), b, a)
      /\ G = Led(Led(Led(Prevs(l), b, p), n, a), a, b)
    OBVIOUS
<1> HIDE DEF F, G, p, n
<1>8. v \in ListFields /\ SameItems(l, v) /\ Prevs(v) = Led(Prevs(l), b, p) /\ Nexts(v) = Nexts(l)
    BY <1>1, <1>3, PrevLed
<1> HIDE DEF v
<1>9. x \in ListFields /\ SameItems(v, x) /\ Nexts(x) = Led(Nexts(v), p, b) /\ Prevs(x) = Prevs(v)
    BY <1>1, <1>3, <1>8, LedBehind
<1> HIDE DEF x
<1>10. y \in ListFields /\ SameItems(x, y) /\ Prevs(y) = Led(Prevs(x), n, a) /\ Nexts(y) = Nexts(x)
    BY <1>1, <1>3, <1>9, LedBefore
<1> HIDE DEF y
<1>11. /\ z \in ListFields /\ SameItems(y, z)
       /\ Nexts(z) = Led(Led(Nexts(y), a, n), b, a) /\ Prevs(z) = Led(Prevs(y), a, b)
    BY <1>1, <1>3, <1>10, RoundLed
<1> HIDE DEF z
<1>12. ChainedNodes(Nexts(z), Prevs(z), t) /\ SameItems(l, z)
    BY <1>6, <1>7, <1>8, <1>9, <1>10, <1>11 DEF SameItems
<1>13. ListLinks(z, t)
    BY <1>2, <1>11, <1>12, LinkedAgain
<1>14. QED BY <1>5, <1>13

\* SwapElements of nodes apart: the links of the two are crossed first.
LinksCrossed(l, a, b, pa, na, pb, nb) ==
    [l EXCEPT !.prev[a] = pb, !.prev[b] = pa, !.next[a] = nb, !.next[b] = na]

IsCrossed(m, l, a, b, pa, na, pb, nb) ==
    /\ m \in ListFields /\ SameItems(l, m)
    /\ Nexts(m) = Led(Led(Nexts(l), a, nb), b, na)
    /\ Prevs(m) = Led(Led(Prevs(l), a, pb), b, pa)

LEMMA CrossLed ==
    ASSUME NEW l \in ListFields, NEW a \in Item, NEW b \in Item,
           NEW pa \in Ref, NEW na \in Ref, NEW pb \in Ref, NEW nb \in Ref
    PROVE  IsCrossed(LinksCrossed(l, a, b, pa, na, pb, nb), l, a, b, pa, na, pb, nb)
<1> DEFINE x == WithPrev(l, a, pb)
           y == WithPrev(x, b, pa)
           z == WithNext(y, a, nb)
           w == WithNext(z, b, na)
<1>1. w = LinksCrossed(l, a, b, pa, na, pb, nb)
    BY DEF LinksCrossed, WithPrev, WithNext, ListFields
<1>2. x \in ListFields /\ SameItems(l, x) /\ Prevs(x) = Led(Prevs(l), a, pb) /\ Nexts(x) = Nexts(l)
    BY PrevLed
<1> HIDE DEF x
<1>3. y \in ListFields /\ SameItems(x, y) /\ Prevs(y) = Led(Prevs(x), b, pa) /\ Nexts(y) = Nexts(x)
    BY <1>2, PrevLed
<1> HIDE DEF y
<1>4. z \in ListFields /\ SameItems(y, z) /\ Nexts(z) = Led(Nexts(y), a, nb) /\ Prevs(z) = Prevs(y)
    BY <1>3, NextLed
<1> HIDE DEF z
<1>5. w \in ListFields /\ SameItems(z, w) /\ Nexts(w) = Led(Nexts(z), b, na) /\ Prevs(w) = Prevs(z)
    BY <1>4, NextLed
<1> HIDE DEF w
<1>6. SameItems(l, w)
    BY <1>2, <1>3, <1>4, <1>5 DEF SameItems
<1>7. IsCrossed(w, l, a, b, pa, na, pb, nb)
    BY <1>2, <1>3, <1>4, <1>5, <1>6 DEF IsCrossed
<1>8. QED BY <1>1, <1>7

\* A node keeps its links when others are led elsewhere.
LEMMA LinksKept ==
    ASSUME NEW l \in ListFields, NEW a \in Item, NEW b \in Item, NEW p \in Ref, NEW n \in Ref,
           p # b, n # b
    PROVE  /\ LinkBehind(LinkBefore(l, n, a), p, a).next[b] = l.next[b]
           /\ LinkBehind(LinkBefore(l, n, a), p, a).prev[b] = l.prev[b]
<1> DEFINE x == LinkBefore(l, n, a)
           y == LinkBehind(x, p, a)
<1>1. x \in ListFields /\ x.next = l.next /\ x.prev[b] = l.prev[b]
    <2>1. x \in ListFields
        BY Refs, LedBefore
    <2>2. QED BY <2>1 DEF LinkBefore, ListFields
<1> HIDE DEF x
<1>2. y.prev = x.prev /\ y.next[b] = x.next[b]
    BY <1>1 DEF LinkBehind, ListFields
<1>3. QED BY <1>1, <1>2 DEF x

LEMMA SwapsApart ==
    ASSUME NEW l, NEW s, ListLinks(l, s), NEW j \in 1..Len(s), NEW k \in 1..Len(s),
           j # k, j + 1 # k, k + 1 # j,
           NEW t, IsExchanged(t, s, j, k), NEW a, a = s[j], NEW b, b = s[k]
    PROVE  ListLinks(Swapped(l, a, b), t)
<1> DEFINE pa == Nth(s, j - 1)
           na == Nth(s, j + 1)
           pb == Nth(s, k - 1)
           nb == Nth(s, k + 1)
           v == LinksCrossed(l, a, b, pa, na, pb, nb)
           x == LinkBefore(v, nb, a)
           y == LinkBehind(x, pb, a)
           z == LinkBefore(y, na, b)
           w == LinkBehind(z, pa, b)
<1>1. /\ NodeChain(s) /\ l \in ListFields /\ ChainedNodes(Nexts(l), Prevs(l), s)
      /\ a \in Item /\ b \in Item /\ a \in Ref /\ b \in Ref
    BY LinkedIs, Refs DEF ListLinks
<1>2. /\ Len(s) \in Int /\ j \in Int /\ k \in Int
      /\ j \in 1..(Len(s) + 1) /\ k \in 1..(Len(s) + 1) /\ j + 1 \in 1..(Len(s) + 1) /\ k + 1 \in 1..(Len(s) + 1)
      /\ j \in 0..Len(s) /\ k \in 0..Len(s) /\ k - 1 \in 0..Len(s) /\ k - 1 # k /\ k + 1 # k
    BY <1>1, ChainLength
<1>3. NodeChain(t) /\ ItemsOf(t) = ItemsOf(s) /\ Len(t) = Len(s)
    BY <1>1, ChainExchanged DEF IsExchanged
<1>4. pa \in Ref /\ na \in Ref /\ pb \in Ref /\ nb \in Ref
    <2>1. j - 1 \in Int /\ j + 1 \in Int /\ k - 1 \in Int /\ k + 1 \in Int
        BY <1>2
    <2>2. QED BY <2>1, <1>1, NthIs
<1>5. l.prev[a] = pa /\ l.next[a] = na /\ l.prev[b] = pb /\ l.next[b] = nb
    BY LinkedIs
<1>6. Nth(s, j) = a /\ Nth(s, k) = b
    BY <1>1, NthIs
<1>7. a # b /\ na # b /\ nb # a /\ pb # b /\ nb # b
    BY <1>1, <1>2, <1>6, NthIs
<1> DEFINE F == Led(Led(Led(Led(Nexts(l), s[j], Nth(s, k + 1)), s[k], Nth(s, j + 1)),
                            Nth(s, k - 1), s[j]), Nth(s, j - 1), s[k])
           G == Led(Led(Led(Led(Prevs(l), s[j], Nth(s, k - 1)), s[k], Nth(s, j - 1)),
                            Nth(s, k + 1), s[j]), Nth(s, j + 1), s[k])
<1>8. ChainedNodes(F, G, t)
    <2>1. Nexts(l) \in LinkMaps /\ Prevs(l) \in LinkMaps
        BY <1>1, LinksOf
    <2> HIDE DEF pa, na, pb, nb
    <2>2. QED BY <1>1, <2>1, LinksExchanged
<1>9. /\ F = Led(Led(Led(Led(Nexts(l), a, nb), b, na), pb, a), pa, b)
      /\ G = Led(Led(Led(Led(Prevs(l), a, pb), b, pa), nb, a), na, b)
    OBVIOUS
<1> HIDE DEF F, G, pa, na, pb, nb
<1>10. /\ v \in ListFields /\ SameItems(l, v)
       /\ Nexts(v) = Led(Led(Nexts(l), a, nb), b, na)
       /\ Prevs(v) = Led(Led(Prevs(l), a, pb), b, pa)
    <2>1. IsCrossed(v, l, a, b, pa, na, pb, nb)
        BY <1>1, <1>4, CrossLed
    <2>2. QED BY <2>1 DEF IsCrossed
<1>11. v.next[a] = nb /\ v.prev[a] = pb /\ v.next[b] = na /\ v.prev[b] = pa
    BY <1>1, <1>4, <1>7 DEF LinksCrossed, ListFields
<1>12. v = [l EXCEPT !.prev[a] = l.prev[b], !.prev[b] = l.prev[a],
                     !.next[a] = l.next[b], !.next[b] = l.next[a]]
    BY <1>5 DEF LinksCrossed
<1> HIDE DEF v
<1>13. x \in ListFields /\ SameItems(v, x) /\ Prevs(x) = Led(Prevs(v), nb, a) /\ Nexts(x) = Nexts(v)
    BY <1>1, <1>4, <1>10, LedBefore
<1> HIDE DEF x
<1>14. y \in ListFields /\ SameItems(x, y) /\ Nexts(y) = Led(Nexts(x), pb, a) /\ Prevs(y) = Prevs(x)
    BY <1>1, <1>4, <1>13, LedBehind
<1> HIDE DEF y
<1>15. y.next[b] = na /\ y.prev[b] = pa
    BY <1>1, <1>4, <1>7, <1>10, <1>11, LinksKept DEF x, y
<1>16. z \in ListFields /\ SameItems(y, z) /\ Prevs(z) = Led(Prevs(y), na, b) /\ Nexts(z) = Nexts(y)
    BY <1>1, <1>4, <1>14, LedBefore
<1> HIDE DEF z
<1>17. w \in ListFields /\ SameItems(z, w) /\ Nexts(w) = Led(Nexts(z), pa, b) /\ Prevs(w) = Prevs(z)
    BY <1>1, <1>4, <1>16, LedBehind
<1> HIDE DEF w
<1>18. ChainedNodes(Nexts(w), Prevs(w), t) /\ SameItems(l, w)
    BY <1>8, <1>9, <1>10, <1>13, <1>14, <1>16, <1>17 DEF SameItems
<1>19. ListLinks(w, t)
    BY <1>3, <1>17, <1>18, LinkedAgain
<1>20. w = Swapped(l, a, b)
    <2>1. y = LinkBehind(LinkBefore(v, v.next[a], a), v.prev[a], a)
        BY <1>11 DEF y, x
    <2>2. w = LinkBehind(LinkBefore(y, y.next[b], b), y.prev[b], b)
        BY <1>15 DEF w, z
    <2>3. a # b /\ l.next[b] # a /\ l.next[a] # b
        BY <1>5, <1>7
    <2> DEFINE crossed == [l EXCEPT !.prev[a] = l.prev[b], !.prev[b] = l.prev[a],
                                    !.next[a] = l.next[b], !.next[b] = l.next[a]]
               one == LinkBehind(LinkBefore(crossed, crossed.next[a], a), crossed.prev[a], a)
    <2>4. Swapped(l, a, b) = LinkBehind(LinkBefore(one, one.next[b], b), one.prev[b], b)
        BY <2>3 DEF Swapped
    <2>5. crossed = v
        BY <1>12
    <2> HIDE DEF crossed
    <2>6. one = y
        BY <2>1, <2>5
    <2> HIDE DEF one
    <2>7. QED BY <2>2, <2>4, <2>6
<1>21. QED BY <1>19, <1>20

LEMMA Swaps ==
    ASSUME NEW l, NEW s, ListLinks(l, s), NEW j \in 1..Len(s), NEW k \in 1..Len(s),
           NEW a, a = s[j], NEW b, b = s[k]
    PROVE  ListLinks(Swapped(l, a, b), Exchanged(s, a, b))
<1> DEFINE t == Exchanged(s, a, b)
<1>1. NodeChain(s) /\ s \in Seq(Item) /\ Len(s) \in Int
    BY ChainLength DEF ListLinks, NodeChain
<1>2. /\ j \in 1..(Len(s) + 1) /\ k \in 1..(Len(s) + 1) /\ j + 1 \in 1..(Len(s) + 1) /\ k + 1 \in 1..(Len(s) + 1)
      /\ j \in Int /\ k \in Int
    BY <1>1
<1>3. Nth(s, j) = a /\ Nth(s, k) = b
    BY <1>1, NthIs
<1>4. /\ (a = b) <=> j = k
      /\ l.next[b] = a <=> j = k + 1
      /\ l.next[a] = b <=> k = j + 1
    <2>1. l.next[b] = Nth(s, k + 1) /\ l.next[a] = Nth(s, j + 1)
        BY LinkedIs
    <2>2. \A x, y \in 1..(Len(s) + 1) : Nth(s, x) = Nth(s, y) => x = y
        BY <1>1, NthIs
    <2>3. QED BY <2>1, <2>2, <1>2, <1>3
<1>5. IsExchanged(t, s, j, k)
    BY <1>1, ExchangedIs
<1>6. CASE a = b
    <2>1. l.next[b] # a /\ l.next[a] # b
        BY <1>2, <1>4, <1>6
    <2>2. Swapped(l, a, b) = l
        BY <2>1, <1>6 DEF Swapped
    <2>3. t = [i \in 1..Len(s) |-> s[i]]
        BY <1>6 DEF Exchanged
    <2>4. s = [i \in 1..Len(s) |-> s[i]]
        BY <1>1, LenProperties
    <2>5. QED BY <2>2, <2>3, <2>4
<1> HIDE DEF t
<1>7. CASE l.next[b] = a
    <2>1. j = k + 1 /\ a # b /\ l.next[a] # b
        BY <1>2, <1>4, <1>7
    <2>2. IsExchanged(t, s, k, j)
        BY <1>5, <2>1 DEF IsExchanged
    <2>3. ListLinks(SwapAdjacent(l, b, a), t)
        BY <2>1, <2>2, SwapsAdjacent
    <2>4. Swapped(l, a, b) = SwapAdjacent(l, b, a)
        BY <2>1, <1>7 DEF Swapped
    <2>5. QED BY <2>3, <2>4 DEF t
<1>8. CASE l.next[a] = b
    <2>1. k = j + 1 /\ a # b /\ l.next[b] # a
        BY <1>2, <1>4, <1>8
    <2>2. ListLinks(SwapAdjacent(l, a, b), t)
        BY <2>1, <1>5, SwapsAdjacent
    <2>3. Swapped(l, a, b) = SwapAdjacent(l, a, b)
        BY <2>1, <1>8 DEF Swapped
    <2>4. QED BY <2>2, <2>3 DEF t
<1>9. CASE a # b /\ l.next[b] # a /\ l.next[a] # b
    <2>1. j # k /\ j + 1 # k /\ k + 1 # j
        BY <1>4, <1>9
    <2>2. ListLinks(Swapped(l, a, b), t)
        BY <2>1, <1>5, SwapsApart
    <2>3. QED BY <2>2 DEF t
<1>10. QED BY <1>6, <1>7, <1>8, <1>9

-----------------------------------------------------------------------------

\* What an operation makes of the order of the nodes.
Reordered(s, t, o) ==
    \/ o.name = "AddHead" /\ t = WithNode(s, 0, o.new)
    \/ o.name = "AddTail" /\ t = WithNode(s, Len(s), o.new)
    \/ \E k \in 1..Len(s) :
           /\ s[k] = o.at
           /\ \/ o.name = "InsertBefore" /\ t = WithNode(s, k - 1, o.new)
              \/ o.name = "InsertAfter" /\ t = WithNode(s, k, o.new)
              \/ o.name = "Remove" /\ t = WithoutNode(s, k)
              \/ o.name = "MoveToHead" /\ t = WithNode(WithoutNode(s, k), 0, s[k])
              \/ o.name = "MoveToTail" /\ t = WithNode(WithoutNode(s, k), Len(s) - 1, s[k])
    \/ o.name = "RemoveAll" /\ t = <<>>
    \/ o.name = "Swap" /\ t = Exchanged(s, o.at, o.new)

LEMMA FreeItemIs ==
    ASSUME list.used # Item, list.used \subseteq Item
    PROVE  FreeItem \in Item /\ FreeItem \notin list.used
<1> DEFINE free == Item \ list.used
<1>1. free # {} /\ free \subseteq Nat
    <2>1. Item \subseteq Nat
        BY DEF Item
    <2>2. QED BY <2>1
<1>2. FreeItem = CHOOSE i \in free : \A j \in free : i <= j
    BY DEF FreeItem
<1>3. free \subseteq Item \ list.used
    OBVIOUS
<1> HIDE DEF free
<1>4. \E i \in free : \A j \in free : i <= j
    BY <1>1, LeastNatural
<1>5. FreeItem \in free
    BY <1>2, <1>4
<1>6. QED BY <1>3, <1>5

LEMMA ListStep ==
    ASSUME NEW s, ListLinks(list, s), ListNext
    PROVE  \E t : ListLinks(list', t) /\ Reordered(s, t, act')
<1>1. NodeChain(s) /\ Len(s) \in Int /\ Len(s) >= 0 /\ list.used \subseteq Item
    BY ChainLength DEF ListLinks, ListFields
<1>2. list.used # Item => FreeItem \in Item /\ FreeItem \notin list.used
    BY <1>1, FreeItemIs
<1>3. /\ list.head = Nth(s, 1) /\ list.tail = Nth(s, Len(s)) /\ Nth(s, 0) = 0 /\ Nth(s, Len(s) + 1) = 0
      /\ \A k \in 1..Len(s) : list.next[s[k]] = Nth(s, k + 1) /\ list.prev[s[k]] = Nth(s, k - 1)
    <2>1. list.head = Nth(s, 1) /\ list.tail = Nth(s, Len(s))
        BY LinkedIs
    <2>2. \A k \in 1..Len(s) : list.next[s[k]] = Nth(s, k + 1) /\ list.prev[s[k]] = Nth(s, k - 1)
        BY LinkedIs
    <2>3. Nth(s, 0) = 0 /\ Nth(s, Len(s) + 1) = 0
        BY <1>1 DEF Nth
    <2>4. QED BY <2>1, <2>2, <2>3
<1>4. ASSUME NEW e \in Elements, AddHead(e)
      PROVE  \E t : ListLinks(list', t) /\ Reordered(s, t, act')
    <2>1. 0 \in 0..Len(s) /\ 0 + 1 = 1
        BY <1>1
    <2>2. FreeItem \in Item /\ FreeItem \notin list.used
        BY <1>2, <1>4 DEF AddHead
    <2>3. 0 = Nth(s, 0) /\ list.head = Nth(s, 0 + 1)
        BY <1>3, <2>1
    <2>4. ListLinks(Place(list, FreeItem, e, 0, list.head), WithNode(s, 0, FreeItem))
        BY <2>1, <2>2, <2>3, Places
    <2>5. list' = Place(list, FreeItem, e, 0, list.head) /\ act'.name = "AddHead" /\ act'.new = FreeItem
        BY <1>4 DEF AddHead
    <2>6. QED BY <2>4, <2>5 DEF Reordered
<1>5. ASSUME NEW e \in Elements, AddTail(e)
      PROVE  \E t : ListLinks(list', t) /\ Reordered(s, t, act')
    <2>1. Len(s) \in 0..Len(s)
        BY <1>1
    <2>2. FreeItem \in Item /\ FreeItem \notin list.used
        BY <1>2, <1>5 DEF AddTail
    <2>3. 0 = Nth(s, Len(s) + 1) /\ list.tail = Nth(s, Len(s))
        BY <1>3
    <2>4. ListLinks(Place(list, FreeItem, e, list.tail, 0), WithNode(s, Len(s), FreeItem))
        BY <2>1, <2>2, <2>3, Places
    <2>5. list' = Place(list, FreeItem, e, list.tail, 0) /\ act'.name = "AddTail" /\ act'.new = FreeItem
        BY <1>5 DEF AddTail
    <2>6. QED BY <2>4, <2>5 DEF Reordered
<1>6. ASSUME NEW at \in list.used, NEW e \in Elements, InsertBefore(at, e)
      PROVE  \E t : ListLinks(list', t) /\ Reordered(s, t, act')
    <2>1. PICK k \in 1..Len(s) : s[k] = at
        BY UsedIs
    <2>2. FreeItem \in Item /\ FreeItem \notin list.used
        BY <1>2, <1>6 DEF InsertBefore
    <2>3. k - 1 \in 0..Len(s) /\ (k - 1) + 1 = k
        BY <1>1
    <2>4. list.prev[at] = Nth(s, k - 1) /\ at = Nth(s, (k - 1) + 1)
        <3>1. Nth(s, k) = s[k]
            BY <1>1, NthIs
        <3>2. QED BY <3>1, <1>3, <2>1, <2>3
    <2>5. ListLinks(Place(list, FreeItem, e, list.prev[at], at), WithNode(s, k - 1, FreeItem))
        BY <2>2, <2>3, <2>4, Places
    <2>6. list' = Place(list, FreeItem, e, list.prev[at], at) /\ act'.name = "InsertBefore"
          /\ act'.new = FreeItem /\ act'.at = at
        BY <1>6 DEF InsertBefore
    <2>7. QED BY <2>1, <2>5, <2>6 DEF Reordered
<1>7. ASSUME NEW at \in list.used, NEW e \in Elements, InsertAfter(at, e)
      PROVE  \E t : ListLinks(list', t) /\ Reordered(s, t, act')
    <2>1. PICK k \in 1..Len(s) : s[k] = at
        BY UsedIs
    <2>2. FreeItem \in Item /\ FreeItem \notin list.used
        BY <1>2, <1>7 DEF InsertAfter
    <2>3. k \in 0..Len(s)
        BY <1>1
    <2>4. list.next[at] = Nth(s, k + 1) /\ at = Nth(s, k)
        <3>1. Nth(s, k) = s[k]
            BY <1>1, NthIs
        <3>2. QED BY <3>1, <1>3, <2>1
    <2>5. ListLinks(Place(list, FreeItem, e, at, list.next[at]), WithNode(s, k, FreeItem))
        BY <2>2, <2>3, <2>4, Places
    <2>6. list' = Place(list, FreeItem, e, at, list.next[at]) /\ act'.name = "InsertAfter"
          /\ act'.new = FreeItem /\ act'.at = at
        BY <1>7 DEF InsertAfter
    <2>7. QED BY <2>1, <2>5, <2>6 DEF Reordered
<1>8. ASSUME NEW at \in list.used, RemoveItem(at)
      PROVE  \E t : ListLinks(list', t) /\ Reordered(s, t, act')
    <2>1. PICK k \in 1..Len(s) : s[k] = at
        BY UsedIs
    <2>2. ListLinks(FreeItemOf(Bridge(list, at), at), WithoutNode(s, k))
        BY <2>1, Frees
    <2>3. list' = FreeItemOf(Bridge(list, at), at) /\ act'.name = "Remove" /\ act'.at = at
        BY <1>8 DEF RemoveItem
    <2>4. QED BY <2>1, <2>2, <2>3 DEF Reordered
<1>9. ASSUME NEW at \in list.used, MoveToHead(at)
      PROVE  \E t : ListLinks(list', t) /\ Reordered(s, t, act')
    <2>1. PICK k \in 1..Len(s) : s[k] = at
        BY UsedIs
    <2>2. ListLinks(IF at = list.head THEN list
                 ELSE LinkedInFront(Bridge(list, at), Bridge(list, at).head, at),
                 WithNode(WithoutNode(s, k), 0, at))
        BY <2>1, FrontOf
    <2>3. list' = (IF at = list.head THEN list
                   ELSE LinkedInFront(Bridge(list, at), Bridge(list, at).head, at))
          /\ act'.name = "MoveToHead" /\ act'.at = at
        BY <1>9 DEF MoveToHead, LinkedInFront
    <2>4. QED BY <2>1, <2>2, <2>3 DEF Reordered
<1>10. ASSUME NEW at \in list.used, MoveToTail(at)
       PROVE  \E t : ListLinks(list', t) /\ Reordered(s, t, act')
    <2>1. PICK k \in 1..Len(s) : s[k] = at
        BY UsedIs
    <2>2. ListLinks(IF at = list.tail THEN list
                 ELSE LinkedAtEnd(Bridge(list, at), Bridge(list, at).tail, at),
                 WithNode(WithoutNode(s, k), Len(s) - 1, at))
        BY <2>1, EndOfList
    <2>3. list' = (IF at = list.tail THEN list
                   ELSE LinkedAtEnd(Bridge(list, at), Bridge(list, at).tail, at))
          /\ act'.name = "MoveToTail" /\ act'.at = at
        BY <1>10 DEF MoveToTail, LinkedAtEnd
    <2>4. QED BY <2>1, <2>2, <2>3 DEF Reordered
<1>11. ASSUME NEW a \in list.used, NEW b \in list.used, SwapElements(a, b)
       PROVE  \E t : ListLinks(list', t) /\ Reordered(s, t, act')
    <2>1. PICK j \in 1..Len(s) : s[j] = a
        BY UsedIs
    <2>2. PICK k \in 1..Len(s) : s[k] = b
        BY UsedIs
    <2>3. ListLinks(Swapped(list, a, b), Exchanged(s, a, b))
        BY <2>1, <2>2, Swaps
    <2>4. list' = Swapped(list, a, b) /\ act'.name = "Swap" /\ act'.at = a /\ act'.new = b
        BY <1>11 DEF SwapElements
    <2>5. QED BY <2>3, <2>4 DEF Reordered
<1>12. CASE RemoveAllItems
    <2>1. list' = EmptyList /\ act'.name = "RemoveAll"
        BY <1>12 DEF RemoveAllItems
    <2>2. QED BY <2>1, EmptyLinked DEF Reordered
<1>13. QED BY <1>4, <1>5, <1>6, <1>7, <1>8, <1>9, <1>10, <1>11, <1>12 DEF ListNext

\* What the order is made of is what a list with positions promises.
LEMMA PromiseKept ==
    ASSUME NEW s, NEW t, NodeChain(s), Reordered(s, t, act'),
           LinkedFrom(list.head, list.next) = s, LinkedFrom(list.head, list.next)' = t
    PROVE  ListPromise!Step
<1> DEFINE order == LinkedFrom(list.head, list.next)
<1>1. order = s /\ order' = t
    OBVIOUS
<1> HIDE DEF order
<1>2. CASE act'.name = "AddHead" /\ t = WithNode(s, 0, act'.new)
    BY <1>1, <1>2 DEF WithNode, ListPromise!Step, ListPromise!PutBehind, order
<1>3. CASE act'.name = "AddTail" /\ t = WithNode(s, Len(s), act'.new)
    BY <1>1, <1>3 DEF WithNode, ListPromise!Step, ListPromise!PutBehind, order
<1>4. ASSUME NEW k \in 1..Len(s), s[k] = act'.at
      PROVE  /\ ListPromise!IndexOf(act'.at) = k
             /\ ListPromise!Others(act'.at) = WithoutNode(s, k)
    <2>1. \A i \in 1..Len(s) : s[i] = act'.at => i = k
        BY <1>4 DEF NodeChain
    <2>2. ListPromise!IndexOf(act'.at) = CHOOSE i \in 1..Len(s) : s[i] = act'.at
        BY <1>1 DEF ListPromise!IndexOf, order
    <2>3. ListPromise!IndexOf(act'.at) = k
        BY <2>1, <2>2, <1>4
    <2>4. ListPromise!Others(act'.at) = WithoutNode(s, k)
        BY <1>1, <2>3 DEF ListPromise!Others, WithoutNode, order
    <2>5. QED BY <2>3, <2>4
<1>5. ASSUME NEW k \in 1..Len(s), s[k] = act'.at,
             \/ act'.name = "InsertBefore" /\ t = WithNode(s, k - 1, act'.new)
             \/ act'.name = "InsertAfter" /\ t = WithNode(s, k, act'.new)
             \/ act'.name = "Remove" /\ t = WithoutNode(s, k)
             \/ act'.name = "MoveToHead" /\ t = WithNode(WithoutNode(s, k), 0, s[k])
             \/ act'.name = "MoveToTail" /\ t = WithNode(WithoutNode(s, k), Len(s) - 1, s[k])
      PROVE  ListPromise!Step
    <2>1. ListPromise!IndexOf(act'.at) = k /\ ListPromise!Others(act'.at) = WithoutNode(s, k)
        BY <1>4, <1>5
    <2>2. QED BY <1>1, <1>5, <2>1 DEF WithNode, ListPromise!Step, ListPromise!PutBehind, order
<1>6. CASE act'.name = "RemoveAll" /\ t = <<>>
    BY <1>1, <1>6 DEF ListPromise!Step, order
<1>7. CASE act'.name = "Swap" /\ t = Exchanged(s, act'.at, act'.new)
    BY <1>1, <1>7 DEF Exchanged, ListPromise!Step, order
<1>8. QED BY <1>2, <1>3, <1>5, <1>6, <1>7 DEF Reordered

\* The inductive invariant: the nodes of some sequence are linked in its order.
LinkedSome == \E s : ListLinks(list, s)

LEMMA ListLinked ==
    ListSpec => []LinkedSome
<1>1. ListInit => LinkedSome
    BY EmptyLinked DEF ListInit, LinkedSome
<1>2. LinkedSome /\ [ListNext]_listVars => LinkedSome'
    <2> SUFFICES ASSUME LinkedSome, [ListNext]_listVars PROVE LinkedSome'
        OBVIOUS
    <2>1. PICK s : ListLinks(list, s)
        BY DEF LinkedSome
    <2>2. CASE ListNext
        BY <2>1, <2>2, ListStep DEF LinkedSome
    <2>3. CASE UNCHANGED listVars
        BY <2>1, <2>3 DEF LinkedSome, listVars
    <2>4. QED BY <2>2, <2>3
<1>3. QED BY <1>1, <1>2, PTL DEF ListSpec

\* Every operation of the list moves, adds or takes the node it names and no
\* other: insertions at and between the ends, removals, moves to an end and
\* swaps, of neighbours, ends and a node with itself, keep all others in order.
THEOREM ListIsSequenceHolds ==
    ListSpec => ListIsSequence
<1>1. ListInit => ListPromise!Init
    <2> SUFFICES ASSUME ListInit PROVE ListPromise!Init
        OBVIOUS
    <2>1. LinkedFrom(list.head, list.next) = <<>>
        BY EmptyLinked, LinkedOrder DEF ListInit
    <2>2. QED BY <2>1 DEF ListInit, ListPromise!Init
<1>2. LinkedSome /\ [ListNext]_listVars =>
          [ListPromise!Next]_<<LinkedFrom(list.head, list.next), act>>
    <2> SUFFICES ASSUME LinkedSome, [ListNext]_listVars
                 PROVE  [ListPromise!Next]_<<LinkedFrom(list.head, list.next), act>>
        OBVIOUS
    <2>1. CASE ListNext
        <3>1. PICK s : ListLinks(list, s)
            BY DEF LinkedSome
        <3>2. PICK t : ListLinks(list', t) /\ Reordered(s, t, act')
            BY <2>1, <3>1, ListStep
        <3>3. LinkedFrom(list.head, list.next) = s
            BY <3>1, LinkedOrder
        <3>4. LinkedFrom(list'.head, list'.next) = t
            BY <3>2, LinkedOrder
        <3>5. LinkedFrom(list.head, list.next)' = t
            BY <3>4
        <3>6. NodeChain(s)
            BY <3>1 DEF ListLinks
        <3>7. ListPromise!Step
            BY <3>2, <3>3, <3>5, <3>6, PromiseKept
        <3>8. QED BY <3>7 DEF ListPromise!Next
    <2>2. CASE UNCHANGED listVars
        <3>1. LinkedFrom(list.head, list.next)' = LinkedFrom(list.head, list.next) /\ act' = act
            BY <2>2 DEF listVars
        <3>2. QED BY <3>1
    <2>3. QED BY <2>1, <2>2
<1>3. QED BY <1>1, <1>2, ListLinked, PTL DEF ListSpec, ListIsSequence, ListPromise!Spec

-----------------------------------------------------------------------------

\* The other way round the list is the same chain.
LEMMA LinkedBack ==
    ASSUME NEW l, NEW s, ListLinks(l, s)
    PROVE  /\ Len(LinkedFrom(l.tail, l.prev)) = Len(s)
           /\ \A k \in 1..Len(s) : LinkedFrom(l.tail, l.prev)[k] = s[Len(s) + 1 - k]
<1> DEFINE L == Len(s)
           r == [k \in 1..Len(s) |-> s[Len(s) + 1 - k]]
<1>1. NodeChain(s) /\ L \in Int /\ L >= 0 /\ L \in Nat
    BY ChainLength DEF ListLinks
<1>2. /\ l.tail = Nth(s, L)
      /\ \A k \in 1..L : l.prev[s[k]] = Nth(s, k - 1) /\ s[k] \in Item
    BY LinkedIs
<1> HIDE DEF L
<1>3. \A k \in 1..L : L + 1 - k \in 1..L /\ r[k] = s[L + 1 - k] /\ r[k] \in Item
    <2>1. \A k \in 1..L : L + 1 - k \in 1..L
        BY <1>1
    <2>2. QED BY <2>1, <1>2 DEF L
<1>4. r \in Seq(Item) /\ Len(r) = L
    <2>1. r \in [1..L -> Item]
        BY <1>3 DEF L
    <2>2. QED BY <2>1, <1>1, SeqDef, LenProperties
<1> HIDE DEF r
<1>5. NodeChain(r)
    <2>1. \A j, k \in 1..L : s[j] = s[k] => j = k
        BY <1>1 DEF NodeChain, L
    <2>2. \A j, k \in 1..L : r[j] = r[k] => j = k
        <3> TAKE j, k \in 1..L
        <3> HAVE r[j] = r[k]
        <3>1. L + 1 - j = L + 1 - k
            BY <1>3, <2>1
        <3>2. QED BY <3>1, <1>1
    <2>3. QED BY <2>2, <1>4 DEF NodeChain
<1>6. \A k \in 0..(L + 1) : Nth(r, k) = Nth(s, L + 1 - k)
    <2> TAKE k \in 0..(L + 1)
    <2>1. CASE k \in 1..L
        BY <2>1, <1>1, <1>3, <1>4 DEF Nth, L
    <2>2. CASE k \notin 1..L
        <3>1. L + 1 - k \notin 1..L
            BY <2>2, <1>1
        <3>2. QED BY <2>2, <3>1, <1>4 DEF Nth, L
    <2>3. QED BY <2>1, <2>2
<1>7. l.tail = Nth(r, 1)
    <2>1. 1 \in 0..(L + 1) /\ L + 1 - 1 = L
        BY <1>1
    <2>2. QED BY <2>1, <1>2, <1>6
<1>8. \A k \in 1..Len(r) : l.prev[r[k]] = Nth(r, k + 1)
    <2> TAKE k \in 1..Len(r)
    <2>1. k \in 1..L /\ k + 1 \in 0..(L + 1) /\ L + 1 - (k + 1) = (L + 1 - k) - 1
        BY <1>1, <1>4
    <2>2. l.prev[r[k]] = Nth(s, (L + 1 - k) - 1)
        BY <2>1, <1>2, <1>3
    <2>3. QED BY <2>1, <2>2, <1>6
<1>9. LinkedFrom(Nth(r, 1), l.prev) = r
    BY <1>5, <1>8, Walked
<1>10. QED BY <1>3, <1>4, <1>7, <1>9 DEF L

\* From any place on, LinkedFrom finds the rest.
LEMMA LinkedRest ==
    ASSUME NEW l, NEW s, ListLinks(l, s), NEW k \in 0..Len(s)
    PROVE  LinkedFrom(Nth(s, k + 1), l.next) = SubSeq(s, k + 1, Len(s))
<1> DEFINE L == Len(s)
           r == SubSeq(s, k + 1, Len(s))
<1>1. NodeChain(s) /\ L \in Int /\ L >= 0 /\ s \in Seq(Item) /\ k \in Int /\ 0 <= k /\ k <= L
    BY ChainLength DEF ListLinks, NodeChain
<1>2. r \in Seq(Item) /\ Len(r) = L - k /\ \A j \in 1..(L - k) : r[j] = s[k + j]
    <2>1. /\ r \in Seq(Item) /\ Len(r) = L - (k + 1) + 1
          /\ \A j \in 1..(L - (k + 1) + 1) : r[j] = s[(k + 1) + j - 1]
        BY <1>1, PartOf
    <2> HIDE DEF r
    <2>2. QED BY <2>1, <1>1
<1>3. \A j \in 1..L : l.next[s[j]] = Nth(s, j + 1)
    BY LinkedIs
<1>4. \A i, j \in 1..L : s[i] = s[j] => i = j
    BY <1>1 DEF NodeChain
<1> HIDE DEF r, L
<1>5. NodeChain(r)
    <2>1. \A i, j \in 1..(L - k) : r[i] = r[j] => i = j
        <3> TAKE i, j \in 1..(L - k)
        <3> HAVE r[i] = r[j]
        <3>1. k + i \in 1..L /\ k + j \in 1..L
            BY <1>1
        <3>2. k + i = k + j
            BY <3>1, <1>2, <1>4
        <3>3. QED BY <3>2, <1>1
    <2>2. QED BY <2>1, <1>2 DEF NodeChain
<1>6. \A j \in 1..(L - k + 1) : Nth(r, j) = Nth(s, k + j)
    <2> TAKE j \in 1..(L - k + 1)
    <2>1. CASE j \in 1..(L - k)
        BY <2>1, <1>1, <1>2 DEF Nth, L
    <2>2. CASE j = L - k + 1
        BY <2>2, <1>1, <1>2 DEF Nth, L
    <2>3. QED BY <2>1, <2>2, <1>1
<1>7. \A j \in 1..Len(r) : l.next[r[j]] = Nth(r, j + 1)
    <2> TAKE j \in 1..Len(r)
    <2>1. j \in 1..(L - k) /\ j + 1 \in 1..(L - k + 1) /\ k + j \in 1..L /\ k + (j + 1) = (k + j) + 1
        BY <1>1, <1>2
    <2>2. l.next[r[j]] = Nth(s, (k + j) + 1)
        BY <2>1, <1>2, <1>3
    <2>3. QED BY <2>1, <2>2, <1>6
<1>8. LinkedFrom(Nth(r, 1), l.next) = r
    BY <1>5, <1>7, Walked
<1>9. Nth(r, 1) = Nth(s, k + 1)
    <2>1. 1 \in 1..(L - k + 1)
        BY <1>1
    <2>2. QED BY <2>1, <1>6
<1>10. QED BY <1>8, <1>9 DEF r

\* Find finds the first node behind k with the element, or none.
IsFirst(s, e, k, m) ==
    /\ m \in (k + 1)..Len(s) /\ list.element[s[m]] = e
    /\ \A j \in (k + 1)..Len(s) : list.element[s[j]] = e => m <= j

NoneBehind(s, e, k) == \A j \in (k + 1)..Len(s) : list.element[s[j]] # e

LEMMA Finds ==
    ASSUME NEW s, ListLinks(list, s), NEW e, NEW k \in 0..Len(s)
    PROVE  \/ NoneBehind(s, e, k) /\ FindItem(e, Nth(s, k)) = 0
           \/ \E m \in (k + 1)..Len(s) : IsFirst(s, e, k, m) /\ FindItem(e, Nth(s, k)) = s[m]
<1> DEFINE L == Len(s)
           after == Nth(s, k)
           rest == LinkedFrom(IF after = 0 THEN list.head ELSE list.next[after], list.next)
           hits == {j \in 1..Len(rest) : list.element[rest[j]] = e}
<1>1. NodeChain(s) /\ L \in Int /\ L >= 0 /\ s \in Seq(Item) /\ k \in Int /\ 0 <= k /\ k <= L
    BY ChainLength DEF ListLinks, NodeChain
<1>2. (IF after = 0 THEN list.head ELSE list.next[after]) = Nth(s, k + 1)
    <2>1. CASE k = 0
        <3>1. after = 0 /\ k + 1 = 1
            BY <2>1 DEF Nth
        <3>2. list.head = Nth(s, 1)
            BY LinkedIs
        <3>3. QED BY <3>1, <3>2
    <2>2. CASE k # 0
        <3>1. k \in 1..Len(s)
            BY <2>2, <1>1
        <3>2. after = s[k] /\ after # 0
            BY <3>1, <1>1, NthIs
        <3>3. list.next[s[k]] = Nth(s, k + 1)
            BY <3>1, LinkedIs
        <3>4. QED BY <3>2, <3>3
    <2>3. QED BY <2>1, <2>2
<1>3. rest = SubSeq(s, k + 1, L)
    BY <1>2, LinkedRest
<1>4. FindItem(e, after) = IF hits = {} THEN 0 ELSE rest[CHOOSE j \in hits : \A i \in hits : j <= i]
    BY DEF FindItem
<1> HIDE DEF rest
<1>5. Len(rest) = L - k /\ \A j \in 1..(L - k) : rest[j] = s[k + j]
    <2>1. /\ Len(rest) = L - (k + 1) + 1
          /\ \A j \in 1..(L - (k + 1) + 1) : rest[j] = s[(k + 1) + j - 1]
        BY <1>1, <1>3, PartOf
    <2>2. QED BY <2>1, <1>1
<1> HIDE DEF L, after
<1>6. \A j \in 1..(L - k) : j \in hits <=> list.element[s[k + j]] = e
    BY <1>5
<1>7. hits \subseteq 1..(L - k) /\ hits \subseteq Nat
    BY <1>5
<1> HIDE DEF hits
<1>8. CASE hits = {}
    <2>1. ASSUME NEW j \in (k + 1)..L PROVE list.element[s[j]] # e
        <3>1. j - k \in 1..(L - k) /\ k + (j - k) = j
            BY <1>1
        <3>2. QED BY <3>1, <1>6, <1>8
    <2>2. QED BY <2>1, <1>4, <1>8 DEF NoneBehind, L, after
<1>9. CASE hits # {}
    <2> DEFINE m == CHOOSE j \in hits : \A i \in hits : j <= i
    <2>1. m \in hits /\ \A i \in hits : m <= i
        <3>1. \E j \in hits : \A i \in hits : j <= i
            BY <1>7, <1>9, LeastNatural
        <3>2. QED BY <3>1
    <2>2. FindItem(e, after) = rest[m]
        BY <1>4, <1>9
    <2> HIDE DEF m
    <2>3. m \in 1..(L - k) /\ k + m \in (k + 1)..L
        <3>1. m \in 1..(L - k)
            BY <2>1, <1>7
        <3>2. QED BY <3>1, <1>1
    <2>4. list.element[s[k + m]] = e /\ rest[m] = s[k + m]
        BY <2>1, <2>3, <1>5, <1>6
    <2>5. ASSUME NEW j \in (k + 1)..L, list.element[s[j]] = e PROVE k + m <= j
        <3>1. j - k \in 1..(L - k) /\ k + (j - k) = j
            BY <1>1
        <3>2. m <= j - k
            BY <3>1, <2>1, <2>5, <1>6
        <3>3. QED BY <3>1, <3>2, <2>3, <1>1
    <2>6. IsFirst(s, e, k, k + m)
        BY <2>3, <2>4, <2>5 DEF IsFirst, L
    <2>7. QED BY <2>2, <2>3, <2>4, <2>6 DEF L, after
<1>10. QED BY <1>8, <1>9

\* The hits behind k, linked by what Find finds.
Hits(h, s, e, k) ==
    /\ NodeChain(h)
    /\ Nth(h, 1) = FindItem(e, Nth(s, k))
    /\ \A j \in 1..Len(h) : FindItem(e, h[j]) = Nth(h, j + 1)
    /\ \A i : i \in ItemsOf(h) <=> \E m \in (k + 1)..Len(s) : s[m] = i /\ list.element[i] = e

LEMMA HitsBefore ==
    ASSUME NEW s, ListLinks(list, s), NEW e, NEW k \in 0..Len(s), k # Len(s),
           NEW h, Hits(h, s, e, k + 1)
    PROVE  \E g : Hits(g, s, e, k)
<1> DEFINE L == Len(s)
           i == s[k + 1]
<1>1. NodeChain(s) /\ L \in Int /\ L >= 0 /\ s \in Seq(Item) /\ k \in Int /\ 0 <= k /\ k < L
    BY ChainLength DEF ListLinks, NodeChain
<1>2. k + 1 \in 0..Len(s) /\ k + 1 \in 1..Len(s)
    BY <1>1
<1>3. i \in Item /\ Nth(s, k + 1) = i
    BY <1>1, <1>2, NthIs
<1>4. /\ NodeChain(h) /\ Nth(h, 1) = FindItem(e, i)
      /\ \A j \in 1..Len(h) : FindItem(e, h[j]) = Nth(h, j + 1)
      /\ \A x : x \in ItemsOf(h) <=> \E m \in ((k + 1) + 1)..L : s[m] = x /\ list.element[x] = e
    BY <1>3 DEF Hits
<1>5. \A j, m \in 1..L : s[j] = s[m] => j = m
    BY <1>1 DEF NodeChain
<1>6. CASE list.element[i] = e
    <2> DEFINE g == WithNode(h, 0, i)
    <2>1. i \notin ItemsOf(h)
        <3> SUFFICES ASSUME NEW m \in ((k + 1) + 1)..L, s[m] = i PROVE FALSE
            BY <1>4
        <3>1. m \in 1..L /\ m # k + 1
            BY <1>1
        <3>2. QED BY <3>1, <1>2, <1>5
    <2>2. Len(h) \in Int /\ Len(h) >= 0 /\ 0 \in 0..Len(h)
        BY <1>4, ChainLength
    <2>3. IsPut(g, h, 0, i)
        BY <1>3, <1>4, <2>2, WithNodeIs
    <2> HIDE DEF g
    <2>4. NodeChain(g) /\ ItemsOf(g) = ItemsOf(h) \cup {i}
        BY <1>3, <1>4, <2>1, <2>2, <2>3, ChainPut
    <2>5. /\ Len(g) = Len(h) + 1 /\ Nth(g, 1) = i
          /\ \A j \in 2..(Len(h) + 2) : Nth(g, j) = Nth(h, j - 1)
        BY <2>2, <2>3 DEF IsPut
    <2>6. FindItem(e, Nth(s, k)) = i
        <3>1. k + 1 \in (k + 1)..L
            BY <1>1
        <3>2. ~NoneBehind(s, e, k)
            BY <3>1, <1>6 DEF NoneBehind
        <3>3. PICK m \in (k + 1)..Len(s) : IsFirst(s, e, k, m) /\ FindItem(e, Nth(s, k)) = s[m]
            BY <3>2, Finds
        <3>4. m <= k + 1
            BY <3>1, <3>3, <1>6 DEF IsFirst
        <3>5. m = k + 1
            BY <3>4, <1>1
        <3>6. QED BY <3>3, <3>5
    <2>7. \A j \in 1..Len(g) : FindItem(e, g[j]) = Nth(g, j + 1)
        <3> TAKE j \in 1..Len(g)
        <3>1. g[j] = Nth(g, j) /\ j \in Int /\ 1 <= j /\ j <= Len(h) + 1
            BY <2>2, <2>5 DEF Nth
        <3>2. CASE j = 1
            <4>1. 2 \in 2..(Len(h) + 2) /\ 2 - 1 = 1 /\ j + 1 = 2
                BY <2>2, <3>2
            <4>2. Nth(g, j + 1) = Nth(h, 1)
                BY <4>1, <2>5
            <4>3. QED BY <4>2, <3>1, <3>2, <2>5, <1>4
        <3>3. CASE j # 1
            <4>1. j \in 2..(Len(h) + 2) /\ j + 1 \in 2..(Len(h) + 2) /\ (j + 1) - 1 = (j - 1) + 1
                  /\ j - 1 \in 1..Len(h)
                BY <3>1, <3>3, <2>2
            <4>2. Nth(g, j) = Nth(h, j - 1) /\ Nth(g, j + 1) = Nth(h, (j - 1) + 1)
                BY <4>1, <2>5
            <4>3. Nth(h, j - 1) = h[j - 1]
                BY <4>1 DEF Nth
            <4>4. FindItem(e, h[j - 1]) = Nth(h, (j - 1) + 1)
                BY <4>1, <1>4
            <4>5. QED BY <3>1, <4>2, <4>3, <4>4
        <3>4. QED BY <3>2, <3>3
    <2>8. ASSUME NEW x
          PROVE  x \in ItemsOf(g) <=> \E m \in (k + 1)..L : s[m] = x /\ list.element[x] = e
        <3>1. \A m \in ((k + 1) + 1)..L : m \in (k + 1)..L
            BY <1>1
        <3>2. \A m \in (k + 1)..L : m = k + 1 \/ m \in ((k + 1) + 1)..L
            BY <1>1
        <3>3. k + 1 \in (k + 1)..L
            BY <1>1
        <3>4. QED BY <3>1, <3>2, <3>3, <2>4, <1>4, <1>6
    <2>9. Hits(g, s, e, k)
        BY <2>4, <2>5, <2>6, <2>7, <2>8 DEF Hits
    <2>10. QED BY <2>9
<1>7. CASE list.element[i] # e
    <2>1. FindItem(e, Nth(s, k)) = FindItem(e, i)
        <3>1. CASE NoneBehind(s, e, k)
            <4>1. NoneBehind(s, e, k + 1)
                <5>1. \A m \in ((k + 1) + 1)..L : m \in (k + 1)..L
                    BY <1>1
                <5>2. QED BY <5>1, <3>1 DEF NoneBehind
            <4>2. FindItem(e, Nth(s, k)) = 0
                <5>1. \A m \in (k + 1)..Len(s) : ~IsFirst(s, e, k, m)
                    BY <3>1 DEF NoneBehind, IsFirst
                <5>2. QED BY <5>1, Finds
            <4>3. FindItem(e, Nth(s, k + 1)) = 0
                <5>1. \A m \in ((k + 1) + 1)..Len(s) : ~IsFirst(s, e, k + 1, m)
                    BY <4>1 DEF NoneBehind, IsFirst
                <5>2. QED BY <5>1, <1>2, Finds
            <4>4. QED BY <4>2, <4>3, <1>3
        <3>2. CASE ~NoneBehind(s, e, k)
            <4>1. PICK m \in (k + 1)..Len(s) : IsFirst(s, e, k, m) /\ FindItem(e, Nth(s, k)) = s[m]
                BY <3>2, Finds
            <4>2. m # k + 1 /\ m \in ((k + 1) + 1)..Len(s)
                <5>1. m # k + 1
                    BY <4>1, <1>7 DEF IsFirst
                <5>2. QED BY <5>1, <1>1
            <4>3. ~NoneBehind(s, e, k + 1)
                BY <4>1, <4>2 DEF NoneBehind, IsFirst
            <4>4. PICK n \in ((k + 1) + 1)..Len(s) :
                      IsFirst(s, e, k + 1, n) /\ FindItem(e, Nth(s, k + 1)) = s[n]
                BY <4>3, <1>2, Finds
            <4>5. n \in (k + 1)..Len(s)
                BY <1>1
            <4>6. m <= n /\ n <= m
                BY <4>1, <4>2, <4>4, <4>5 DEF IsFirst
            <4>7. m = n
                BY <4>6, <4>2, <4>5
            <4>8. QED BY <4>1, <4>4, <4>7, <1>3
        <3>3. QED BY <3>1, <3>2
    <2>2. ASSUME NEW x
          PROVE  x \in ItemsOf(h) <=> \E m \in (k + 1)..L : s[m] = x /\ list.element[x] = e
        <3>1. \A m \in ((k + 1) + 1)..L : m \in (k + 1)..L
            BY <1>1
        <3>2. \A m \in (k + 1)..L : m = k + 1 \/ m \in ((k + 1) + 1)..L
            BY <1>1
        <3>3. QED BY <3>1, <3>2, <1>4, <1>7
    <2>3. Hits(h, s, e, k)
        BY <2>1, <2>2, <1>4 DEF Hits
    <2>4. QED BY <2>3
<1>8. QED BY <1>6, <1>7

LEMMA HitsExist ==
    ASSUME NEW s, ListLinks(list, s), NEW e
    PROVE  \E h : Hits(h, s, e, 0)
<1> DEFINE L == Len(s)
           Bad == {n \in 0..L : ~\E h : Hits(h, s, e, L - n)}
<1>1. NodeChain(s) /\ L \in Int /\ L >= 0
    BY ChainLength DEF ListLinks
<1>2. Bad = {}
    <2>1. SUFFICES ASSUME Bad # {} PROVE FALSE
        OBVIOUS
    <2>2. PICK n \in Bad : \A k \in Bad : n <= k
        <3>1. Bad \subseteq Nat
            BY <1>1
        <3> HIDE DEF Bad
        <3>2. QED BY <2>1, <3>1, LeastNatural
    <2>3. n \in 0..L /\ ~\E h : Hits(h, s, e, L - n)
        BY <2>2
    <2>4. CASE n = 0
        <3>1. L - n = L /\ L \in 0..Len(s)
            BY <2>4, <1>1
        <3>2. \A m \in (L + 1)..L : FALSE
            BY <1>1
        <3>3. FindItem(e, Nth(s, L)) = 0
            <4>1. \A m \in (L + 1)..Len(s) : FALSE
                BY <3>2
            <4>2. QED BY <3>1, <4>1, Finds
        <3>4. <<>> \in Seq(Item) /\ Len(<<>>) = 0
            OBVIOUS
        <3>5. NodeChain(<<>>) /\ Nth(<<>>, 1) = 0 /\ ItemsOf(<<>>) = {}
            BY <3>4 DEF NodeChain, Nth, ItemsOf
        <3>6. Hits(<<>>, s, e, L)
            BY <3>2, <3>3, <3>4, <3>5 DEF Hits
        <3>7. QED BY <2>3, <3>1, <3>6
    <2>5. CASE n # 0
        <3>1. n - 1 \in 0..L /\ ~(n <= n - 1)
            BY <2>3, <2>5, <1>1
        <3>2. n - 1 \notin Bad
            BY <2>2, <3>1
        <3>3. PICK h : Hits(h, s, e, L - (n - 1))
            BY <3>1, <3>2
        <3>4. L - n \in 0..Len(s) /\ L - n # Len(s) /\ L - (n - 1) = (L - n) + 1
            <4>1. n \in 0..L
                BY <2>3
            <4> HIDE DEF Bad
            <4>2. QED BY <4>1, <2>5, <1>1
        <3>5. Hits(h, s, e, (L - n) + 1)
            BY <3>3, <3>4
        <3> DEFINE k == L - n
        <3>6. \E g : Hits(g, s, e, k)
            <4>1. k \in 0..Len(s) /\ k # Len(s) /\ Hits(h, s, e, k + 1)
                BY <3>4, <3>5
            <4> HIDE DEF k
            <4>2. QED BY <4>1, HitsBefore
        <3>7. QED BY <3>6, <2>3
    <2>6. QED BY <2>4, <2>5
<1>3. L \in 0..L /\ L - L = 0
    BY <1>1
<1>4. \E h : Hits(h, s, e, L - L)
    BY <1>2, <1>3
<1>5. QED BY <1>3, <1>4

LEMMA FoundAll ==
    ASSUME NEW s, ListLinks(list, s), NEW e
    PROVE  NodeChain(Found(e)) /\ ItemsOf(Found(e)) = {i \in list.used : list.element[i] = e}
<1>1. PICK h : Hits(h, s, e, 0)
    BY HitsExist
<1> DEFINE link == [i \in Item |-> FindItem(e, i)]
<1>2. /\ NodeChain(h) /\ Nth(h, 1) = FindItem(e, Nth(s, 0))
      /\ \A j \in 1..Len(h) : FindItem(e, h[j]) = Nth(h, j + 1)
      /\ \A i : i \in ItemsOf(h) <=> \E m \in (0 + 1)..Len(s) : s[m] = i /\ list.element[i] = e
    BY <1>1 DEF Hits
<1>3. Nth(s, 0) = 0
    BY DEF Nth
<1>4. \A j \in 1..Len(h) : link[h[j]] = Nth(h, j + 1)
    <2> TAKE j \in 1..Len(h)
    <2>1. h[j] \in Item
        BY <1>2, NthIs
    <2>2. QED BY <2>1, <1>2
<1> HIDE DEF link
<1>5. LinkedFrom(Nth(h, 1), link) = h
    BY <1>2, <1>4, Walked
<1>6. Found(e) = h
    BY <1>2, <1>3, <1>5 DEF Found, link
<1>7. ASSUME NEW i PROVE i \in ItemsOf(h) <=> i \in list.used /\ list.element[i] = e
    <2>1. i \in list.used <=> \E m \in 1..Len(s) : s[m] = i
        BY DEF ListLinks, ItemsOf
    <2>2. 0 + 1 = 1
        OBVIOUS
    <2>3. QED BY <2>1, <2>2, <1>2
<1>8. ItemsOf(h) = {i \in list.used : list.element[i] = e}
    BY <1>7
<1>9. QED BY <1>2, <1>6, <1>8

\* The list is the same chain from both ends, its count and its blocks are
\* those of the nodes in it, and Find misses and repeats none.
THEOREM ListCoherentHolds ==
    ListSpec => []ListCoherent
<1>1. LinkedSome => ListCoherent
    <2> SUFFICES ASSUME NEW s, ListLinks(list, s) PROVE ListCoherent
        BY DEF LinkedSome
    <2>1. LinkedFrom(list.head, list.next) = s
        BY LinkedOrder
    <2> DEFINE back == LinkedFrom(list.tail, list.prev)
    <2>2. Len(back) = Len(s) /\ \A k \in 1..Len(s) : back[k] = s[Len(s) + 1 - k]
        BY LinkedBack
    <2>3. Len(s) \in Int
        BY ChainLength DEF ListLinks
    <2> HIDE DEF back
    <2>4. \A i \in 1..Len(s) : s[i] = back[Len(back) + 1 - i]
        <3> TAKE i \in 1..Len(s)
        <3>1. Len(s) + 1 - i \in 1..Len(s) /\ Len(s) + 1 - (Len(s) + 1 - i) = i
            BY <2>3
        <3>2. QED BY <3>1, <2>2
    <2>5. list.nElements = Len(s) /\ ItemsOf(s) = list.used /\ (list.blocks <=> list.used # {})
        BY DEF ListLinks
    <2>6. ASSUME NEW e \in Elements
          PROVE  /\ {Found(e)[k] : k \in 1..Len(Found(e))} = {i \in list.used : list.element[i] = e}
                 /\ \A j, k \in 1..Len(Found(e)) : Found(e)[j] = Found(e)[k] => j = k
        BY FoundAll DEF NodeChain, ItemsOf
    <2>7. QED BY <2>1, <2>2, <2>4, <2>5, <2>6 DEF ListCoherent, ItemsOf, back
<1>2. QED BY <1>1, ListLinked, PTL

=============================================================================

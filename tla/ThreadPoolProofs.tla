-------------------------- MODULE ThreadPoolProofs --------------------------
(***************************************************************************)
(* The safety properties of the thread pools and of their owner, for any   *)
(* number of workers, tasks and jobs, and for queues of every size.        *)
(***************************************************************************)
EXTENDS ThreadPoolJoin, FiniteSetTheorems, SequenceTheorems, WellFoundedInduction, TLAPS

(***************************************************************************)
(* The queue: a std::queue, or a FifoPool whose blocks are of one size and *)
(* lie in slots.  From the tail in slot a, n blocks go up to the end of    *)
(* slot e - 1 and on from slot 0.  A block that fills the front up to the  *)
(* tail leaves a queue that looks empty and counts all it had.             *)
(***************************************************************************)

MaxOffset == TaskSize * ElemSize + HEADER_SIZE + FULL_GAP

SlotSize == ElemSize + HEADER_SIZE

Off(i) == i * SlotSize

\* The slot of the k-th block, and the one the head is at.
SlotOf(a, e, k) == IF a + k - 1 < e THEN a + k - 1 ELSE a + k - 1 - e

HeadSlot(a, e, n) == IF a + n = e THEN e ELSE a + n - e

OneRow(a, e, n) == a + n = e

TwoRows(a, e, n) == a < e /\ e < a + n /\ a + n - e < a

FifoTypes ==
    [pool: [max: {MaxOffset}, head: 0..MaxOffset, tail: 0..MaxOffset, end: 0..MaxOffset,
            nBuffers: Nat, header: [0..MaxOffset -> Nat]],
     at: [0..MaxOffset -> Task \cup {NoTask}]]

Laid(q, a, e, n) ==
    /\ q.pool.tail = Off(a) /\ q.pool.head = Off(HeadSlot(a, e, n))
    /\ Off(e) <= MaxOffset
    /\ OneRow(a, e, n) \/ TwoRows(a, e, n)
    /\ a < e => q.pool.end = Off(e)
    /\ a = e => a = 0 \/ (a = 1 /\ Off(2) <= MaxOffset)
    /\ \A k \in 1..n : /\ q.pool.header[Off(SlotOf(a, e, k))] = ElemSize
                       /\ q.at[Off(SlotOf(a, e, k))] \in Task

\* A FifoPool that finds all it counts, and one that has forgotten some.
FifoQueueOK(q) ==
    /\ q \in FifoTypes
    /\ \E a, e, n \in Nat : Laid(q, a, e, n) /\ q.pool.nBuffers = n

Lossy(q) ==
    /\ ~IsStdQueue /\ q \in FifoTypes
    /\ \E a, e, n \in Nat : Laid(q, a, e, n) /\ q.pool.nBuffers > n

QueueOK(q) == IF IsStdQueue THEN q \in Seq(Task) ELSE FifoQueueOK(q)

-----------------------------------------------------------------------------

\* Every nonempty set of natural numbers has a least element.
LEMMA LeastNatural ==
    ASSUME NEW T, T \subseteq Nat, T # {}
    PROVE  \E m \in T : \A k \in T : m <= k
<1>1. IsWellFoundedOn(OpToRel(<, Nat), Nat)
    BY NatLessThanWellFounded
<1>2. PICK m \in T : \A k \in T : ~(<<k, m>> \in OpToRel(<, Nat))
    BY <1>1, WFMin
<1>3. \A k \in T : ~(k < m)
    BY <1>2 DEF OpToRel
<1>4. QED
    BY <1>3

\* Offsets of slots: what is needed of the product.
LEMMA Offsets ==
    /\ SlotSize \in Nat \ {0} /\ SlotSize = ElemSize + 4 /\ ElemSize \in Nat \ {0}
    /\ \A i \in Int : Off(i) \in Int /\ Off(i + 1) = Off(i) + SlotSize
    /\ \A i, j \in Int : i < j => Off(i) + SlotSize <= Off(j)
    /\ Off(0) = 0 /\ Off(1) = SlotSize /\ Off(2) = SlotSize + SlotSize
<1>1. SlotSize \in Nat \ {0} /\ SlotSize = ElemSize + 4 /\ ElemSize \in Nat \ {0}
    BY QueueAssumption DEF SlotSize, HEADER_SIZE
<1> DEFINE c == SlotSize
<1>2. c \in Nat \ {0} /\ \A i : Off(i) = i * c
    BY <1>1 DEF Off
<1> HIDE DEF c
<1>3. /\ \A i \in Int : Off(i) \in Int /\ Off(i + 1) = Off(i) + c
      /\ Off(0) = 0 /\ Off(1) = c /\ Off(2) = c + c
    BY <1>2
<1>4. \A i, j \in Int : i < j => Off(i) + c <= Off(j)
    <2> TAKE i, j \in Int
    <2> HAVE i < j
    <2>1. (j - i - 1) * c >= 0
        <3>1. PICK d \in Nat : d = j - i - 1
            OBVIOUS
        <3>2. d * c >= 0
            BY <1>2
        <3>3. QED BY <3>1, <3>2
    <2>2. (j - i - 1) * c = j * c - i * c - c
        BY <1>2
    <2>3. QED BY <1>2, <2>1, <2>2
<1>5. QED BY <1>1, <1>3, <1>4 DEF c

\* Two slots are one when their offsets are.
LEMMA OffsetsApart ==
    ASSUME NEW i \in Int, NEW j \in Int
    PROVE  /\ Off(i) = Off(j) <=> i = j
           /\ Off(i) < Off(j) <=> i < j
           /\ Off(i) <= Off(j) <=> i <= j
<1>1. /\ i < j => Off(i) + SlotSize <= Off(j)
      /\ j < i => Off(j) + SlotSize <= Off(i)
      /\ Off(i) \in Int /\ Off(j) \in Int /\ SlotSize \in Nat \ {0}
    BY Offsets
<1>2. i < j \/ i = j \/ j < i
    OBVIOUS
<1>3. QED BY <1>1, <1>2

LEMMA OffsetType ==
    /\ MaxOffset \in Nat /\ 0 \in 0..MaxOffset
    /\ ~IsStdQueue => MaxOffset >= SlotSize + FULL_GAP
    /\ EmptyPool = [max |-> MaxOffset, head |-> 0, tail |-> 0, end |-> 0, nBuffers |-> 0,
                    header |-> [a \in 0..MaxOffset |-> 0]]
<1> DEFINE m == TaskSize * ElemSize
<1>1. TaskSize \in Nat /\ ElemSize \in Nat \ {0}
    BY QueueAssumption
<1>2. m \in Nat /\ (TaskSize # 0 => m >= ElemSize)
    BY <1>1
<1>3. EmptyPool = [max |-> m + HEADER_SIZE + FULL_GAP, head |-> 0, tail |-> 0, end |-> 0,
                   nBuffers |-> 0, header |-> [a \in 0..(m + HEADER_SIZE + FULL_GAP) |-> 0]]
    BY DEF EmptyPool, NewFifo
<1>4. MaxOffset = m + HEADER_SIZE + FULL_GAP
    BY DEF MaxOffset
<1> HIDE DEF m
<1>5. QED BY <1>1, <1>2, <1>3, <1>4 DEF SlotSize, HEADER_SIZE, FULL_GAP, IsStdQueue

\* The blocks lie in slots of their own below the end, and inside the buffer.
LEMMA SlotsIn ==
    ASSUME NEW a \in Nat, NEW e \in Nat, NEW n \in Nat, OneRow(a, e, n) \/ TwoRows(a, e, n),
           Off(e) <= MaxOffset, NEW k \in 1..n
    PROVE  /\ SlotOf(a, e, k) \in Nat /\ SlotOf(a, e, k) < e
           /\ Off(SlotOf(a, e, k)) \in 0..MaxOffset
           /\ OneRow(a, e, n) => SlotOf(a, e, k) = a + k - 1
<1>1. SlotOf(a, e, k) \in Nat /\ SlotOf(a, e, k) < e
      /\ (OneRow(a, e, n) => SlotOf(a, e, k) = a + k - 1)
    BY DEF SlotOf, OneRow, TwoRows
<1> DEFINE s == SlotOf(a, e, k)
<1>2. s \in Nat /\ s < e
    BY <1>1
<1> HIDE DEF s
<1>3. Off(s) + SlotSize <= Off(e) /\ Off(s) \in Int /\ SlotSize \in Nat /\ Off(e) \in Int
    <2>1. s \in Int /\ e \in Int
        BY <1>2
    <2>2. QED BY <1>2, <2>1, Offsets
<1>4. Off(s) >= 0
    <2>1. Off(0) <= Off(s)
        BY <1>2, OffsetsApart
    <2>2. QED BY <2>1, Offsets
<1>5. Off(s) \in 0..MaxOffset
    BY <1>3, <1>4, OffsetType
<1>6. QED BY <1>1, <1>5 DEF s

\* The queue looks empty when no block is found.
LEMMA LaidEmpty ==
    ASSUME NEW q, NEW a \in Nat, NEW e \in Nat, NEW n \in Nat, Laid(q, a, e, n), ~IsStdQueue
    PROVE  QueueEmpty(q) <=> n = 0
<1>1. QueueEmpty(q) <=> HeadSlot(a, e, n) = a
    <2>1. HeadSlot(a, e, n) \in Int
        BY DEF HeadSlot
    <2>2. Off(HeadSlot(a, e, n)) = Off(a) <=> HeadSlot(a, e, n) = a
        BY <2>1, OffsetsApart
    <2>3. QED BY <2>2 DEF QueueEmpty, FifoEmpty, Laid
<1>2. HeadSlot(a, e, n) = a <=> n = 0
    BY DEF HeadSlot, Laid, OneRow, TwoRows
<1>3. QED BY <1>1, <1>2

\* The headers lead from each slot to the next one.
LEMMA NextSlot ==
    ASSUME NEW q, NEW a \in Nat, NEW e \in Nat, NEW n \in Nat, Laid(q, a, e, n),
           NEW k \in 1..n, k + 1 <= n
    PROVE  NextAt(q.pool, Off(SlotOf(a, e, k))) = Off(SlotOf(a, e, k + 1))
<1> DEFINE s == SlotOf(a, e, k)
           t == SlotOf(a, e, k + 1)
           h == HeadSlot(a, e, n)
<1>1. /\ s \in Int /\ t \in Int /\ h \in Int /\ a < e
      /\ s + 1 # e => t = s + 1
      /\ s + 1 = e => t = 0 /\ h # e
    BY DEF SlotOf, HeadSlot, Laid, OneRow, TwoRows
<1>2. q.pool.header[Off(s)] = ElemSize /\ q.pool.end = Off(e) /\ q.pool.head = Off(h)
    BY <1>1 DEF Laid
<1> HIDE DEF s, t, h
<1>3. Off(s) + HEADER_SIZE + ElemSize = Off(s + 1)
    BY <1>1, Offsets DEF HEADER_SIZE
<1>4. NextAt(q.pool, Off(s)) = IF Off(s + 1) = Off(e) /\ Off(s + 1) # Off(h) THEN 0 ELSE Off(s + 1)
    BY <1>2, <1>3 DEF NextAt
<1>5. (Off(s + 1) = Off(e) <=> s + 1 = e) /\ (Off(s + 1) = Off(h) <=> s + 1 = h)
    BY <1>1, OffsetsApart
<1>6. CASE s + 1 = e
    <2>1. s + 1 # h /\ t = 0
        BY <1>1, <1>6
    <2>2. QED BY <1>4, <1>5, <1>6, <2>1, Offsets DEF s, t
<1>7. CASE s + 1 # e
    BY <1>1, <1>4, <1>5, <1>7 DEF s, t
<1>8. QED BY <1>6, <1>7

\* The elements of a queue that finds all it counts.
LEMMA ElementsLaid ==
    ASSUME NEW q, NEW a \in Nat, NEW e \in Nat, NEW n \in Nat, Laid(q, a, e, n),
           q.pool.nBuffers = n, ~IsStdQueue
    PROVE  Elements(q) = [k \in 1..n |-> q.at[Off(SlotOf(a, e, k))]]
<1> DEFINE f == q.pool
           g == [k \in 1..n |-> Off(SlotOf(a, e, k))]
           at[k \in 1..f.nBuffers] == IF k = 1 THEN f.tail ELSE NextAt(f, at[k - 1])
<1>1. f.nBuffers = n
    OBVIOUS
<1>2. Chain(f) = [k \in 1..n |-> [at |-> at[k], size |-> f.header[at[k]]]]
    BY <1>1 DEF Chain
<1>3. at = CHOOSE x : x = [k \in 1..n |-> IF k = 1 THEN f.tail ELSE NextAt(f, x[k - 1])]
    BY <1>1 DEF at
<1> HIDE DEF at
<1>4. g = [k \in 1..n |-> IF k = 1 THEN f.tail ELSE NextAt(f, g[k - 1])]
    <2>1. ASSUME NEW k \in 1..n
          PROVE  Off(SlotOf(a, e, k)) = IF k = 1 THEN f.tail ELSE NextAt(f, g[k - 1])
        <3>1. CASE k = 1
            <4>1. SlotOf(a, e, 1) = a
                BY <3>1 DEF SlotOf, Laid, OneRow, TwoRows
            <4>2. f.tail = Off(a)
                BY DEF Laid
            <4>3. QED BY <3>1, <4>1, <4>2
        <3>2. CASE k # 1
            <4>1. k - 1 \in 1..n /\ (k - 1) + 1 <= n /\ (k - 1) + 1 = k
                BY <3>2
            <4>2. NextAt(q.pool, Off(SlotOf(a, e, k - 1))) = Off(SlotOf(a, e, (k - 1) + 1))
                BY <4>1, NextSlot
            <4>3. g[k - 1] = Off(SlotOf(a, e, k - 1))
                BY <4>1
            <4>4. QED BY <3>2, <4>1, <4>2, <4>3
        <3>3. QED BY <3>1, <3>2
    <2>2. QED BY <2>1
<1>5. at = [k \in 1..n |-> IF k = 1 THEN f.tail ELSE NextAt(f, at[k - 1])]
    BY <1>3, <1>4
<1>6. \A k \in 1..n : g[k] = Off(SlotOf(a, e, k))
    OBVIOUS
<1> HIDE DEF g
<1>7. \A k \in 1..n : at[k] = g[k]
    <2> DEFINE Bad == {k \in 1..n : at[k] # g[k]}
    <2>1. SUFFICES ASSUME Bad # {} PROVE FALSE
        OBVIOUS
    <2>2. PICK k \in Bad : \A j \in Bad : k <= j
        <3>1. Bad \subseteq Nat
            OBVIOUS
        <3> HIDE DEF Bad
        <3>2. QED BY <2>1, <3>1, LeastNatural
    <2>3. k # 1
        BY <1>4, <1>5
    <2>4. k - 1 \in 1..n /\ k - 1 \notin Bad
        BY <2>2, <2>3
    <2>5. QED BY <2>2, <2>3, <2>4, <1>4, <1>5
<1>8. Elements(q) = [k \in 1..n |-> q.at[Chain(f)[k].at]]
    BY DEF Elements
<1>9. \A k \in 1..n : Chain(f)[k].at = Off(SlotOf(a, e, k))
    BY <1>2, <1>6, <1>7
<1>10. QED BY <1>8, <1>9

-----------------------------------------------------------------------------

\* What push() and pop() make of a FifoPool laid out from slot a.
Pushed(q, t, a, e, n) ==
    LET p == Push(q, t)
    IN  /\ p \in FifoTypes /\ p.pool.nBuffers = q.pool.nBuffers + 1
        /\ \/ Laid(p, 1, 1, 0) /\ Forgets(p)
           \/ \E z \in Nat :
                 /\ Laid(p, a, z, n + 1)
                 /\ \A k \in 1..n : p.at[Off(SlotOf(a, z, k))] = q.at[Off(SlotOf(a, e, k))]
                 /\ p.at[Off(SlotOf(a, z, n + 1))] = t

Popped(q, a, e, n) ==
    LET p == PopFront(q)
    IN  /\ n > 0 /\ p \in FifoTypes /\ p.pool.nBuffers = q.pool.nBuffers - 1
        /\ \E b, z \in Nat :
              /\ Laid(p, b, z, n - 1)
              /\ \A k \in 1..(n - 1) :
                     p.at[Off(SlotOf(b, z, k))] = q.at[Off(SlotOf(a, e, k + 1))]

\* push() of a FifoPool that has room: behind the last block, at the front
\* or between.  What was found is found again, and the new block behind it,
\* or the front is full and the queue forgets.
LEMMA PushLaid ==
    ASSUME NEW q \in FifoTypes, ~IsStdQueue, QueueTakes(q), NEW t \in Task,
           NEW a \in Nat, NEW e \in Nat, NEW n \in Nat, Laid(q, a, e, n),
           q.pool.nBuffers >= n
    PROVE  Pushed(q, t, a, e, n)
<1> DEFINE f == q.pool
           g == Allocate(f, ElemSize)
           p == Push(q, t)
           at == BlockAt(f, ElemSize)
           h == HeadSlot(a, e, n)
<1> SUFFICES /\ p \in FifoTypes /\ p.pool.nBuffers = f.nBuffers + 1
             /\ \/ Laid(p, 1, 1, 0) /\ Forgets(p)
                \/ \E z \in Nat :
                      /\ Laid(p, a, z, n + 1)
                      /\ \A k \in 1..n : p.at[Off(SlotOf(a, z, k))] = q.at[Off(SlotOf(a, e, k))]
                      /\ p.at[Off(SlotOf(a, z, n + 1))] = t
    BY DEF Pushed
<1>1. /\ f.max = MaxOffset /\ f.tail = Off(a) /\ f.head = Off(h) /\ Off(e) <= MaxOffset
      /\ OneRow(a, e, n) \/ TwoRows(a, e, n)
      /\ f.header \in [0..MaxOffset -> Nat] /\ f.nBuffers \in Nat
      /\ q.at \in [0..MaxOffset -> Task \cup {NoTask}]
      /\ f.head \in 0..MaxOffset /\ f.end \in 0..MaxOffset /\ f.tail \in 0..MaxOffset
      /\ MaxOffset \in Nat
    BY OffsetType DEF FifoTypes, Laid
<1>2. h \in Int /\ (OneRow(a, e, n) => h = e) /\ (TwoRows(a, e, n) => h = a + n - e /\ h < a /\ 0 < h)
    BY DEF HeadSlot, OneRow, TwoRows
<1>3. Fits(f, ElemSize) /\ p = [pool |-> g, at |-> [q.at EXCEPT ![at] = t]]
    BY DEF QueueTakes, Push
<1>4. ElemSize \in Nat \ {0} /\ SlotSize = ElemSize + 4 /\ SlotSize \in Nat \ {0}
    BY Offsets
<1>5. /\ f.head < f.tail <=> h < a
      /\ f.head >= f.tail <=> h >= a
    BY <1>1, <1>2, OffsetsApart, SMTT(30)
<1>m. ASSUME NEW x \in Int, NEW y \in 0..MaxOffset,
             at = Off(x), Off(x) \in 0..MaxOffset, Off(x + 1) <= MaxOffset,
             (CASE FitsBack(f, ElemSize)    -> at + HEADER_SIZE + ElemSize
                [] FitsFront(f, ElemSize)   -> f.head
                [] FitsBetween(f, ElemSize) -> f.end) = y
      PROVE  /\ p \in FifoTypes /\ p.pool.nBuffers = f.nBuffers + 1
             /\ p.pool.tail = f.tail /\ p.pool.head = Off(x + 1) /\ p.pool.end = y
             /\ p.pool.header[Off(x)] = ElemSize /\ p.at[Off(x)] = t
             /\ \A o \in 0..MaxOffset : o # Off(x) =>
                    p.pool.header[o] = f.header[o] /\ p.at[o] = q.at[o]
    <2>1. at + HEADER_SIZE + ElemSize = Off(x + 1) /\ Off(x + 1) \in 0..MaxOffset
        BY <1>4, <1>m, Offsets DEF HEADER_SIZE
    <2> DEFINE hd == [f.header EXCEPT ![at] = ElemSize]
               dt == [q.at EXCEPT ![at] = t]
    <2>2. /\ hd \in [0..MaxOffset -> Nat] /\ hd[Off(x)] = ElemSize
          /\ \A o \in 0..MaxOffset : o # Off(x) => hd[o] = f.header[o]
        BY <1>1, <1>4, <1>m
    <2>3. /\ dt \in [0..MaxOffset -> Task \cup {NoTask}] /\ dt[Off(x)] = t
          /\ \A o \in 0..MaxOffset : o # Off(x) => dt[o] = q.at[o]
        BY <1>1, <1>m
    <2>4. g = [f EXCEPT !.header = hd, !.head = Off(x + 1), !.end = y, !.nBuffers = f.nBuffers + 1]
        <3> HIDE DEF f
        <3>1. g = [f EXCEPT !.header[at] = ElemSize, !.head = Off(x + 1), !.end = y,
                            !.nBuffers = f.nBuffers + 1]
            BY <1>m, <2>1 DEF Allocate
        <3>2. QED BY <3>1
    <2>5. p = [pool |-> g, at |-> dt]
        BY <1>3
    <2> HIDE DEF hd, dt, g, p
    <2>6. /\ g \in [max: {MaxOffset}, head: 0..MaxOffset, tail: 0..MaxOffset, end: 0..MaxOffset,
                    nBuffers: Nat, header: [0..MaxOffset -> Nat]]
          /\ g.nBuffers = f.nBuffers + 1 /\ g.tail = f.tail /\ g.head = Off(x + 1)
          /\ g.end = y /\ g.header = hd
        <3>1. f \in [max: {MaxOffset}, head: 0..MaxOffset, tail: 0..MaxOffset, end: 0..MaxOffset,
                     nBuffers: Nat, header: [0..MaxOffset -> Nat]]
            BY DEF FifoTypes
        <3> HIDE DEF f
        <3>2. f.nBuffers + 1 \in Nat
            BY <3>1
        <3>3. QED BY <1>m, <2>1, <2>2, <2>4, <3>1, <3>2
    <2>7. p.pool = g /\ p.at = dt /\ p \in FifoTypes
        <3>1. p.pool = g /\ p.at = dt
            BY <2>5
        <3>2. QED BY <2>3, <2>5, <2>6, <3>1 DEF FifoTypes
    <2>8. QED BY <2>2, <2>3, <2>6, <2>7
<1> HIDE DEF p, g
<1>6. CASE FitsBack(f, ElemSize)
    <2>1. OneRow(a, e, n) /\ h = e /\ Off(e) + SlotSize <= MaxOffset /\ a <= e
        <3>1. f.head >= f.tail /\ MaxOffset - f.head >= SlotSize
            BY <1>1, <1>4, <1>6 DEF FitsBack, HEADER_SIZE
        <3>2. OneRow(a, e, n)
            BY <1>1, <1>2, <1>5, <3>1
        <3>3. a <= e
            BY <3>2 DEF OneRow
        <3>4. QED BY <1>1, <1>2, <1>4, <3>1, <3>2, <3>3
    <2>2. at = Off(e) /\ Off(e) \in 0..MaxOffset
        <3>1. ~FitsFront(f, ElemSize)
            BY <1>6 DEF FitsFront
        <3>2. QED BY <1>1, <2>1, <3>1 DEF BlockAt
    <2>3. Off(e + 1) = Off(e) + SlotSize /\ Off(e + 1) \in 0..MaxOffset /\ Off(e + 1) <= MaxOffset
        <3>1. e \in Int
            OBVIOUS
        <3>2. Off(e + 1) = Off(e) + SlotSize
            BY <3>1, Offsets
        <3> DEFINE x == Off(e)
                   y == Off(e + 1)
        <3>3. x \in Nat /\ x + SlotSize <= MaxOffset /\ y = x + SlotSize
            BY <2>1, <2>2, <3>2
        <3> HIDE DEF x, y
        <3>4. y \in 0..MaxOffset /\ y <= MaxOffset
            BY <1>1, <1>4, <3>3
        <3>5. QED BY <3>2, <3>4 DEF y
    <2>4. (CASE FitsBack(f, ElemSize)    -> at + HEADER_SIZE + ElemSize
             [] FitsFront(f, ElemSize)   -> f.head
             [] FitsBetween(f, ElemSize) -> f.end) = Off(e + 1)
        <3>1. ~FitsFront(f, ElemSize)
            BY <1>6 DEF FitsFront
        <3>2. ~FitsBetween(f, ElemSize)
            BY <1>1, <1>5, <1>2, <2>1 DEF FitsBetween
        <3>3. at + HEADER_SIZE + ElemSize = Off(e + 1)
            BY <1>4, <2>2, <2>3 DEF HEADER_SIZE
        <3>4. QED BY <1>6, <3>1, <3>2, <3>3
    <2>5. /\ p \in FifoTypes /\ p.pool.nBuffers = f.nBuffers + 1
          /\ p.pool.tail = f.tail /\ p.pool.head = Off(e + 1) /\ p.pool.end = Off(e + 1)
          /\ p.pool.header[Off(e)] = ElemSize /\ p.at[Off(e)] = t
          /\ \A o \in 0..MaxOffset : o # Off(e) =>
                 p.pool.header[o] = f.header[o] /\ p.at[o] = q.at[o]
        <3>1. e \in Int
            OBVIOUS
        <3>2. QED BY <1>m, <2>2, <2>3, <2>4, <3>1
    <2>6. /\ OneRow(a, e + 1, n + 1) /\ HeadSlot(a, e + 1, n + 1) = e + 1
          /\ SlotOf(a, e + 1, n + 1) = e /\ a < e + 1
        BY <2>1 DEF OneRow, HeadSlot, SlotOf
    <2>7. ASSUME NEW k \in 1..n
          PROVE  /\ SlotOf(a, e + 1, k) = SlotOf(a, e, k)
                 /\ p.pool.header[Off(SlotOf(a, e, k))] = ElemSize
                 /\ p.at[Off(SlotOf(a, e, k))] = q.at[Off(SlotOf(a, e, k))]
                 /\ p.at[Off(SlotOf(a, e, k))] \in Task
        <3>1. SlotOf(a, e + 1, k) = SlotOf(a, e, k)
            BY <2>1 DEF OneRow, SlotOf
        <3>2. /\ SlotOf(a, e, k) \in Nat /\ SlotOf(a, e, k) < e
              /\ Off(SlotOf(a, e, k)) \in 0..MaxOffset
            BY <1>1, SlotsIn
        <3>3. Off(SlotOf(a, e, k)) # Off(e)
            BY <3>2, OffsetsApart
        <3>4. f.header[Off(SlotOf(a, e, k))] = ElemSize /\ q.at[Off(SlotOf(a, e, k))] \in Task
            BY DEF Laid
        <3>5. QED BY <2>5, <3>1, <3>2, <3>3, <3>4
    <2>8. Laid(p, a, e + 1, n + 1)
        <3>1. \A k \in 1..(n + 1) : k \in 1..n \/ k = n + 1
            OBVIOUS
        <3>2. \A k \in 1..(n + 1) : /\ p.pool.header[Off(SlotOf(a, e + 1, k))] = ElemSize
                                    /\ p.at[Off(SlotOf(a, e + 1, k))] \in Task
            BY <2>5, <2>6, <2>7, <3>1
        <3>3. Off(e + 1) <= MaxOffset /\ a # e + 1
            BY <2>3, <2>6
        <3>4. QED BY <1>1, <2>5, <2>6, <3>2, <3>3 DEF Laid
    <2>9. e + 1 \in Nat
        OBVIOUS
    <2>10. QED BY <2>5, <2>6, <2>7, <2>8, <2>9 DEF p
<1>7. CASE FitsFront(f, ElemSize)
    <2>1. /\ OneRow(a, e, n) /\ h = e /\ a <= e /\ ~FitsBack(f, ElemSize) /\ f.tail >= SlotSize
          /\ MaxOffset - f.head < SlotSize
        <3>1. f.head >= f.tail /\ f.tail >= SlotSize /\ ~FitsBack(f, ElemSize)
            BY <1>4, <1>7 DEF FitsFront, HEADER_SIZE
        <3>2. OneRow(a, e, n)
            BY <1>1, <1>2, <1>5, <3>1
        <3>3. a <= e
            BY <3>2 DEF OneRow
        <3>4. MaxOffset - f.head < SlotSize
            BY <1>1, <1>4, <3>1 DEF FitsBack, HEADER_SIZE
        <3>5. QED BY <1>2, <3>1, <3>2, <3>3, <3>4
    <2>2. a >= 1
        <3>1. SUFFICES ASSUME a = 0 PROVE FALSE
            OBVIOUS
        <3>2. f.tail = 0
            BY <3>1, <1>1, Offsets
        <3>3. QED BY <2>1, <3>2, <1>4
    <2>3. a < e /\ n > 0
        <3>1. SUFFICES ASSUME a = e PROVE FALSE
            BY <2>1 DEF OneRow
        <3>2. a = 1 /\ Off(2) <= MaxOffset
            BY <2>2, <3>1 DEF Laid
        <3>3. f.head = SlotSize
            BY <1>1, <2>1, <3>1, <3>2, Offsets
        <3>4. Off(2) = SlotSize + SlotSize
            BY Offsets
        <3>5. QED BY <1>1, <1>4, <2>1, <3>2, <3>3, <3>4
    <2>4. at = Off(0) /\ Off(0) \in 0..MaxOffset /\ Off(0 + 1) <= MaxOffset
        <3>1. at = 0
            BY <1>7 DEF BlockAt
        <3>2. Off(0) = 0 /\ Off(0 + 1) = SlotSize
            BY Offsets
        <3>3. SlotSize <= MaxOffset
            BY <1>1, <1>4, <2>1
        <3>4. QED BY <1>1, <3>1, <3>2, <3>3, SMTT(30)
    <2>5. (CASE FitsBack(f, ElemSize)    -> at + HEADER_SIZE + ElemSize
             [] FitsFront(f, ElemSize)   -> f.head
             [] FitsBetween(f, ElemSize) -> f.end) = Off(e)
        <3>1. ~FitsBetween(f, ElemSize)
            BY <1>1, <1>5, <1>2, <2>1 DEF FitsBetween
        <3>2. QED BY <1>1, <1>7, <2>1, <3>1
    <2>e. Off(e) \in 0..MaxOffset
        BY <1>1, <2>1
    <2>6. /\ p \in FifoTypes /\ p.pool.nBuffers = f.nBuffers + 1
          /\ p.pool.tail = f.tail /\ p.pool.head = Off(0 + 1) /\ p.pool.end = Off(e)
          /\ p.pool.header[Off(0)] = ElemSize /\ p.at[Off(0)] = t
          /\ \A o \in 0..MaxOffset : o # Off(0) =>
                 p.pool.header[o] = f.header[o] /\ p.at[o] = q.at[o]
        <3>1. 0 \in Int
            OBVIOUS
        <3>2. QED BY <1>m, <2>4, <2>5, <2>e, <3>1
    <2>7. CASE a = 1
        <3>1. Off(2) <= MaxOffset
            <4>1. 2 <= e /\ 2 \in Int /\ e \in Int
                BY <2>3, <2>7
            <4>2. Off(2) <= Off(e) /\ Off(2) \in Int
                BY <4>1, OffsetsApart, Offsets
            <4>3. QED BY <1>1, <2>e, <4>2
        <3>2. HeadSlot(1, 1, 0) = 1 /\ OneRow(1, 1, 0) /\ Off(1) <= MaxOffset /\ 1..0 = {}
            BY <2>4 DEF HeadSlot, OneRow
        <3>3. Laid(p, 1, 1, 0)
            BY <1>1, <2>6, <2>7, <3>1, <3>2 DEF Laid
        <3>4. Forgets(p)
            <4>1. QueueEmpty(p)
                BY <1>1, <2>6, <2>7 DEF QueueEmpty, FifoEmpty
            <4>2. QueueSize(p) > 0
                BY <1>1, <2>6 DEF QueueSize
            <4>3. QED BY <4>1, <4>2 DEF Forgets
        <3>5. QED BY <2>6, <3>3, <3>4 DEF p
    <2>8. CASE a # 1
        <3>1. /\ TwoRows(a, e, n + 1) /\ HeadSlot(a, e, n + 1) = 1
              /\ SlotOf(a, e, n + 1) = 0 /\ a # e
            BY <2>1, <2>2, <2>3, <2>8 DEF OneRow, TwoRows, HeadSlot, SlotOf
        <3>2. ASSUME NEW k \in 1..n
              PROVE  /\ p.pool.header[Off(SlotOf(a, e, k))] = ElemSize
                     /\ p.at[Off(SlotOf(a, e, k))] = q.at[Off(SlotOf(a, e, k))]
                     /\ p.at[Off(SlotOf(a, e, k))] \in Task
            <4>1. /\ SlotOf(a, e, k) \in Nat /\ SlotOf(a, e, k) = a + k - 1
                  /\ Off(SlotOf(a, e, k)) \in 0..MaxOffset
                <5>1. SlotOf(a, e, k) \in Nat /\ Off(SlotOf(a, e, k)) \in 0..MaxOffset
                    BY <1>1, SlotsIn
                <5>2. SlotOf(a, e, k) = a + k - 1
                    BY <2>1 DEF OneRow, SlotOf
                <5>3. QED BY <5>1, <5>2
            <4>2. SlotOf(a, e, k) # 0
                BY <2>2, <4>1
            <4>3. Off(SlotOf(a, e, k)) # Off(0)
                BY <4>1, <4>2, OffsetsApart
            <4>4. f.header[Off(SlotOf(a, e, k))] = ElemSize /\ q.at[Off(SlotOf(a, e, k))] \in Task
                BY DEF Laid
            <4>5. QED BY <2>6, <4>1, <4>3, <4>4
        <3>3. Laid(p, a, e, n + 1)
            <4>1. \A k \in 1..(n + 1) : k \in 1..n \/ k = n + 1
                OBVIOUS
            <4>2. \A k \in 1..(n + 1) : /\ p.pool.header[Off(SlotOf(a, e, k))] = ElemSize
                                        /\ p.at[Off(SlotOf(a, e, k))] \in Task
                BY <2>6, <3>1, <3>2, <4>1
            <4>3. QED BY <1>1, <2>6, <3>1, <4>2 DEF Laid
        <3>4. QED BY <2>6, <3>1, <3>2, <3>3 DEF p
    <2>9. QED BY <2>7, <2>8
<1>8. CASE FitsBetween(f, ElemSize)
    <2>1. TwoRows(a, e, n) /\ h = a + n - e /\ 0 < h /\ h + 1 < a /\ a < e
        <3>1. f.head < f.tail /\ f.tail - f.head >= SlotSize + 1
            BY <1>1, <1>4, <1>8 DEF FitsBetween, HEADER_SIZE, FULL_GAP
        <3>2. h < a /\ TwoRows(a, e, n)
            <4>1. h < a
                BY <1>5, <3>1
            <4>2. QED BY <4>1, <1>1, <1>2 DEF OneRow
        <3>3. h + 1 # a
            <4>1. SUFFICES ASSUME h + 1 = a PROVE FALSE
                OBVIOUS
            <4>2. Off(a) = Off(h) + SlotSize /\ Off(h) \in Int
                BY <4>1, <1>2, Offsets
            <4>3. QED BY <1>1, <1>4, <3>1, <4>2
        <3>4. QED BY <1>2, <3>2, <3>3 DEF TwoRows
    <2>2. at = Off(h) /\ Off(h) \in 0..MaxOffset /\ Off(h + 1) <= MaxOffset
        <3>1. ~FitsFront(f, ElemSize)
            BY <1>1, <1>5, <1>2, <2>1 DEF FitsFront
        <3>2. Off(h + 1) <= Off(e)
            BY <1>2, <2>1, OffsetsApart
        <3>3. Off(h + 1) \in Int /\ Off(e) \in Int
            BY <1>2, Offsets
        <3>4. QED BY <1>1, <3>1, <3>2, <3>3 DEF BlockAt
    <2>3. (CASE FitsBack(f, ElemSize)    -> at + HEADER_SIZE + ElemSize
             [] FitsFront(f, ElemSize)   -> f.head
             [] FitsBetween(f, ElemSize) -> f.end) = Off(e)
        <3>1. ~FitsFront(f, ElemSize) /\ ~FitsBack(f, ElemSize)
            BY <1>1, <1>5, <1>2, <2>1 DEF FitsFront, FitsBack
        <3>2. f.end = Off(e)
            BY <2>1 DEF Laid
        <3>3. QED BY <1>8, <3>1, <3>2
    <2>e. Off(e) \in 0..MaxOffset
        <3>1. f.end = Off(e)
            BY <2>1 DEF Laid
        <3>2. QED BY <1>1, <3>1
    <2>4. /\ p \in FifoTypes /\ p.pool.nBuffers = f.nBuffers + 1
          /\ p.pool.tail = f.tail /\ p.pool.head = Off(h + 1) /\ p.pool.end = Off(e)
          /\ p.pool.header[Off(h)] = ElemSize /\ p.at[Off(h)] = t
          /\ \A o \in 0..MaxOffset : o # Off(h) =>
                 p.pool.header[o] = f.header[o] /\ p.at[o] = q.at[o]
        BY <1>2, <1>m, <2>2, <2>3, <2>e
    <2>5. /\ TwoRows(a, e, n + 1) /\ HeadSlot(a, e, n + 1) = h + 1
          /\ SlotOf(a, e, n + 1) = h /\ a # e
        BY <2>1 DEF TwoRows, HeadSlot, SlotOf
    <2>6. ASSUME NEW k \in 1..n
          PROVE  /\ p.pool.header[Off(SlotOf(a, e, k))] = ElemSize
                 /\ p.at[Off(SlotOf(a, e, k))] = q.at[Off(SlotOf(a, e, k))]
                 /\ p.at[Off(SlotOf(a, e, k))] \in Task
        <3>1. SlotOf(a, e, k) \in Nat /\ Off(SlotOf(a, e, k)) \in 0..MaxOffset
            BY <1>1, SlotsIn
        <3>2. SlotOf(a, e, k) # h
            BY <2>1 DEF SlotOf, TwoRows
        <3>3. Off(SlotOf(a, e, k)) # Off(h)
            BY <1>2, <3>1, <3>2, OffsetsApart
        <3>4. f.header[Off(SlotOf(a, e, k))] = ElemSize /\ q.at[Off(SlotOf(a, e, k))] \in Task
            BY DEF Laid
        <3>5. QED BY <2>4, <3>1, <3>3, <3>4
    <2>7. Laid(p, a, e, n + 1)
        <3>1. \A k \in 1..(n + 1) : k \in 1..n \/ k = n + 1
            OBVIOUS
        <3>2. \A k \in 1..(n + 1) : /\ p.pool.header[Off(SlotOf(a, e, k))] = ElemSize
                                    /\ p.at[Off(SlotOf(a, e, k))] \in Task
            BY <2>4, <2>5, <2>6, <3>1
        <3>3. QED BY <1>1, <2>4, <2>5, <3>2 DEF Laid
    <2>8. QED BY <2>4, <2>5, <2>6, <2>7 DEF p
<1>9. QED BY <1>3, <1>6, <1>7, <1>8 DEF Fits

\* pop() of a FifoPool that does not look empty: the oldest block it finds
\* goes, and the next one is at the tail.
LEMMA PopLaid ==
    ASSUME NEW q \in FifoTypes, ~IsStdQueue, NEW a \in Nat, NEW e \in Nat, NEW n \in Nat,
           Laid(q, a, e, n), q.pool.nBuffers >= n, ~QueueEmpty(q)
    PROVE  Popped(q, a, e, n)
<1> DEFINE f == q.pool
           g == Pop(f)
           p == PopFront(q)
           h == HeadSlot(a, e, n)
<1>1. /\ f.tail = Off(a) /\ f.head = Off(h) /\ Off(e) <= MaxOffset
      /\ OneRow(a, e, n) \/ TwoRows(a, e, n)
      /\ a < e => f.end = Off(e)
      /\ f \in [max: {MaxOffset}, head: 0..MaxOffset, tail: 0..MaxOffset, end: 0..MaxOffset,
                nBuffers: Nat, header: [0..MaxOffset -> Nat]]
      /\ 0 \in 0..MaxOffset /\ MaxOffset \in Nat
    BY OffsetType DEF FifoTypes, Laid
<1>2. n > 0
    BY LaidEmpty
<1>3. /\ h \in Int /\ (OneRow(a, e, n) => h = e) /\ a < e
      /\ TwoRows(a, e, n) => h = a + n - e /\ h < a /\ 0 < h
    BY <1>1, <1>2, SMTT(30) DEF HeadSlot, OneRow, TwoRows
<1>4. f.nBuffers - 1 \in Nat
    <2>1. f.nBuffers \in Nat /\ f.nBuffers >= n
        BY <1>1
    <2>2. QED BY <1>2, <2>1
<1>5. p = [q EXCEPT !.pool = g]
    BY DEF PopFront
<1>6. f.tail + HEADER_SIZE + f.header[f.tail] = Off(a + 1) /\ a + 1 \in Int
    <2>1. SlotOf(a, e, 1) = a /\ 1 \in 1..n
        BY <1>2, <1>3 DEF SlotOf
    <2>2. f.header[Off(a)] = ElemSize
        BY <2>1 DEF Laid
    <2>3. Off(a + 1) = Off(a) + SlotSize /\ Off(a) \in Int
        BY Offsets
    <2>4. SlotSize = ElemSize + 4 /\ ElemSize \in Nat
        BY Offsets
    <2>5. f.tail = Off(a)
        BY <1>1
    <2> HIDE DEF f
    <2>6. f.tail + HEADER_SIZE + f.header[f.tail] = Off(a) + 4 + ElemSize
        BY <2>2, <2>3, <2>4, <2>5 DEF HEADER_SIZE
    <2>7. QED BY <2>3, <2>4, <2>6
<1>7. /\ Off(a + 1) = f.head <=> a + 1 = h
      /\ Off(a + 1) = f.end <=> a + 1 = e
    <2>1. Off(a + 1) = Off(h) <=> a + 1 = h
        BY <1>3, <1>6, OffsetsApart
    <2>2. Off(a + 1) = Off(e) <=> a + 1 = e
        BY <1>6, OffsetsApart
    <2>3. QED BY <1>1, <1>3, <2>1, <2>2
<1>m. ASSUME NEW hd \in 0..MaxOffset, NEW tl \in 0..MaxOffset, NEW en \in 0..MaxOffset,
             g = [f EXCEPT !.head = hd, !.tail = tl, !.end = en, !.nBuffers = f.nBuffers - 1]
      PROVE  /\ p \in FifoTypes /\ p.pool.nBuffers = f.nBuffers - 1
             /\ p.pool.head = hd /\ p.pool.tail = tl /\ p.pool.end = en
             /\ p.pool.header = f.header /\ p.at = q.at
    <2> HIDE DEF p
    <2>1. p.pool = g /\ p.at = q.at /\ p \in [pool: {g}, at: {q.at}]
          /\ q.at \in [0..MaxOffset -> Task \cup {NoTask}]
        <3> HIDE DEF g, f
        <3>1. q \in [pool: {q.pool}, at: {q.at}] /\ q.at \in [0..MaxOffset -> Task \cup {NoTask}]
            BY DEF FifoTypes
        <3>2. QED BY <1>5, <3>1
    <2> HIDE DEF g, f
    <2>2. /\ g \in [max: {MaxOffset}, head: 0..MaxOffset, tail: 0..MaxOffset, end: 0..MaxOffset,
                    nBuffers: Nat, header: [0..MaxOffset -> Nat]]
          /\ g.nBuffers = f.nBuffers - 1 /\ g.head = hd /\ g.tail = tl /\ g.end = en
          /\ g.header = f.header
        BY <1>1, <1>4, <1>m
    <2>3. p \in FifoTypes
        BY <2>1, <2>2 DEF FifoTypes
    <2>4. QED BY <2>1, <2>2, <2>3
<1>b. ASSUME NEW k \in 1..n
      PROVE  f.header[Off(SlotOf(a, e, k))] = ElemSize /\ q.at[Off(SlotOf(a, e, k))] \in Task
    BY DEF Laid
<1> SUFFICES /\ p \in FifoTypes /\ p.pool.nBuffers = f.nBuffers - 1
             /\ \E b, z \in Nat :
                   /\ Laid(p, b, z, n - 1)
                   /\ \A k \in 1..(n - 1) :
                          p.at[Off(SlotOf(b, z, k))] = q.at[Off(SlotOf(a, e, k + 1))]
    BY <1>2 DEF Popped
<1>8. CASE a + 1 = h
    <2>1. n = 1
        BY <1>1, <1>3, <1>8 DEF OneRow
    <2>2. g = [f EXCEPT !.head = 0, !.tail = 0, !.end = 0, !.nBuffers = f.nBuffers - 1]
        <3> HIDE DEF f
        <3>1. QED BY <1>6, <1>7, <1>8 DEF Pop
    <2> HIDE DEF g, p, f
    <2>3. /\ p \in FifoTypes /\ p.pool.nBuffers = f.nBuffers - 1
          /\ p.pool.head = 0 /\ p.pool.tail = 0 /\ p.pool.end = 0
        BY <1>1, <1>m, <2>2
    <2>4. Laid(p, 0, 0, 0)
        <3>1. HeadSlot(0, 0, 0) = 0 /\ OneRow(0, 0, 0) /\ 1..0 = {}
            BY DEF HeadSlot, OneRow
        <3>2. Off(0) = 0
            BY Offsets
        <3>3. QED BY <1>1, <2>3, <3>1, <3>2 DEF Laid
    <2>5. n - 1 = 0 /\ 1..(n - 1) = {}
        BY <2>1
    <2>6. QED BY <2>3, <2>4, <2>5
<1>9. CASE a + 1 # h /\ a + 1 = e
    <2>1. TwoRows(a, e, n) /\ h = n - 1 /\ h \in Nat /\ 0 < h /\ h < e
        BY <1>1, <1>2, <1>3, <1>9 DEF OneRow, TwoRows
    <2>2. g = [f EXCEPT !.head = f.head, !.tail = 0, !.end = f.head, !.nBuffers = f.nBuffers - 1]
        <3>1. g = [f EXCEPT !.tail = 0, !.end = f.head, !.nBuffers = f.nBuffers - 1]
            <4> HIDE DEF f
            <4>1. QED BY <1>6, <1>7, <1>9 DEF Pop
        <3> HIDE DEF f, g
        <3>2. QED BY <1>1, <3>1
    <2> HIDE DEF g, p, f
    <2>3. f.head \in 0..MaxOffset /\ f.head = Off(h) /\ 0 \in 0..MaxOffset
        BY <1>1
    <2>4. /\ p \in FifoTypes /\ p.pool.nBuffers = f.nBuffers - 1
          /\ p.pool.head = Off(h) /\ p.pool.tail = 0 /\ p.pool.end = Off(h)
          /\ p.pool.header = f.header /\ p.at = q.at
        BY <1>m, <2>2, <2>3
    <2>5. ASSUME NEW k \in 1..(n - 1)
          PROVE  SlotOf(0, h, k) = SlotOf(a, e, k + 1) /\ k + 1 \in 1..n
        BY <1>9, <2>1 DEF SlotOf
    <2>6. Laid(p, 0, h, n - 1)
        <3>1. HeadSlot(0, h, n - 1) = h /\ OneRow(0, h, n - 1) /\ 0 # h
            BY <2>1 DEF HeadSlot, OneRow
        <3>2. Off(0) = 0
            BY Offsets
        <3>3. Off(h) <= MaxOffset
            BY <1>1, <2>3
        <3>4. \A k \in 1..(n - 1) : /\ p.pool.header[Off(SlotOf(0, h, k))] = ElemSize
                                    /\ p.at[Off(SlotOf(0, h, k))] \in Task
            BY <1>b, <2>4, <2>5
        <3> HIDE DEF h
        <3>5. QED BY <2>4, <3>1, <3>2, <3>3, <3>4 DEF Laid
    <2>7. QED BY <2>1, <2>4, <2>5, <2>6
<1>10. CASE a + 1 # h /\ a + 1 # e
    <2>1. a + 1 \in Nat /\ a + 1 < e /\ 0 + a + 1 = a + 1
        BY <1>3, <1>10
    <2>2. Off(a + 1) \in 0..MaxOffset
        <3> DEFINE x == Off(a + 1)
                   y == Off(e)
        <3>1. x <= y /\ x \in Int /\ y \in Int /\ y <= MaxOffset
            BY <1>1, <1>6, <2>1, OffsetsApart, Offsets
        <3>2. 0 <= x
            <4>1. Off(0) <= Off(a + 1)
                BY <2>1, OffsetsApart
            <4>2. QED BY <4>1, Offsets
        <3> HIDE DEF x, y
        <3>3. x \in 0..MaxOffset
            BY <1>1, <3>1, <3>2
        <3>4. QED BY <3>3 DEF x
    <2>3. g = [f EXCEPT !.head = f.head, !.tail = Off(a + 1), !.end = f.end,
                        !.nBuffers = f.nBuffers - 1]
        <3>1. g = [f EXCEPT !.tail = Off(a + 1), !.nBuffers = f.nBuffers - 1]
            <4> HIDE DEF f
            <4>1. QED BY <1>6, <1>7, <1>10 DEF Pop
        <3> HIDE DEF f, g
        <3>2. QED BY <1>1, <3>1
    <2> HIDE DEF g, p, f
    <2>4. f.head \in 0..MaxOffset /\ f.end \in 0..MaxOffset
        BY <1>1
    <2>5. /\ p \in FifoTypes /\ p.pool.nBuffers = f.nBuffers - 1
          /\ p.pool.head = Off(h) /\ p.pool.tail = Off(a + 1) /\ p.pool.end = Off(e)
          /\ p.pool.header = f.header /\ p.at = q.at
        <3> DEFINE hd == f.head
                   tl == Off(a + 1)
                   en == f.end
        <3>1. /\ hd \in 0..MaxOffset /\ tl \in 0..MaxOffset /\ en \in 0..MaxOffset
              /\ g = [f EXCEPT !.head = hd, !.tail = tl, !.end = en, !.nBuffers = f.nBuffers - 1]
            BY <2>2, <2>3, <2>4
        <3> HIDE DEF hd, tl, en
        <3>2. /\ p \in FifoTypes /\ p.pool.nBuffers = f.nBuffers - 1
              /\ p.pool.head = hd /\ p.pool.tail = tl /\ p.pool.end = en
              /\ p.pool.header = f.header /\ p.at = q.at
            BY <1>m, <3>1
        <3>3. hd = Off(h) /\ tl = Off(a + 1) /\ en = Off(e)
            BY <1>1, <1>3 DEF hd, tl, en
        <3>4. QED BY <3>2, <3>3
    <2>6. ASSUME NEW k \in 1..(n - 1)
          PROVE  SlotOf(a + 1, e, k) = SlotOf(a, e, k + 1) /\ k + 1 \in 1..n
        BY DEF SlotOf
    <2>7. Laid(p, a + 1, e, n - 1)
        <3>1. /\ HeadSlot(a + 1, e, n - 1) = h
              /\ OneRow(a + 1, e, n - 1) \/ TwoRows(a + 1, e, n - 1)
            BY <1>1, <1>2, <2>1 DEF HeadSlot, OneRow, TwoRows
        <3>2. \A k \in 1..(n - 1) : /\ p.pool.header[Off(SlotOf(a + 1, e, k))] = ElemSize
                                    /\ p.at[Off(SlotOf(a + 1, e, k))] \in Task
            BY <1>b, <2>5, <2>6
        <3> HIDE DEF h
        <3>3. QED BY <1>1, <1>10, <2>5, <3>1, <3>2 DEF Laid
    <2>8. QED BY <2>1, <2>5, <2>6, <2>7
<1>11. QED BY <1>8, <1>9, <1>10

-----------------------------------------------------------------------------

\* The new queue is empty.
LEMMA QueueNew == QueueOK(NewQueue) /\ Elements(NewQueue) = <<>>
<1>1. CASE IsStdQueue
    BY <1>1, EmptySeq DEF QueueOK, NewQueue, Elements
<1>2. CASE ~IsStdQueue
    <2> DEFINE p == EmptyPool
               q == NewQueue
    <2>1. q = [pool |-> p, at |-> [o \in 0..p.max |-> NoTask]]
        BY <1>2 DEF NewQueue
    <2>2. p = [max |-> MaxOffset, head |-> 0, tail |-> 0, end |-> 0, nBuffers |-> 0,
               header |-> [o \in 0..MaxOffset |-> 0]]
        BY OffsetType
    <2> HIDE DEF p, q
    <2>3. /\ q \in FifoTypes /\ q.pool.nBuffers = 0
          /\ q.pool.head = 0 /\ q.pool.tail = 0 /\ q.pool.end = 0
        BY <2>1, <2>2, OffsetType DEF FifoTypes
    <2>4. Laid(q, 0, 0, 0)
        <3>1. HeadSlot(0, 0, 0) = 0 /\ OneRow(0, 0, 0) /\ 1..0 = {}
            BY DEF HeadSlot, OneRow
        <3>2. Off(0) = 0 /\ Off(0) <= MaxOffset
            BY Offsets, OffsetType
        <3>3. QED BY <2>3, <3>1, <3>2 DEF Laid
    <2>5. Elements(q) = <<>>
        <3>1. Elements(q) = [k \in 1..0 |-> q.at[Off(SlotOf(0, 0, k))]]
            BY <1>2, <2>3, <2>4, ElementsLaid
        <3>2. 1..0 = {}
            OBVIOUS
        <3>3. QED BY <3>1, <3>2
    <2>6. QED BY <1>2, <2>3, <2>4, <2>5 DEF QueueOK, FifoQueueOK, q
<1>3. QED BY <1>1, <1>2

\* What the tests of a queue tell about its elements.
LEMMA QueueElements ==
    ASSUME NEW q, QueueOK(q)
    PROVE  /\ Elements(q) \in Seq(Task)
           /\ QueueEmpty(q) <=> Elements(q) = <<>>
           /\ QueueSize(q) = Len(Elements(q))
           /\ ~QueueEmpty(q) => Front(q) = Elements(q)[1]
           /\ ~Forgets(q)
<1>1. CASE IsStdQueue
    <2>1. q \in Seq(Task) /\ Elements(q) = q
        BY <1>1 DEF QueueOK, Elements
    <2>2. QueueEmpty(q) <=> q = <<>>
        BY <1>1 DEF QueueEmpty
    <2>3. QueueSize(q) = Len(q)
        BY <1>1 DEF QueueSize
    <2>4. QED BY <1>1, <2>1, <2>2, <2>3 DEF Front, Forgets
<1>2. CASE ~IsStdQueue
    <2>1. PICK a, e, n \in Nat : Laid(q, a, e, n) /\ q.pool.nBuffers = n
        BY <1>2 DEF QueueOK, FifoQueueOK
    <2>2. Elements(q) = [k \in 1..n |-> q.at[Off(SlotOf(a, e, k))]]
        BY <1>2, <2>1, ElementsLaid
    <2>3. \A k \in 1..n : q.at[Off(SlotOf(a, e, k))] \in Task
        BY <2>1 DEF Laid
    <2> DEFINE s == Elements(q)
    <2>4. s \in Seq(Task) /\ Len(s) = n
        <3> HIDE DEF s
        <3>1. s = [k \in 1..n |-> q.at[Off(SlotOf(a, e, k))]]
            BY <2>2 DEF s
        <3>2. s \in [1..n -> Task]
            BY <2>3, <3>1
        <3>3. QED BY <3>2
    <2>5. QueueEmpty(q) <=> n = 0
        BY <1>2, <2>1, LaidEmpty
    <2>6. QueueSize(q) = n
        BY <1>2, <2>1 DEF QueueSize
    <2>7. ~QueueEmpty(q) => Front(q) = s[1]
        <3>1. SUFFICES ASSUME ~QueueEmpty(q) PROVE Front(q) = s[1]
            OBVIOUS
        <3>2. Front(q) = q.at[Off(a)]
            BY <1>2, <2>1, <3>1 DEF Front, Laid
        <3>3. 1 \in 1..n
            BY <2>5, <3>1
        <3>4. SlotOf(a, e, 1) = a
            BY <2>1, <3>3 DEF SlotOf, Laid, OneRow, TwoRows
        <3>5. QED BY <2>2, <3>2, <3>3, <3>4
    <2>8. s = <<>> <=> n = 0
        <3> HIDE DEF s
        <3>1. QED BY <2>4, EmptySeq
    <2>9. ~Forgets(q)
        BY <2>5, <2>6 DEF Forgets
    <2>10. QED BY <2>4, <2>5, <2>6, <2>7, <2>8, <2>9
<1>3. QED BY <1>1, <1>2

\* A queue that has forgotten tasks still counts them, and forgets when it
\* looks empty.
LEMMA LossyCounts ==
    ASSUME NEW q, Lossy(q)
    PROVE  QueueSize(q) \in Nat /\ QueueSize(q) > 0 /\ (QueueEmpty(q) => Forgets(q))
<1>1. PICK a, e, n \in Nat : Laid(q, a, e, n) /\ q.pool.nBuffers > n
    BY DEF Lossy
<1>2. q.pool.nBuffers \in Nat /\ QueueSize(q) = q.pool.nBuffers
    BY DEF Lossy, FifoTypes, QueueSize
<1>3. QED BY <1>1, <1>2 DEF Forgets

\* push() appends, or the queue forgets.
LEMMA QueuePush ==
    ASSUME NEW q, QueueOK(q), QueueTakes(q), NEW t \in Task
    PROVE  \/ QueueOK(Push(q, t)) /\ Elements(Push(q, t)) = Append(Elements(q), t)
           \/ /\ Lossy(Push(q, t)) /\ Forgets(Push(q, t))
              /\ ~IsStdQueue /\ Off(2) <= MaxOffset
<1>1. CASE IsStdQueue
    BY <1>1 DEF QueueOK, Push, Elements
<1>2. CASE ~IsStdQueue
    <2> DEFINE p == Push(q, t)
    <2>1. q \in FifoTypes
        BY <1>2 DEF QueueOK, FifoQueueOK
    <2>2. PICK a, e, n \in Nat : Laid(q, a, e, n) /\ q.pool.nBuffers = n
        BY <1>2 DEF QueueOK, FifoQueueOK
    <2>3. /\ p \in FifoTypes /\ p.pool.nBuffers = n + 1
          /\ \/ Laid(p, 1, 1, 0) /\ Forgets(p)
             \/ \E z \in Nat :
                   /\ Laid(p, a, z, n + 1)
                   /\ \A k \in 1..n : p.at[Off(SlotOf(a, z, k))] = q.at[Off(SlotOf(a, e, k))]
                   /\ p.at[Off(SlotOf(a, z, n + 1))] = t
        <3>1. q.pool.nBuffers >= n /\ q.pool.nBuffers + 1 = n + 1
            BY <2>2
        <3>2. /\ p \in FifoTypes /\ p.pool.nBuffers = q.pool.nBuffers + 1
              /\ \/ Laid(p, 1, 1, 0) /\ Forgets(p)
                 \/ \E z \in Nat :
                       /\ Laid(p, a, z, n + 1)
                       /\ \A k \in 1..n : p.at[Off(SlotOf(a, z, k))] = q.at[Off(SlotOf(a, e, k))]
                       /\ p.at[Off(SlotOf(a, z, n + 1))] = t
            <4>1. Pushed(q, t, a, e, n)
                BY <1>2, <2>1, <2>2, <3>1, PushLaid
            <4>2. QED BY <4>1 DEF Pushed
        <3> HIDE DEF p
        <3>3. QED BY <3>1, <3>2
    <2> HIDE DEF p
    <2>4. CASE Laid(p, 1, 1, 0) /\ Forgets(p)
        <3>1. n + 1 > 0 /\ 1 \in Nat /\ 0 \in Nat
            OBVIOUS
        <3>2. Lossy(p)
            BY <1>2, <2>3, <2>4, <3>1 DEF Lossy
        <3>3. Off(2) <= MaxOffset
            BY <2>4 DEF Laid
        <3>4. QED BY <1>2, <2>4, <3>2, <3>3 DEF p
    <2>5. ASSUME NEW z \in Nat, Laid(p, a, z, n + 1),
                 \A k \in 1..n : p.at[Off(SlotOf(a, z, k))] = q.at[Off(SlotOf(a, e, k))],
                 p.at[Off(SlotOf(a, z, n + 1))] = t
          PROVE  QueueOK(p) /\ Elements(p) = Append(Elements(q), t)
        <3>1. n + 1 \in Nat
            OBVIOUS
        <3>2. QueueOK(p)
            BY <1>2, <2>3, <2>5, <3>1 DEF QueueOK, FifoQueueOK
        <3>3. Elements(p) = [k \in 1..(n + 1) |-> p.at[Off(SlotOf(a, z, k))]]
            BY <1>2, <2>3, <2>5, <3>1, ElementsLaid
        <3>4. Elements(q) = [k \in 1..n |-> q.at[Off(SlotOf(a, e, k))]]
            BY <1>2, <2>2, ElementsLaid
        <3>5. Elements(q) \in Seq(Task)
            BY QueueElements
        <3> DEFINE s == Elements(q)
                   r == Elements(p)
        <3>6. Len(s) = n /\ \A k \in 1..n : s[k] = q.at[Off(SlotOf(a, e, k))]
            <4> HIDE DEF s
            <4>1. s = [k \in 1..n |-> q.at[Off(SlotOf(a, e, k))]] /\ s \in Seq(Task)
                BY <3>4, <3>5 DEF s
            <4>2. DOMAIN s = 1..n
                BY <4>1
            <4>3. QED BY <4>1, <4>2
        <3>7. r = [k \in 1..(n + 1) |-> IF k = n + 1 THEN t ELSE s[k]]
            <4>1. \A k \in 1..(n + 1) : k = n + 1 \/ k \in 1..n
                OBVIOUS
            <4>2. QED BY <2>5, <3>3, <3>6, <4>1
        <3>8. r = Append(s, t)
            <4> HIDE DEF r, s
            <4>1. s \in Seq(Task)
                BY <3>5 DEF s
            <4>2. /\ Append(s, t) \in Seq(Task) /\ Len(Append(s, t)) = n + 1
                  /\ \A k \in 1..(n + 1) : Append(s, t)[k] = IF k = n + 1 THEN t ELSE s[k]
                BY <3>6, <4>1, AppendProperties
            <4>3. r \in [1..(n + 1) -> Task]
                <5>1. \A k \in 1..n : s[k] \in Task
                    BY <3>6, <4>1, ElementOfSeq
                <5>2. \A k \in 1..(n + 1) : k = n + 1 \/ k \in 1..n
                    OBVIOUS
                <5>3. QED BY <3>7, <5>1, <5>2
            <4>4. r \in Seq(Task) /\ Len(r) = n + 1
                BY <4>3
            <4>5. \A k \in 1..(n + 1) : r[k] = Append(s, t)[k]
                BY <3>7, <4>2
            <4>6. QED BY <4>2, <4>4, <4>5, SeqEqual
        <3>9. QED BY <3>2, <3>8
    <2>6. QED BY <2>3, <2>4, <2>5 DEF p
<1>3. QED BY <1>1, <1>2

\* pop() removes the first element.
LEMMA QueuePop ==
    ASSUME NEW q, QueueOK(q), ~QueueEmpty(q)
    PROVE  QueueOK(PopFront(q)) /\ Elements(PopFront(q)) = Tail(Elements(q))
<1>1. CASE IsStdQueue
    <2>1. q \in Seq(Task) /\ q # <<>>
        BY <1>1 DEF QueueOK, QueueEmpty
    <2>2. PopFront(q) = Tail(q)
        BY <1>1 DEF PopFront
    <2>3. QED BY <1>1, <2>1, <2>2 DEF QueueOK, Elements
<1>2. CASE ~IsStdQueue
    <2> DEFINE p == PopFront(q)
    <2>1. q \in FifoTypes
        BY <1>2 DEF QueueOK, FifoQueueOK
    <2>2. PICK a, e, n \in Nat : Laid(q, a, e, n) /\ q.pool.nBuffers = n
        BY <1>2 DEF QueueOK, FifoQueueOK
    <2>3. /\ n > 0 /\ p \in FifoTypes /\ p.pool.nBuffers = n - 1
          /\ \E b, z \in Nat :
                /\ Laid(p, b, z, n - 1)
                /\ \A k \in 1..(n - 1) :
                       p.at[Off(SlotOf(b, z, k))] = q.at[Off(SlotOf(a, e, k + 1))]
        <3>1. q.pool.nBuffers >= n /\ q.pool.nBuffers - 1 = n - 1
            BY <2>2
        <3>2. /\ n > 0 /\ p \in FifoTypes /\ p.pool.nBuffers = q.pool.nBuffers - 1
              /\ \E b, z \in Nat :
                    /\ Laid(p, b, z, n - 1)
                    /\ \A k \in 1..(n - 1) :
                           p.at[Off(SlotOf(b, z, k))] = q.at[Off(SlotOf(a, e, k + 1))]
            <4>1. Popped(q, a, e, n)
                BY <1>2, <2>1, <2>2, <3>1, PopLaid
            <4>2. QED BY <4>1 DEF Popped
        <3> HIDE DEF p
        <3>3. QED BY <3>1, <3>2
    <2> HIDE DEF p
    <2>4. PICK b, z \in Nat :
             /\ Laid(p, b, z, n - 1)
             /\ \A k \in 1..(n - 1) : p.at[Off(SlotOf(b, z, k))] = q.at[Off(SlotOf(a, e, k + 1))]
        BY <2>3
    <2>5. n - 1 \in Nat
        BY <2>3
    <2>6. QueueOK(p)
        BY <1>2, <2>3, <2>4, <2>5 DEF QueueOK, FifoQueueOK
    <2>7. Elements(p) = [k \in 1..(n - 1) |-> p.at[Off(SlotOf(b, z, k))]]
        <3> DEFINE m == n - 1
        <3>1. m \in Nat /\ p.pool.nBuffers = m /\ Laid(p, b, z, m)
            BY <2>3, <2>4, <2>5
        <3> HIDE DEF m
        <3>2. Elements(p) = [k \in 1..m |-> p.at[Off(SlotOf(b, z, k))]]
            BY <1>2, <3>1, ElementsLaid
        <3>3. QED BY <3>2 DEF m
    <2>8. Elements(q) = [k \in 1..n |-> q.at[Off(SlotOf(a, e, k))]] /\ Elements(q) \in Seq(Task)
        BY <1>2, <2>2, ElementsLaid, QueueElements
    <2> DEFINE s == Elements(q)
               r == Elements(p)
    <2>9. Len(s) = n /\ s \in Seq(Task) /\ \A k \in 1..n : s[k] = q.at[Off(SlotOf(a, e, k))]
        <3> HIDE DEF s
        <3>1. s = [k \in 1..n |-> q.at[Off(SlotOf(a, e, k))]] /\ s \in Seq(Task)
            BY <2>8 DEF s
        <3>2. DOMAIN s = 1..n
            BY <3>1
        <3>3. QED BY <3>1, <3>2
    <2>10. r = [k \in 1..(n - 1) |-> s[k + 1]]
        <3>1. \A k \in 1..(n - 1) : k + 1 \in 1..n
            OBVIOUS
        <3>2. QED BY <2>4, <2>7, <2>9, <3>1, SMTT(30)
    <2>11. r = Tail(s)
        <3> HIDE DEF r, s
        <3>1. s # <<>>
            BY <2>3, <2>9, EmptySeq
        <3>2. /\ Tail(s) \in Seq(Task) /\ Len(Tail(s)) = n - 1
              /\ \A k \in 1..(n - 1) : Tail(s)[k] = s[k + 1]
            BY <2>9, <3>1, HeadTailProperties
        <3>3. r \in [1..(n - 1) -> Task]
            <4>1. \A k \in 1..(n - 1) : k + 1 \in 1..Len(s)
                BY <2>9
            <4>2. \A k \in 1..(n - 1) : s[k + 1] \in Task
                BY <2>9, <4>1, ElementOfSeq
            <4>3. QED BY <2>10, <4>2
        <3>4. r \in Seq(Task) /\ Len(r) = n - 1
            BY <2>5, <3>3
        <3>5. \A k \in 1..(n - 1) : r[k] = Tail(s)[k]
            BY <2>10, <3>2
        <3>6. QED BY <3>2, <3>4, <3>5, SeqEqual
    <2>12. QED BY <2>6, <2>11 DEF p
<1>3. QED BY <1>1, <1>2

\* What has been forgotten stays counted.
LEMMA LossyPush ==
    ASSUME NEW q, Lossy(q), QueueTakes(q), NEW t \in Task
    PROVE  Lossy(Push(q, t))
<1> DEFINE p == Push(q, t)
<1>1. PICK a, e, n \in Nat : Laid(q, a, e, n) /\ q.pool.nBuffers > n
    BY DEF Lossy
<1>2. q \in FifoTypes /\ ~IsStdQueue /\ q.pool.nBuffers \in Nat /\ q.pool.nBuffers >= n
    BY <1>1 DEF Lossy, FifoTypes
<1>3. /\ p \in FifoTypes /\ p.pool.nBuffers = q.pool.nBuffers + 1
      /\ Laid(p, 1, 1, 0) \/ \E z \in Nat : Laid(p, a, z, n + 1)
    <2>1. Pushed(q, t, a, e, n)
        BY <1>1, <1>2, PushLaid
    <2>2. QED BY <2>1 DEF Pushed
<1> HIDE DEF p
<1>4. p.pool.nBuffers > n + 1 /\ p.pool.nBuffers > 0 /\ n + 1 \in Nat /\ 1 \in Nat /\ 0 \in Nat
    BY <1>1, <1>2, <1>3
<1>5. QED BY <1>2, <1>3, <1>4 DEF Lossy, p

LEMMA LossyPop ==
    ASSUME NEW q, Lossy(q)
    PROVE  Lossy(PopFront(q))
<1> DEFINE p == PopFront(q)
<1>1. CASE QueueEmpty(q)
    BY <1>1 DEF PopFront
<1>2. CASE ~QueueEmpty(q)
    <2>1. PICK a, e, n \in Nat : Laid(q, a, e, n) /\ q.pool.nBuffers > n
        BY DEF Lossy
    <2>2. q \in FifoTypes /\ ~IsStdQueue /\ q.pool.nBuffers \in Nat /\ q.pool.nBuffers >= n
        BY <2>1 DEF Lossy, FifoTypes
    <2>3. /\ n > 0 /\ p \in FifoTypes /\ p.pool.nBuffers = q.pool.nBuffers - 1
          /\ \E b, z \in Nat : Laid(p, b, z, n - 1)
        <3>1. Popped(q, a, e, n)
            BY <1>2, <2>1, <2>2, PopLaid
        <3>2. QED BY <3>1 DEF Popped
    <2> HIDE DEF p
    <2>4. p.pool.nBuffers > n - 1 /\ n - 1 \in Nat
        BY <2>1, <2>2, <2>3
    <2>5. QED BY <2>2, <2>3, <2>4 DEF Lossy, p
<1>3. QED BY <1>1, <1>2

-----------------------------------------------------------------------------

(***************************************************************************)
(* The inductive invariant.                                                *)
(***************************************************************************)

\* Types, and which body leads where: only thread_one's worker peeks.
Locals ==
    /\ QueueOK(tasks)
    /\ phase \in {"constructing", "running", "stopping", "gone"}
    /\ running \in BOOLEAN /\ (running <=> phase \in {"constructing", "running"})
    /\ working \in Int
    /\ pc \in [Workers -> Labels]
    /\ body \in [Workers -> {"pool_main", "one_main"}]
    /\ task \in [Workers -> Task \cup {NoTask}]
    /\ \A w \in Workers : task[w] \in IF w \in InHand THEN Task ELSE {NoTask}
    /\ reg \in [Workers -> Int]
    /\ accepted \in Seq(Task)
    /\ called \in [Tasks -> Callees \cup {"none"}]
    /\ \A w \in Workers : body[w] = "one_main" => ThreadOne
    /\ \A w \in Workers : pc[w] \in {"peek", "take"} => body[w] = "one_main"

\* How many of the accepted tasks have left the queue.
Taken == Len(accepted) - Len(Elements(tasks))

\* The queue holds the end of what was accepted, and each task before that
\* is in one hand or was called.
Handed ==
    /\ \A i, j \in 1..Len(accepted) : accepted[i].arg = accepted[j].arg => i = j
    /\ Len(Elements(tasks)) <= Len(accepted)
    /\ \A i \in 1..Len(Elements(tasks)) :
           Elements(tasks)[i].arg = accepted[Taken + i].arg
    /\ \A w \in InHand : \E i \in 1..Taken : task[w].arg = accepted[i].arg
    /\ \A v, w \in InHand : task[v].arg = task[w].arg => v = w
    /\ \A w \in Workers : pc[w] = "uncount" => called[task[w].arg] # "none"
    /\ \A t \in Tasks : called[t] # "none" => \E i \in 1..Taken : accepted[i].arg = t
    /\ \A i \in 1..Taken :
           \/ called[accepted[i].arg] # "none"
           \/ \E w \in InHand : task[w].arg = accepted[i].arg

PoolIInv == Locals /\ Handed /\ PeekStaysTrue

\* The count of working threads is a single worker's own doing, whatever the
\* queue does.
Counting ==
    /\ pc \in [Workers -> Labels] /\ reg \in [Workers -> Int]
    /\ \A w \in Workers : /\ working = IF pc[w] \in {"run", "uncount"} THEN 1 ELSE 0
                          /\ pc[w] = "count" => reg[w] = 0
                          /\ pc[w] = "uncount" => reg[w] = 1

\* The owner's loops: between task_count() and working_count() nothing new
\* is taken, and a task that was taken before shows in the working count.
Joining ==
    /\ job \in Nat \ {0}
    /\ mainPc \in {"post", "tasks", "working", "joined"}
    /\ mainPc \in {"working", "joined"} =>
           Elements(tasks) = <<>> /\ \A w \in Workers : pc[w] # "count"
    /\ mainPc = "joined" => InHand = {}

\* The owner of a pool whose queue has forgotten tasks never sees it empty.
Stuck == Lossy(tasks) /\ mainPc \in {"post", "tasks"}

-----------------------------------------------------------------------------

LEMMA SoleWorker ==
    ASSUME ThreadOne
    PROVE  \A v, w \in Workers : v = w
    BY PoolAssumption, FS_Singleton DEF ThreadOne

\* A worker moves.
LEMMA GotoMoves ==
    ASSUME pc \in [Workers -> Labels], NEW w \in Workers, NEW l \in Labels, Goto(w, l)
    PROVE  /\ pc' \in [Workers -> Labels]
           /\ \A v \in Workers : pc'[v] = IF v = w THEN l ELSE pc[v]
    BY DEF Goto

\* Steps that leave the queue, the tasks in hand and the counts alone.
LEMMA ControlStep ==
    ASSUME PoolIInv,
           UNCHANGED <<tasks, working, task, reg, accepted, called>>,
           pc' \in [Workers -> Labels],
           \A w \in Workers : pc'[w] # pc[w] =>
               /\ pc[w] \notin {"count", "run", "uncount"}
               /\ pc'[w] \notin {"count", "run", "uncount"}
               /\ pc'[w] = "take" => ~QueueEmpty(tasks),
           body' \in [Workers -> {"pool_main", "one_main"}],
           \A w \in Workers : body'[w] = "one_main" => ThreadOne,
           \A w \in Workers : pc'[w] \in {"peek", "take"} => body'[w] = "one_main",
           phase' \in {"constructing", "running", "stopping", "gone"},
           running' \in BOOLEAN, running' <=> phase' \in {"constructing", "running"}
    PROVE  PoolIInv'
<1>1. InHand' = InHand
    BY DEF InHand
<1>2. \A w \in Workers : pc'[w] = "uncount" <=> pc[w] = "uncount"
    OBVIOUS
<1>3. Locals'
    BY <1>1 DEF PoolIInv, Locals
<1>4. Handed'
    BY <1>1, <1>2 DEF PoolIInv, Handed, Taken
<1>5. PeekStaysTrue'
    BY DEF PoolIInv, PeekStaysTrue
<1>6. QED BY <1>3, <1>4, <1>5 DEF PoolIInv

LEMMA ConstructedKeeps == ASSUME PoolIInv, Constructed PROVE PoolIInv'
<1>1. Locals
    BY DEF PoolIInv
<1>2. QED BY <1>1, ControlStep DEF Constructed, Locals

LEMMA StopKeeps == ASSUME PoolIInv, Stop PROVE PoolIInv'
<1>1. Locals
    BY DEF PoolIInv
<1>2. /\ UNCHANGED <<tasks, working, body, task, reg, accepted, called>>
      /\ pc' = [w \in Workers |-> IF pc[w] = "waiting" THEN "lock" ELSE pc[w]]
      /\ phase' = "stopping" /\ running' = FALSE
    BY DEF Stop
<1>3. pc' \in [Workers -> Labels]
    BY <1>1, <1>2 DEF Locals, Labels
<1>4. \A w \in Workers : pc'[w] = IF pc[w] = "waiting" THEN "lock" ELSE pc[w]
    BY <1>2
<1>5. running' \in BOOLEAN /\ (running' <=> phase' \in {"constructing", "running"})
    BY <1>2
<1>6. \A w \in Workers : pc'[w] # pc[w] =>
          /\ pc[w] \notin {"count", "run", "uncount"}
          /\ pc'[w] \notin {"count", "run", "uncount"}
          /\ pc'[w] = "take" => ~QueueEmpty(tasks)
    BY <1>4
<1>7. \A w \in Workers : pc'[w] \in {"peek", "take"} => body'[w] = "one_main"
    BY <1>1, <1>2, <1>4 DEF Locals
<1>8. QED BY <1>1, <1>2, <1>3, <1>5, <1>6, <1>7, ControlStep DEF Locals

LEMMA JoinAllKeeps == ASSUME PoolIInv, JoinAll PROVE PoolIInv'
<1>1. Locals
    BY DEF PoolIInv
<1>2. QED BY <1>1, ControlStep DEF JoinAll, Locals

LEMMA StartKeeps == ASSUME PoolIInv, NEW w \in Workers, Start(w) PROVE PoolIInv'
<1>1. Locals /\ pc[w] = "start"
    BY DEF PoolIInv, Start
<1>2. /\ pc' \in [Workers -> Labels]
      /\ \A v \in Workers : pc'[v] = IF v = w THEN "top" ELSE pc[v]
    BY <1>1, GotoMoves DEF Start, Locals, Labels
<1> DEFINE b == IF ThreadOne /\ phase = "running" THEN "one_main" ELSE "pool_main"
<1>3. /\ body' = [body EXCEPT ![w] = b] /\ b \in {"pool_main", "one_main"}
      /\ b = "one_main" => ThreadOne
      /\ UNCHANGED <<phase, running, tasks, working, task, reg, accepted, called>>
    BY DEF Start
<1> HIDE DEF b
<1>4. /\ body' \in [Workers -> {"pool_main", "one_main"}]
      /\ \A v \in Workers : body'[v] = IF v = w THEN b ELSE body[v]
    BY <1>1, <1>3 DEF Locals
<1>5. QED BY <1>1, <1>2, <1>3, <1>4, ControlStep DEF Locals

LEMMA TopKeeps == ASSUME PoolIInv, NEW w \in Workers, Top(w) PROVE PoolIInv'
<1>1. Locals /\ pc[w] = "top"
    BY DEF PoolIInv, Top
<1> DEFINE l == IF ~running THEN "done" ELSE IF body[w] = "one_main" THEN "peek" ELSE "lock"
<1>2. l \in {"done", "peek", "lock"} /\ l \in Labels /\ (l = "peek" => body[w] = "one_main")
    BY DEF Labels
<1>3. Goto(w, l) /\ UNCHANGED <<phase, running, tasks, working, body, task, reg, accepted, called>>
    BY DEF Top
<1> HIDE DEF l
<1>4. /\ pc' \in [Workers -> Labels]
      /\ \A v \in Workers : pc'[v] = IF v = w THEN l ELSE pc[v]
    BY <1>1, <1>2, <1>3, GotoMoves DEF Locals
<1>5. QED BY <1>1, <1>2, <1>3, <1>4, ControlStep DEF Locals

LEMMA WakeKeeps == ASSUME PoolIInv, NEW w \in Workers, WakeSpuriously(w) PROVE PoolIInv'
<1>1. Locals /\ pc[w] = "waiting"
    BY DEF PoolIInv, WakeSpuriously
<1>2. /\ pc' \in [Workers -> Labels]
      /\ \A v \in Workers : pc'[v] = IF v = w THEN "lock" ELSE pc[v]
    BY <1>1, GotoMoves DEF WakeSpuriously, Locals, Labels
<1>3. QED BY <1>1, <1>2, ControlStep DEF WakeSpuriously, Locals

LEMMA PeekKeeps == ASSUME PoolIInv, NEW w \in Workers, Peek(w) PROVE PoolIInv'
<1>1. Locals /\ pc[w] = "peek" /\ body[w] = "one_main"
    BY DEF PoolIInv, Peek, Locals
<1> DEFINE l == IF QueueEmpty(tasks) THEN "top" ELSE "take"
<1>2. l \in {"top", "take"} /\ l \in Labels /\ (l = "take" => ~QueueEmpty(tasks))
    BY DEF Labels
<1>3. Goto(w, l) /\ UNCHANGED <<phase, running, tasks, working, body, task, reg, accepted, called>>
    BY DEF Peek
<1> HIDE DEF l
<1>4. /\ pc' \in [Workers -> Labels]
      /\ \A v \in Workers : pc'[v] = IF v = w THEN l ELSE pc[v]
    BY <1>1, <1>2, <1>3, GotoMoves DEF Locals
<1>5. QED BY <1>1, <1>2, <1>3, <1>4, ControlStep DEF Locals

\* run_task appends to the queue, unless the queue forgets; a worker it wakes
\* is still empty-handed.
LEMMA RunTaskKeeps ==
    ASSUME PoolIInv, NEW t \in Tasks, NEW own \in BOOLEAN, RunTask(t, own),
           ~(Lossy(tasks') /\ Forgets(tasks') /\ ~IsStdQueue /\ Off(2) <= MaxOffset)
    PROVE  PoolIInv'
<1> DEFINE q == Queued(t, own)
           a == [arg |-> t, own |-> own]
           E == Elements(tasks)
<1>1. /\ Locals /\ Handed /\ QueueOK(tasks) /\ accepted \in Seq(Task)
      /\ QueueTakes(tasks) /\ tasks' = Push(tasks, q)
      /\ accepted' = Append(accepted, a)
      /\ \A i \in 1..Len(accepted) : accepted[i].arg # t
      /\ NotifyOne
      /\ UNCHANGED <<phase, running, working, body, task, reg, called>>
    BY DEF RunTask, PoolIInv, Locals
<1>2. q \in Task /\ a \in Task /\ q.arg = t /\ a.arg = t
    BY PoolAssumption DEF Queued, Task
<1> HIDE DEF q, a
<1>3. QueueOK(tasks') /\ Elements(tasks)' = Append(E, q)
    BY <1>1, <1>2, QueuePush
<1>4. E \in Seq(Task) /\ Len(E) \in Nat /\ Len(accepted) \in Nat
    BY <1>1, QueueElements
<1> HIDE DEF E
<1>5. /\ Elements(tasks)' \in Seq(Task) /\ Len(Elements(tasks)') = Len(E) + 1
      /\ \A i \in 1..Len(E) : Elements(tasks)'[i] = E[i]
      /\ Elements(tasks)'[Len(E) + 1] = q
    BY <1>2, <1>3, <1>4
<1>6. /\ accepted' \in Seq(Task) /\ Len(accepted') = Len(accepted) + 1
      /\ \A i \in 1..Len(accepted) : accepted'[i] = accepted[i]
      /\ accepted'[Len(accepted) + 1] = a
    BY <1>1, <1>2
<1>7. Taken' = Taken /\ Taken = Len(accepted) - Len(E) /\ Taken \in Int /\ Taken <= Len(accepted)
      /\ Len(E) <= Len(accepted)
    BY <1>1, <1>4, <1>5, <1>6 DEF Taken, E, Handed
<1>8. /\ pc' \in [Workers -> Labels]
      /\ \A w \in Workers : pc'[w] = pc[w] \/ (pc[w] = "waiting" /\ pc'[w] = "lock")
    <2>1. CASE pc' = pc
        BY <1>1, <2>1 DEF Locals
    <2>2. ASSUME NEW w \in Workers, pc[w] = "waiting", Goto(w, "lock")
          PROVE  /\ pc' \in [Workers -> Labels]
                 /\ \A v \in Workers : pc'[v] = pc[v] \/ (pc[v] = "waiting" /\ pc'[v] = "lock")
        <3>1. /\ pc' \in [Workers -> Labels]
              /\ \A v \in Workers : pc'[v] = IF v = w THEN "lock" ELSE pc[v]
            BY <1>1, <2>2, GotoMoves DEF Locals, Labels
        <3>2. QED BY <2>2, <3>1
    <2>3. QED BY <1>1, <2>1, <2>2 DEF NotifyOne
<1>9. InHand' = InHand /\ \A w \in Workers : pc'[w] = "uncount" <=> pc[w] = "uncount"
    BY <1>8 DEF InHand
<1>10. Locals'
    BY <1>1, <1>3, <1>6, <1>8, <1>9 DEF Locals
<1>11. Handed'
    <2>1. \A i, j \in 1..Len(accepted') : accepted'[i].arg = accepted'[j].arg => i = j
        <3> TAKE i, j \in 1..Len(accepted')
        <3>1. \A k \in 1..Len(accepted') : k \in 1..Len(accepted) \/ k = Len(accepted) + 1
            BY <1>4, <1>6
        <3>2. QED BY <1>1, <1>2, <1>6, <3>1 DEF Handed
    <2>2. ASSUME NEW i \in 1..Len(Elements(tasks)')
          PROVE  Elements(tasks)'[i].arg = accepted'[Taken' + i].arg
        <3>1. CASE i = Len(E) + 1
            <4>1. Taken + i = Len(accepted) + 1
                BY <1>4, <1>7, <3>1
            <4>2. QED BY <1>2, <1>5, <1>6, <1>7, <3>1, <4>1
        <3>2. CASE i # Len(E) + 1
            <4>1. i \in 1..Len(E) /\ Taken + i \in 1..Len(accepted)
                BY <1>4, <1>5, <1>7, <3>2
            <4>2. E[i].arg = accepted[Taken + i].arg
                BY <1>1, <4>1 DEF Handed, E
            <4>3. QED BY <1>5, <1>6, <1>7, <4>1, <4>2
        <3>3. QED BY <3>1, <3>2
    <2>3. \A i \in 1..Taken : i \in 1..Len(accepted) /\ accepted'[i] = accepted[i]
        BY <1>4, <1>6, <1>7
    <2>4. \A w \in InHand' : \E i \in 1..Taken' : task'[w].arg = accepted'[i].arg
        <3> TAKE w \in InHand'
        <3>1. PICK i \in 1..Taken : task[w].arg = accepted[i].arg
            BY <1>1, <1>9 DEF Handed
        <3>2. i \in 1..Taken' /\ task'[w].arg = accepted'[i].arg
            BY <1>1, <1>7, <2>3, <3>1
        <3>3. QED BY <3>2
    <2>5. \A s \in Tasks : called'[s] # "none" => \E i \in 1..Taken' : accepted'[i].arg = s
        <3> TAKE s \in Tasks
        <3>1. SUFFICES ASSUME called[s] # "none"
                       PROVE  \E i \in 1..Taken' : accepted'[i].arg = s
            BY <1>1
        <3>2. PICK i \in 1..Taken : accepted[i].arg = s
            BY <1>1, <3>1 DEF Handed
        <3>3. i \in 1..Taken' /\ accepted'[i].arg = s
            BY <1>7, <2>3, <3>2
        <3>4. QED BY <3>3
    <2>6. \A i \in 1..Taken' :
              \/ called'[accepted'[i].arg] # "none"
              \/ \E w \in InHand' : task'[w].arg = accepted'[i].arg
        BY <1>1, <1>7, <1>9, <2>3 DEF Handed
    <2>7. Len(Elements(tasks)') <= Len(accepted')
        BY <1>4, <1>5, <1>6, <1>7
    <2>8. /\ \A v, w \in InHand' : task'[v].arg = task'[w].arg => v = w
          /\ \A w \in Workers : pc'[w] = "uncount" => called'[task'[w].arg] # "none"
        BY <1>1, <1>9 DEF Handed
    <2>9. QED BY <2>1, <2>2, <2>4, <2>5, <2>6, <2>7, <2>8 DEF Handed
<1>12. PeekStaysTrue'
    <2>1. ~QueueEmpty(tasks')
        <3>1. Elements(tasks)' # <<>>
            BY <1>4, <1>5, EmptySeq
        <3>2. QED BY <1>3, <3>1, QueueElements
    <2>2. QED BY <1>8, <2>1 DEF PeekStaysTrue
<1>13. QED BY <1>10, <1>11, <1>12 DEF PoolIInv

\* A worker takes the oldest task under the mutex.
LEMMA TakeKeeps ==
    ASSUME PoolIInv, NEW w \in Workers, pc[w] \in {"lock", "take"}, ~QueueEmpty(tasks),
           TakeTask(w), UNCHANGED <<phase, running, working, body, accepted, called>>
    PROVE  PoolIInv'
<1> DEFINE E == Elements(tasks)
           h == Front(tasks)
<1>1. /\ Locals /\ Handed /\ QueueOK(tasks) /\ accepted \in Seq(Task)
      /\ Goto(w, "count")
      /\ task' = [task EXCEPT ![w] = h]
      /\ tasks' = PopFront(tasks)
      /\ reg' = [reg EXCEPT ![w] = working]
    BY DEF PoolIInv, Locals, TakeTask
<1>2. /\ E \in Seq(Task) /\ E # <<>> /\ h = E[1]
      /\ Len(E) \in Nat /\ Len(accepted) \in Nat
    BY <1>1, QueueElements
<1>3. QueueOK(tasks') /\ Elements(tasks)' = Tail(E)
    BY <1>1, QueuePop
<1> HIDE DEF E, h
<1>4. Len(E) \in Nat \ {0} /\ h \in Task
    BY <1>2, EmptySeq, ElementOfSeq
<1>5. /\ Elements(tasks)' \in Seq(Task) /\ Len(Elements(tasks)') = Len(E) - 1
      /\ \A i \in 1..Len(Elements(tasks)') : Elements(tasks)'[i] = E[i + 1]
    BY <1>2, <1>3, HeadTailProperties
<1>6. /\ Len(E) <= Len(accepted) /\ Taken = Len(accepted) - Len(E) /\ Taken' = Taken + 1
      /\ Taken \in Nat /\ Taken + 1 \in 1..Len(accepted)
    BY <1>1, <1>2, <1>4, <1>5 DEF Taken, E, Handed
<1>7. h.arg = accepted[Taken + 1].arg
    BY <1>1, <1>2, <1>4 DEF Handed, E
<1>8. /\ pc' \in [Workers -> Labels]
      /\ \A v \in Workers : pc'[v] = IF v = w THEN "count" ELSE pc[v]
    BY <1>1, GotoMoves DEF Locals, Labels
<1>9. InHand' = InHand \cup {w} /\ w \notin InHand
    BY <1>8 DEF InHand
<1>10. /\ task' \in [Workers -> Task \cup {NoTask}]
       /\ \A v \in Workers : task'[v] = IF v = w THEN h ELSE task[v]
    BY <1>1, <1>4 DEF Locals
<1>11. /\ reg' \in [Workers -> Int]
       /\ \A v \in Workers : reg'[v] = IF v = w THEN working ELSE reg[v]
    BY <1>1 DEF Locals
<1>12. Locals'
    <2>1. \A v \in Workers : task'[v] \in IF v \in InHand' THEN Task ELSE {NoTask}
        BY <1>1, <1>4, <1>9, <1>10 DEF Locals
    <2>2. \A v \in Workers : pc'[v] \in {"peek", "take"} => body'[v] = "one_main"
        BY <1>1, <1>8 DEF Locals
    <2>3. QED BY <1>1, <1>3, <1>8, <1>10, <1>11, <2>1, <2>2 DEF Locals
<1>13. Handed'
    <2>1. \A v \in InHand : v # w /\ task'[v] = task[v] /\ v \in Workers
        BY <1>9, <1>10 DEF InHand
    <2>2. task'[w] = h
        BY <1>10
    <2>3. \A i \in 1..Taken : i \in 1..Taken' /\ i # Taken + 1 /\ i \in 1..Len(accepted)
        BY <1>6
    <2>4. \A v \in InHand : \E i \in 1..Taken : task[v].arg = accepted[i].arg
        BY <1>1 DEF Handed
    <2>5. \A v \in InHand' : \E i \in 1..Taken' : task'[v].arg = accepted'[i].arg
        <3>1. Taken + 1 \in 1..Taken'
            BY <1>6
        <3>2. QED BY <1>7, <1>9, <2>1, <2>2, <2>3, <2>4, <3>1
    <2>6. \A v \in InHand : task[v].arg # h.arg
        <3> TAKE v \in InHand
        <3>1. PICK i \in 1..Taken : task[v].arg = accepted[i].arg
            BY <2>4
        <3>2. /\ i \in 1..Len(accepted) /\ Taken + 1 \in 1..Len(accepted)
              /\ i # Taken + 1
            BY <1>6, <2>3
        <3>3. accepted[i].arg # accepted[Taken + 1].arg
            BY <1>1, <3>2 DEF Handed
        <3>4. QED BY <1>7, <3>1, <3>3
    <2>7. \A u, v \in InHand' : task'[u].arg = task'[v].arg => u = v
        BY <1>1, <1>9, <2>1, <2>2, <2>6 DEF Handed
    <2>8. ASSUME NEW i \in 1..Len(Elements(tasks)')
          PROVE  Elements(tasks)'[i].arg = accepted'[Taken' + i].arg
        <3>1. i + 1 \in 1..Len(E) /\ Taken' + i = Taken + (i + 1)
            BY <1>4, <1>5, <1>6
        <3>2. E[i + 1].arg = accepted[Taken + (i + 1)].arg
            BY <1>1, <3>1 DEF Handed, E
        <3>3. QED BY <1>5, <3>1, <3>2
    <2>9. \A i \in 1..Taken' :
              \/ called'[accepted'[i].arg] # "none"
              \/ \E v \in InHand' : task'[v].arg = accepted'[i].arg
        <3> TAKE i \in 1..Taken'
        <3>1. CASE i = Taken + 1
            BY <1>7, <1>9, <2>2, <3>1
        <3>2. CASE i # Taken + 1
            <4>1. i \in 1..Taken
                BY <1>6, <3>2
            <4>2. QED BY <1>1, <1>9, <2>1, <4>1 DEF Handed
        <3>3. QED BY <3>1, <3>2
    <2>10. \A t \in Tasks : called'[t] # "none" => \E i \in 1..Taken' : accepted'[i].arg = t
        BY <1>1, <2>3 DEF Handed
    <2>11. \A v \in Workers : pc'[v] = "uncount" => called'[task'[v].arg] # "none"
        BY <1>1, <1>8, <1>10 DEF Handed
    <2>12. Len(Elements(tasks)') <= Len(accepted')
        BY <1>2, <1>5, <1>6
    <2>13. \A i, j \in 1..Len(accepted') : accepted'[i].arg = accepted'[j].arg => i = j
        BY <1>1 DEF Handed
    <2>14. QED BY <2>5, <2>7, <2>8, <2>9, <2>10, <2>11, <2>12, <2>13 DEF Handed
<1>14. PeekStaysTrue'
    <2>1. ASSUME NEW v \in Workers, pc'[v] = "take" PROVE FALSE
        <3>1. v # w /\ pc[v] = "take"
            BY <1>8, <2>1
        <3>2. ThreadOne
            BY <1>1, <3>1 DEF Locals
        <3>3. QED BY <3>1, <3>2, SoleWorker
    <2>2. QED BY <2>1 DEF PeekStaysTrue
<1>15. QED BY <1>12, <1>13, <1>14 DEF PoolIInv

\* The store of ++.
LEMMA CountKeeps ==
    ASSUME PoolIInv, NEW w \in Workers, Count(w)
    PROVE  PoolIInv'
<1>1. /\ Locals /\ Handed /\ pc[w] = "count" /\ Goto(w, "run")
      /\ working' = reg[w] + 1
      /\ UNCHANGED <<phase, running, tasks, body, task, reg, accepted, called>>
    BY DEF PoolIInv, Count
<1>2. /\ pc' \in [Workers -> Labels]
      /\ \A v \in Workers : pc'[v] = IF v = w THEN "run" ELSE pc[v]
    BY <1>1, GotoMoves DEF Locals, Labels
<1>3. InHand' = InHand /\ \A v \in Workers : pc'[v] = "uncount" <=> pc[v] = "uncount"
    BY <1>1, <1>2 DEF InHand
<1>4. reg[w] \in Int
    BY <1>1 DEF Locals
<1>5. Locals'
    BY <1>1, <1>2, <1>3, <1>4 DEF Locals
<1>6. Handed'
    BY <1>1, <1>3 DEF Handed, Taken
<1>7. PeekStaysTrue'
    BY <1>1, <1>2 DEF PoolIInv, PeekStaysTrue
<1>8. QED BY <1>5, <1>6, <1>7 DEF PoolIInv

\* The call returns, and the load of --.
LEMMA RunKeeps ==
    ASSUME PoolIInv, NEW w \in Workers, Run(w)
    PROVE  PoolIInv'
<1>1. /\ Locals /\ Handed /\ pc[w] = "run" /\ Goto(w, "uncount")
      /\ reg' = [reg EXCEPT ![w] = working]
      /\ UNCHANGED <<phase, running, tasks, working, body, task, accepted>>
    BY DEF PoolIInv, Run
<1>2. PICK c \in Outcomes(w) : called' = [called EXCEPT ![task[w].arg] = c]
    BY DEF Run
<1>3. c \in Callees /\ c # "none"
    BY <1>2 DEF Outcomes, Callee, Callees
<1>4. w \in InHand /\ task[w] \in Task /\ task[w].arg \in Tasks
    BY <1>1 DEF InHand, Locals, Task
<1>5. /\ called' \in [Tasks -> Callees \cup {"none"}]
      /\ \A t \in Tasks : called'[t] = IF t = task[w].arg THEN c ELSE called[t]
    BY <1>1, <1>2, <1>3, <1>4 DEF Locals
<1>6. /\ pc' \in [Workers -> Labels]
      /\ \A v \in Workers : pc'[v] = IF v = w THEN "uncount" ELSE pc[v]
    BY <1>1, GotoMoves DEF Locals, Labels
<1>7. InHand' = InHand
    BY <1>1, <1>6 DEF InHand
<1>8. /\ reg' \in [Workers -> Int]
      /\ \A v \in Workers : reg'[v] = IF v = w THEN working ELSE reg[v]
    BY <1>1 DEF Locals
<1>9. Locals'
    <2>1. \A v \in Workers : pc'[v] \in {"peek", "take"} => body'[v] = "one_main"
        BY <1>1, <1>6 DEF Locals
    <2>2. QED BY <1>1, <1>5, <1>6, <1>7, <1>8, <2>1 DEF Locals
<1>10. Handed'
    <2>1. Taken' = Taken
        BY <1>1 DEF Taken
    <2>2. \A v \in Workers : pc'[v] = "uncount" => called'[task'[v].arg] # "none"
        <3> SUFFICES ASSUME NEW v \in Workers, pc'[v] = "uncount"
                     PROVE  called'[task[v].arg] # "none"
            BY <1>1
        <3>1. CASE v = w
            BY <1>3, <1>4, <1>5, <3>1
        <3>2. CASE v # w
            <4>1. pc[v] = "uncount" /\ v \in InHand /\ task[v] \in Task
                BY <1>1, <1>6, <3>2 DEF InHand, Locals
            <4>2. task[v].arg \in Tasks /\ called[task[v].arg] # "none"
                BY <1>1, <4>1 DEF Handed, Task
            <4>3. QED BY <1>3, <1>5, <4>2
        <3>3. QED BY <3>1, <3>2
    <2>3. \A t \in Tasks : called'[t] # "none" => \E i \in 1..Taken : accepted[i].arg = t
        <3>1. \E i \in 1..Taken : accepted[i].arg = task[w].arg
            BY <1>1, <1>4 DEF Handed
        <3>2. QED BY <1>1, <1>5, <3>1 DEF Handed
    <2>4. \A i \in 1..Taken :
              \/ called'[accepted[i].arg] # "none"
              \/ \E v \in InHand : task[v].arg = accepted[i].arg
        <3> TAKE i \in 1..Taken
        <3>1. CASE called[accepted[i].arg] # "none"
            <4>1. i \in 1..Len(accepted)
                <5>1. Len(Elements(tasks)) \in Nat /\ Len(accepted) \in Nat
                    BY <1>1, QueueElements DEF Locals
                <5>2. QED BY <5>1 DEF Taken
            <4>2. accepted[i] \in Task
                BY <1>1, <4>1, ElementOfSeq DEF Locals
            <4>3. accepted[i].arg \in Tasks
                BY <4>2 DEF Task
            <4>4. QED BY <1>3, <1>5, <3>1, <4>3
        <3>2. CASE \E v \in InHand : task[v].arg = accepted[i].arg
            BY <3>2
        <3>3. QED BY <1>1, <3>1, <3>2 DEF Handed
    <2>5. QED BY <1>1, <1>7, <2>1, <2>2, <2>3, <2>4 DEF Handed
<1>11. PeekStaysTrue'
    BY <1>1, <1>6 DEF PoolIInv, PeekStaysTrue
<1>12. QED BY <1>9, <1>10, <1>11 DEF PoolIInv

\* The store of --; the task that goes out of scope was called.
LEMMA UncountKeeps ==
    ASSUME PoolIInv, NEW w \in Workers, Uncount(w)
    PROVE  PoolIInv'
<1>1. /\ Locals /\ Handed /\ pc[w] = "uncount" /\ Goto(w, "top")
      /\ working' = reg[w] - 1
      /\ task' = [task EXCEPT ![w] = NoTask]
      /\ UNCHANGED <<phase, running, tasks, body, reg, accepted, called>>
    BY DEF PoolIInv, Uncount
<1>2. /\ pc' \in [Workers -> Labels]
      /\ \A v \in Workers : pc'[v] = IF v = w THEN "top" ELSE pc[v]
    BY <1>1, GotoMoves DEF Locals, Labels
<1>3. InHand' = InHand \ {w} /\ w \in InHand
    BY <1>1, <1>2 DEF InHand
<1>4. /\ task' \in [Workers -> Task \cup {NoTask}]
      /\ \A v \in Workers : task'[v] = IF v = w THEN NoTask ELSE task[v]
    BY <1>1 DEF Locals
<1>5. reg[w] - 1 \in Int
    BY <1>1 DEF Locals
<1>6. Locals'
    <2>1. \A v \in Workers : task'[v] \in IF v \in InHand' THEN Task ELSE {NoTask}
        BY <1>1, <1>3, <1>4 DEF Locals
    <2>2. \A v \in Workers : pc'[v] \in {"peek", "take"} => body'[v] = "one_main"
        BY <1>1, <1>2 DEF Locals
    <2>3. QED BY <1>1, <1>2, <1>4, <1>5, <2>1, <2>2 DEF Locals
<1>7. Handed'
    <2>1. Taken' = Taken
        BY <1>1 DEF Taken
    <2>2. \A v \in InHand' : v \in InHand /\ task'[v] = task[v]
        BY <1>3, <1>4 DEF InHand
    <2>3. called[task[w].arg] # "none"
        BY <1>1 DEF Handed
    <2>4. \A v \in Workers : pc'[v] = "uncount" => called'[task'[v].arg] # "none"
        BY <1>1, <1>2, <1>4 DEF Handed
    <2>5. \A i \in 1..Taken :
              \/ called[accepted[i].arg] # "none"
              \/ \E v \in InHand' : task'[v].arg = accepted[i].arg
        <3> TAKE i \in 1..Taken
        <3>1. ASSUME NEW v \in InHand, task[v].arg = accepted[i].arg
              PROVE  \/ called[accepted[i].arg] # "none"
                     \/ \E u \in InHand' : task'[u].arg = accepted[i].arg
            <4>1. CASE v = w
                BY <2>3, <3>1, <4>1
            <4>2. CASE v # w
                BY <1>3, <2>2, <3>1, <4>2
            <4>3. QED BY <4>1, <4>2
        <3>2. QED BY <1>1, <3>1 DEF Handed
    <2>6. \A v \in InHand' : \E i \in 1..Taken : task'[v].arg = accepted[i].arg
        BY <1>1, <2>2 DEF Handed
    <2>7. \A u, v \in InHand' : task'[u].arg = task'[v].arg => u = v
        BY <1>1, <2>2 DEF Handed
    <2>8. QED BY <1>1, <2>1, <2>4, <2>5, <2>6, <2>7 DEF Handed
<1>8. PeekStaysTrue'
    BY <1>1, <1>2 DEF PoolIInv, PeekStaysTrue
<1>9. QED BY <1>6, <1>7, <1>8 DEF PoolIInv

\* thread_pool's worker at the mutex: waits, leaves, or takes a task.
LEMMA LockKeeps ==
    ASSUME PoolIInv, NEW w \in Workers, Lock(w)
    PROVE  PoolIInv'
<1>1. Locals /\ pc[w] = "lock"
    BY DEF PoolIInv, Lock
<1>2. ASSUME NEW l \in {"waiting", "done"}, Goto(w, l), UNCHANGED <<tasks, task, reg>>
      PROVE  PoolIInv'
    <2>1. /\ pc' \in [Workers -> Labels]
          /\ \A v \in Workers : pc'[v] = IF v = w THEN l ELSE pc[v]
        BY <1>1, <1>2, GotoMoves DEF Locals, Labels
    <2>2. UNCHANGED <<phase, running, working, body, accepted, called>>
        BY DEF Lock
    <2>3. QED BY <1>1, <1>2, <2>1, <2>2, ControlStep DEF Locals
<1>3. ASSUME ~QueueEmpty(tasks), TakeTask(w)
      PROVE  PoolIInv'
    BY <1>1, <1>3, TakeKeeps DEF Lock
<1>4. QED BY <1>2, <1>3 DEF Lock

LEMMA TakeAloneKeeps ==
    ASSUME PoolIInv, NEW w \in Workers, Take(w)
    PROVE  PoolIInv'
<1>1. ~QueueEmpty(tasks)
    <2>1. ~Forgets(tasks)
        BY QueueElements DEF PoolIInv, Locals
    <2>2. QED BY <2>1 DEF PoolIInv, PeekStaysTrue, Take
<1>2. QED BY <1>1, TakeKeeps DEF Take

LEMMA WorkerKeeps ==
    ASSUME PoolIInv, NEW w \in Workers, Step(w) \/ WakeSpuriously(w)
    PROVE  PoolIInv'
    BY StartKeeps, TopKeeps, LockKeeps, PeekKeeps, TakeAloneKeeps, CountKeeps, RunKeeps,
       UncountKeeps, WakeKeeps DEF Step

LEMMA PoolStepKeeps ==
    ASSUME PoolIInv, [Next]_vars
    PROVE  \/ PoolIInv'
           \/ Lossy(tasks)' /\ Forgets(tasks)' /\ ~IsStdQueue /\ Off(2) <= MaxOffset
<1>1. CASE \E t \in Tasks, own \in BOOLEAN : RunTask(t, own)
    BY <1>1, RunTaskKeeps
<1>2. CASE \E w \in Workers : Step(w) \/ WakeSpuriously(w)
    BY <1>2, WorkerKeeps
<1>3. CASE UNCHANGED vars
    BY <1>3 DEF vars, PoolIInv, Locals, Handed, InHand, Taken, PeekStaysTrue
<1>4. QED BY <1>1, <1>2, <1>3, ConstructedKeeps, StopKeeps, JoinAllKeeps DEF Next

LEMMA PoolStarts == ASSUME Init PROVE PoolIInv
<1>1. QueueOK(tasks) /\ Elements(tasks) = <<>>
    BY QueueNew DEF Init
<1>2. InHand = {}
    BY DEF Init, InHand
<1>3. <<>> \in Seq(Task) /\ Len(<<>>) = 0
    BY EmptySeq
<1>4. Locals
    BY <1>1, <1>2, <1>3 DEF Init, Locals, Labels
<1>5. Taken = 0 /\ 1..0 = {}
    BY <1>1, <1>3 DEF Init, Taken
<1>6. Handed
    BY <1>1, <1>2, <1>3, <1>5 DEF Init, Handed
<1>7. PeekStaysTrue
    BY DEF Init, PeekStaysTrue
<1>8. QED BY <1>4, <1>6, <1>7 DEF PoolIInv

\* A queue that has forgotten tasks stays one.
LEMMA LossyStays ==
    ASSUME Lossy(tasks), [Next]_vars
    PROVE  Lossy(tasks)'
<1>1. ASSUME NEW t \in Tasks, NEW own \in BOOLEAN, RunTask(t, own)
      PROVE  Lossy(tasks)'
    <2>1. Queued(t, own) \in Task
        BY PoolAssumption DEF Queued, Task
    <2>2. QueueTakes(tasks) /\ tasks' = Push(tasks, Queued(t, own))
        BY <1>1 DEF RunTask
    <2>3. QED BY <2>1, <2>2, LossyPush
<1>2. ASSUME NEW w \in Workers, Step(w) \/ WakeSpuriously(w)
      PROVE  Lossy(tasks)'
    <2>1. tasks' = tasks \/ tasks' = PopFront(tasks)
        BY <1>2 DEF Step, WakeSpuriously, Start, Top, Lock, Peek, Take, TakeTask, Count, Run, Uncount
    <2>2. QED BY <2>1, LossyPop
<1>3. CASE Constructed \/ Stop \/ JoinAll \/ UNCHANGED vars
    BY <1>3 DEF Constructed, Stop, JoinAll, vars
<1>4. QED BY <1>1, <1>2, <1>3 DEF Next

LEMMA CountingStarts == ASSUME Init PROVE Counting
    BY DEF Init, Counting, Labels

\* ++ and -- of the only worker are not disturbed.
LEMMA CountingKeeps ==
    ASSUME ThreadOne, Counting, [Next]_vars
    PROVE  Counting'
<1>1. /\ pc \in [Workers -> Labels] /\ reg \in [Workers -> Int]
      /\ \A v, w \in Workers : v = w
    BY SoleWorker DEF Counting
<1>2. CASE UNCHANGED <<working, pc, reg>>
    BY <1>2 DEF Counting
<1>3. CASE Stop
    <2>1. /\ pc' = [w \in Workers |-> IF pc[w] = "waiting" THEN "lock" ELSE pc[w]]
          /\ UNCHANGED <<working, reg>>
        BY <1>3 DEF Stop
    <2>2. /\ pc' \in [Workers -> Labels]
          /\ \A w \in Workers : pc'[w] = IF pc[w] = "waiting" THEN "lock" ELSE pc[w]
        BY <1>1, <2>1 DEF Labels
    <2>3. QED BY <2>1, <2>2 DEF Counting
<1>4. ASSUME NEW w \in Workers, Step(w) \/ WakeSpuriously(w)
      PROVE  Counting'
    <2>1. ASSUME NEW l \in Labels, Goto(w, l)
          PROVE  pc' \in [Workers -> Labels] /\ \A v \in Workers : pc'[v] = l
        BY <1>1, <2>1, GotoMoves
    <2>2. ASSUME reg' = [reg EXCEPT ![w] = working], working \in Int
          PROVE  reg' \in [Workers -> Int] /\ \A v \in Workers : reg'[v] = working
        BY <1>1, <2>2
    <2>3. \A v \in Workers : pc[v] = pc[w] /\ reg[v] = reg[w]
        BY <1>1
    <2>4. working = IF pc[w] \in {"run", "uncount"} THEN 1 ELSE 0
        BY DEF Counting
    <2>5. ASSUME pc[w] \notin {"count", "run", "uncount"}, UNCHANGED <<working, reg>>,
                 NEW l \in Labels \ {"count", "run", "uncount"}, Goto(w, l)
          PROVE  Counting'
        <3>1. pc' \in [Workers -> Labels] /\ \A v \in Workers : pc'[v] = l
            BY <2>1, <2>5
        <3>2. QED BY <1>1, <2>4, <2>5, <3>1 DEF Counting
    <2>6. ASSUME pc[w] \in {"lock", "take"}, TakeTask(w), working' = working
          PROVE  Counting'
        <3>1. pc' \in [Workers -> Labels] /\ \A v \in Workers : pc'[v] = "count"
            BY <2>1, <2>6 DEF TakeTask, Labels
        <3>2. working = 0
            BY <2>4, <2>6
        <3>3. reg' \in [Workers -> Int] /\ \A v \in Workers : reg'[v] = 0
            BY <2>2, <2>6, <3>2 DEF TakeTask
        <3>4. QED BY <2>6, <3>1, <3>2, <3>3 DEF Counting
    <2>7. CASE Start(w) \/ WakeSpuriously(w)
        <3>1. \E l \in Labels \ {"count", "run", "uncount"} : Goto(w, l)
            BY <2>7 DEF Start, WakeSpuriously, Labels
        <3>2. QED BY <2>5, <2>7, <3>1 DEF Start, WakeSpuriously
    <2>8. CASE Top(w)
        <3>1. \E l \in Labels \ {"count", "run", "uncount"} : Goto(w, l)
            BY <2>8 DEF Top, Labels
        <3>2. QED BY <2>5, <2>8, <3>1 DEF Top
    <2>9. CASE Peek(w)
        <3>1. \E l \in Labels \ {"count", "run", "uncount"} : Goto(w, l)
            BY <2>9 DEF Peek, Labels
        <3>2. QED BY <2>5, <2>9, <3>1 DEF Peek
    <2>10. CASE Lock(w)
        <3>1. "waiting" \in Labels \ {"count", "run", "uncount"}
              /\ "done" \in Labels \ {"count", "run", "uncount"}
            BY DEF Labels
        <3>2. \/ \E l \in Labels \ {"count", "run", "uncount"} : Goto(w, l) /\ reg' = reg
              \/ TakeTask(w)
            BY <2>10, <3>1 DEF Lock
        <3>3. QED BY <2>5, <2>6, <2>10, <3>2 DEF Lock
    <2>11. CASE Take(w)
        BY <2>6, <2>11 DEF Take
    <2>12. CASE Count(w)
        <3>1. pc' \in [Workers -> Labels] /\ \A v \in Workers : pc'[v] = "run"
            BY <2>1, <2>12 DEF Count, Labels
        <3>2. working' = 1 /\ reg' = reg
            BY <2>12 DEF Counting, Count
        <3>3. QED BY <1>1, <3>1, <3>2 DEF Counting
    <2>13. CASE Run(w)
        <3>1. pc' \in [Workers -> Labels] /\ \A v \in Workers : pc'[v] = "uncount"
            BY <2>1, <2>13 DEF Run, Labels
        <3>2. working = 1 /\ working' = 1
            BY <2>4, <2>13 DEF Run
        <3>3. reg' \in [Workers -> Int] /\ \A v \in Workers : reg'[v] = 1
            BY <2>2, <2>13, <3>2 DEF Run
        <3>4. QED BY <3>1, <3>2, <3>3 DEF Counting
    <2>14. CASE Uncount(w)
        <3>1. pc' \in [Workers -> Labels] /\ \A v \in Workers : pc'[v] = "top"
            BY <2>1, <2>14 DEF Uncount, Labels
        <3>2. working' = 0 /\ reg' = reg
            BY <2>14 DEF Counting, Uncount
        <3>3. QED BY <1>1, <3>1, <3>2 DEF Counting
    <2>15. QED BY <1>4, <2>7, <2>8, <2>9, <2>10, <2>11, <2>12, <2>13, <2>14 DEF Step
<1>5. CASE \E t \in Tasks, own \in BOOLEAN : RunTask(t, own)
    BY <1>2, <1>5 DEF RunTask, NotifyOne
<1>6. CASE Constructed \/ JoinAll \/ UNCHANGED vars
    BY <1>2, <1>6 DEF Constructed, JoinAll, vars
<1>7. QED BY <1>3, <1>4, <1>5, <1>6 DEF Next

-----------------------------------------------------------------------------

(***************************************************************************)
(* The properties of the pools.                                            *)
(***************************************************************************)

\* A pool over a std::queue, or over a FifoPool too small for two blocks, never
\* forgets a task.
THEOREM TasksKept ==
    ASSUME IsStdQueue \/ MaxOffset < Off(2)
    PROVE  Spec => []~Forgets(tasks)
<1>1. PoolIInv => ~Forgets(tasks)
    BY QueueElements DEF PoolIInv, Locals
<1>2. PoolIInv /\ [Next]_vars => PoolIInv'
    <2>1. ~(~IsStdQueue /\ Off(2) <= MaxOffset)
        BY OffsetType, Offsets
    <2>2. QED BY <2>1, PoolStepKeeps
<1>3. QED BY <1>1, <1>2, PoolStarts, PTL DEF Spec

\* PoolIInv: the queue, the tasks in the hands of workers and the tasks called
\* are those posted, at every step of a pool until its queue forgets tasks.
THEOREM PoolInvariant == Spec /\ []~Forgets(tasks) => []PoolIInv
<1>1. PoolIInv /\ [Next]_vars /\ ~Forgets(tasks)' => PoolIInv'
    BY PoolStepKeeps
<1>2. QED BY <1>1, PoolStarts, PTL DEF Spec

\* PoolInv: whatever the interleaving, each accepted task is in the queue, in
\* the order of posting, in the hand of one worker, or was called, if the
\* queue never forgets.
THEOREM PoolInvHolds == Spec /\ []~Forgets(tasks) => []PoolInv
<1>1. PoolIInv => PoolInv
    <2> SUFFICES ASSUME PoolIInv PROVE PoolInv
        OBVIOUS
    <2> DEFINE E == Elements(tasks)
    <2>1. /\ Locals /\ Handed /\ E \in Seq(Task)
          /\ Len(E) \in Nat /\ Len(accepted) \in Nat
          /\ Len(E) <= Len(accepted) /\ Taken = Len(accepted) - Len(E) /\ Taken \in Nat
        <3>1. Locals /\ Handed
            BY DEF PoolIInv
        <3>2. E \in Seq(Task) /\ Len(E) \in Nat /\ Len(accepted) \in Nat
            BY <3>1, QueueElements DEF Locals
        <3>3. QED BY <3>1, <3>2 DEF Taken, Handed
    <2> HIDE DEF E
    <2>2. TypeOK
        BY <2>1 DEF TypeOK, Locals, E
    <2>3. Waiting = {E[i].arg : i \in 1..Len(E)}
        BY DEF Waiting, Args, E
    <2>4. \A i \in 1..Len(E) : E[i].arg = accepted[Taken + i].arg
        BY <2>1 DEF Handed, E
    <2>5. \* the tasks that left the queue are the first ones
          \A i \in 1..Len(accepted) : accepted[i].arg \notin Waiting <=> i \in 1..Taken
        <3> TAKE i \in 1..Len(accepted)
        <3>1. CASE i \in 1..Taken
            <4>1. ASSUME NEW k \in 1..Len(E), accepted[i].arg = E[k].arg PROVE FALSE
                <5>1. Taken + k \in 1..Len(accepted) /\ i # Taken + k
                    BY <2>1, <3>1
                <5>2. accepted[i].arg = accepted[Taken + k].arg
                    BY <2>4, <4>1
                <5>3. QED BY <2>1, <5>1, <5>2 DEF Handed
            <4>2. QED BY <2>3, <3>1, <4>1
        <3>2. CASE i \notin 1..Taken
            <4>1. i - Taken \in 1..Len(E) /\ Taken + (i - Taken) = i
                BY <2>1, <3>2
            <4>2. E[i - Taken].arg = accepted[i].arg
                BY <2>4, <4>1
            <4>3. QED BY <2>3, <3>2, <4>1, <4>2
        <3>3. QED BY <3>1, <3>2
    <2>6. \A i \in 1..Taken : i \in 1..Len(accepted)
        BY <2>1
    <2>7. \A w \in InHand : task[w].arg \notin Waiting
        <3> TAKE w \in InHand
        <3>1. PICK i \in 1..Taken : task[w].arg = accepted[i].arg
            BY <2>1 DEF Handed
        <3>2. QED BY <2>5, <2>6, <3>1
    <2>8. \A t \in Tasks : called[t] # "none" => t \in Args(accepted) \ Waiting
        <3> SUFFICES ASSUME NEW t \in Tasks, called[t] # "none"
                     PROVE  t \in Args(accepted) \ Waiting
            OBVIOUS
        <3>1. PICK i \in 1..Taken : accepted[i].arg = t
            BY <2>1 DEF Handed
        <3>2. QED BY <2>5, <2>6, <3>1 DEF Args
    <2>9. \A t \in Args(accepted) \ Waiting :
              called[t] # "none" \/ \E w \in InHand : task[w].arg = t
        <3> TAKE t \in Args(accepted) \ Waiting
        <3>1. PICK i \in 1..Len(accepted) : accepted[i].arg = t
            BY DEF Args
        <3>2. i \in 1..Taken
            BY <2>5, <3>1
        <3>3. QED BY <2>1, <3>1, <3>2 DEF Handed
    <2>10. /\ Len(E) <= Len(accepted)
           /\ \A i \in 1..Len(E) : E[i].arg = accepted[Len(accepted) - Len(E) + i].arg
        BY <2>1, <2>4
    <2>11. \A v, w \in InHand : task[v].arg = task[w].arg => v = w
        BY <2>1 DEF Handed
    <2>12. HandedOnce
        BY <2>7, <2>8, <2>9, <2>10, <2>11 DEF HandedOnce, E
    <2>13. QED BY <2>2, <2>12 DEF PoolInv
<1>2. QED BY <1>1, PoolInvariant, PTL

\* PeekStaysTrue: what a worker saw in the queue without the mutex is there
\* when it has it, unless the queue, of whatever size, forgot it at a post.
THEOREM PeekStaysTrueHolds == Spec => []PeekStaysTrue
<1>1. Init => PoolIInv \/ Lossy(tasks)
    BY PoolStarts
<1>2. (PoolIInv \/ Lossy(tasks)) /\ [Next]_vars => PoolIInv' \/ Lossy(tasks)'
    BY PoolStepKeeps, LossyStays
<1>3. PoolIInv \/ Lossy(tasks) => PeekStaysTrue
    <2>1. PoolIInv => PeekStaysTrue
        BY DEF PoolIInv
    <2>2. Lossy(tasks) => PeekStaysTrue
        BY LossyCounts DEF PeekStaysTrue
    <2>3. QED BY <2>1, <2>2
<1>4. QED BY <1>1, <1>2, <1>3, PTL DEF Spec

\* WorkingExact: with one worker, over any queue, working_count() is the number
\* of tasks between ++ and --.
THEOREM WorkingExactHolds ==
    ASSUME ThreadOne
    PROVE  Spec => []WorkingExact
<1>1. Counting => WorkingExact
    <2> SUFFICES ASSUME Counting, \A w \in Workers : pc[w] \notin {"count", "uncount"}
                 PROVE  working = Cardinality({w \in Workers : pc[w] = "run"})
        BY DEF WorkingExact
    <2>1. PICK w : Workers = {w}
        BY PoolAssumption, FS_Singleton DEF ThreadOne
    <2>2. working = IF pc[w] \in {"run", "uncount"} THEN 1 ELSE 0
        BY <2>1 DEF Counting
    <2>3. CASE pc[w] = "run"
        <3>1. {v \in Workers : pc[v] = "run"} = {w}
            BY <2>1, <2>3
        <3>2. QED BY <2>2, <2>3, <3>1, FS_Singleton
    <2>4. CASE pc[w] # "run"
        <3>1. {v \in Workers : pc[v] = "run"} = {}
            BY <2>1, <2>4
        <3>2. QED BY <2>1, <2>2, <2>4, <3>1, FS_EmptySet
    <2>5. QED BY <2>3, <2>4
<1>2. Counting /\ [Next]_vars => Counting'
    BY CountingKeeps
<1>3. QED BY <1>1, <1>2, CountingStarts, PTL DEF Spec

-----------------------------------------------------------------------------

(***************************************************************************)
(* Wake-ups.                                                               *)
(***************************************************************************)

\* The workers on their way to the queue are finitely many.
LEMMA OnTheWayFinite ==
    ASSUME NEW S \in SUBSET Workers
    PROVE  IsFiniteSet(S) /\ Cardinality(S) \in Nat
    BY PoolAssumption, FS_Subset, FS_CardinalityType

\* Steps that take no task and send nobody to sleep.
LEMMA NobodySleeps ==
    ASSUME WakeupsSuffice, running' => running, tasks' = tasks, QueueSize(tasks) \in Nat,
           \A v \in Workers : pc'[v] = "waiting" => pc[v] = "waiting",
           \A v \in Workers : pc[v] \in {"start", "top", "lock"}
                                  => pc'[v] \in {"start", "top", "lock"}
    PROVE  WakeupsSuffice'
<1>1. OnTheWay \subseteq OnTheWay' /\ OnTheWay \in SUBSET Workers /\ OnTheWay' \in SUBSET Workers
    BY DEF OnTheWay
<1>2. /\ Cardinality(OnTheWay) \in Nat /\ Cardinality(OnTheWay') \in Nat
      /\ Cardinality(OnTheWay) <= Cardinality(OnTheWay')
    <2>1. OnTheWay \in SUBSET (OnTheWay')
        BY <1>1
    <2>2. QED BY <1>1, <2>1, OnTheWayFinite, FS_Subset
<1>3. SUFFICES ASSUME running', \E w \in Workers : pc'[w] = "waiting"
               PROVE  QueueSize(tasks') <= Cardinality(OnTheWay')
    BY DEF WakeupsSuffice
<1>4. QueueSize(tasks) <= Cardinality(OnTheWay)
    BY <1>3 DEF WakeupsSuffice
<1>5. QED BY <1>2, <1>4

\* A post wakes a sleeping worker, if there is one.
LEMMA PostWakes ==
    ASSUME PoolIInv, WakeupsSuffice, ~ThreadOne, ~Forgets(tasks'),
           NEW t \in Tasks, NEW own \in BOOLEAN, RunTask(t, own)
    PROVE  WakeupsSuffice'
<1>1. /\ QueueOK(tasks) /\ pc \in [Workers -> Labels]
      /\ QueueTakes(tasks) /\ tasks' = Push(tasks, Queued(t, own))
      /\ running' = running /\ NotifyOne
    BY DEF RunTask, PoolIInv, Locals
<1>2. Queued(t, own) \in Task
    BY PoolAssumption DEF Queued, Task
<1>3. QueueSize(tasks') = QueueSize(tasks) + 1 /\ QueueSize(tasks) \in Nat
    <2>1. QueueOK(tasks') /\ Elements(tasks') = Append(Elements(tasks), Queued(t, own))
        BY <1>1, <1>2, QueuePush
    <2>2. Elements(tasks) \in Seq(Task)
        BY <1>1, QueueElements
    <2>3. Len(Append(Elements(tasks), Queued(t, own))) = Len(Elements(tasks)) + 1
        BY <1>2, <2>2
    <2>4. QED BY <1>1, <2>1, <2>2, <2>3, QueueElements
<1>4. SUFFICES ASSUME running', NEW v \in Workers, pc'[v] = "waiting"
               PROVE  QueueSize(tasks') <= Cardinality(OnTheWay')
    BY DEF WakeupsSuffice
<1>5. ~(\A w \in Workers : pc[w] # "waiting")
    <2>1. (\A w \in Workers : pc[w] # "waiting") => pc' = pc
        BY <1>1 DEF NotifyOne
    <2>2. QED BY <1>4, <2>1
<1>6. PICK w \in Workers : pc[w] = "waiting" /\ Goto(w, "lock")
    BY <1>1, <1>5 DEF NotifyOne
<1>7. \A u \in Workers : pc'[u] = IF u = w THEN "lock" ELSE pc[u]
    BY <1>1, <1>6, GotoMoves DEF Labels
<1>8. OnTheWay' = OnTheWay \cup {w} /\ w \notin OnTheWay /\ OnTheWay \in SUBSET Workers
    BY <1>6, <1>7 DEF OnTheWay
<1>9. Cardinality(OnTheWay') = Cardinality(OnTheWay) + 1 /\ Cardinality(OnTheWay) \in Nat
    BY <1>8, OnTheWayFinite, FS_AddElement
<1>10. QueueSize(tasks) <= Cardinality(OnTheWay)
    BY <1>1, <1>4, <1>6 DEF WakeupsSuffice
<1>11. QED BY <1>3, <1>9, <1>10

\* A worker at the mutex sleeps only at an empty queue, or takes one task
\* while it leaves the way to the queue.
LEMMA LockKeepsAwake ==
    ASSUME PoolIInv, WakeupsSuffice, NEW w \in Workers, Lock(w)
    PROVE  WakeupsSuffice'
<1>1. /\ QueueOK(tasks) /\ pc \in [Workers -> Labels] /\ pc[w] = "lock"
      /\ running' = running
    BY DEF PoolIInv, Locals, Lock
<1>2. OnTheWay \in SUBSET Workers /\ OnTheWay' \in SUBSET Workers
    BY DEF OnTheWay
<1>3. /\ Cardinality(OnTheWay) \in Nat /\ Cardinality(OnTheWay') \in Nat
      /\ QueueSize(tasks) \in Nat
    BY <1>1, <1>2, OnTheWayFinite, QueueElements
<1>4. ASSUME QueueEmpty(tasks), tasks' = tasks
      PROVE  WakeupsSuffice'
    <2>1. QueueSize(tasks) = 0
        BY <1>1, <1>4, QueueElements, EmptySeq
    <2>2. QED BY <1>3, <1>4, <2>1 DEF WakeupsSuffice
<1>5. ASSUME ~running
      PROVE  WakeupsSuffice'
    BY <1>1, <1>5 DEF WakeupsSuffice
<1>6. ASSUME ~QueueEmpty(tasks), running, TakeTask(w)
      PROVE  WakeupsSuffice'
    <2>1. QueueSize(tasks') = QueueSize(tasks) - 1
        <3>1. /\ Elements(tasks) \in Seq(Task) /\ Elements(tasks) # <<>>
              /\ QueueOK(tasks') /\ Elements(tasks') = Tail(Elements(tasks))
            BY <1>1, <1>6, QueueElements, QueuePop DEF TakeTask
        <3>2. Len(Tail(Elements(tasks))) = Len(Elements(tasks)) - 1
            BY <3>1, HeadTailProperties
        <3>3. QED BY <1>1, <3>1, <3>2, QueueElements
    <2>2. \A v \in Workers : pc'[v] = IF v = w THEN "count" ELSE pc[v]
        BY <1>1, <1>6, GotoMoves DEF TakeTask, Labels
    <2>3. OnTheWay' = OnTheWay \ {w} /\ w \in OnTheWay
        BY <1>1, <2>2 DEF OnTheWay
    <2>4. Cardinality(OnTheWay') = Cardinality(OnTheWay) - 1
        BY <1>2, <2>3, OnTheWayFinite, FS_RemoveElement
    <2>5. SUFFICES ASSUME NEW v \in Workers, pc'[v] = "waiting"
                   PROVE  QueueSize(tasks') <= Cardinality(OnTheWay')
        BY DEF WakeupsSuffice
    <2>6. QueueSize(tasks) <= Cardinality(OnTheWay)
        BY <1>6, <2>2, <2>5 DEF WakeupsSuffice
    <2>7. QED BY <1>3, <2>1, <2>4, <2>6
<1>7. QED BY <1>4, <1>5, <1>6 DEF Lock

\* A thread_one whose thread starts after its construction polls.
OneAwake ==
    ThreadOne => \A w \in Workers :
        running => /\ pc[w] \notin {"lock", "waiting"}
                   /\ pc[w] # "start" => body[w] = "one_main"

LEMMA OneStaysAwake ==
    ASSUME PoolIInv, OneAwake, ~EarlyStart, [Next]_vars
    PROVE  OneAwake'
<1> SUFFICES ASSUME ThreadOne, NEW w \in Workers, running'
             PROVE  /\ pc'[w] \notin {"lock", "waiting"}
                    /\ pc'[w] # "start" => body'[w] = "one_main"
    BY DEF OneAwake
<1>1. /\ Locals /\ pc \in [Workers -> Labels]
      /\ body \in [Workers -> {"pool_main", "one_main"}]
    BY DEF PoolIInv, Locals
<1>2. \A v \in Workers : v = w
    BY SoleWorker
<1>3. running => /\ pc[w] \notin {"lock", "waiting"}
                 /\ pc[w] # "start" => body[w] = "one_main"
    BY DEF OneAwake
<1>4. CASE Constructed \/ JoinAll \/ UNCHANGED vars
    BY <1>3, <1>4 DEF Constructed, JoinAll, vars
<1>5. CASE Stop
    BY <1>5 DEF Stop
<1>6. CASE \E t \in Tasks, own \in BOOLEAN : RunTask(t, own)
    BY <1>3, <1>6 DEF RunTask, NotifyOne
<1>7. CASE Start(w)
    <2>1. running /\ phase = "running"
        BY <1>1, <1>7 DEF Start, Locals
    <2>2. pc'[w] = "top" /\ body'[w] = "one_main"
        BY <1>1, <1>7, <2>1, GotoMoves DEF Start, Labels
    <2>3. QED BY <2>2
<1>8. CASE Top(w)
    <2>1. running /\ body[w] = "one_main" /\ body' = body
        BY <1>3, <1>8 DEF Top
    <2>2. pc'[w] = "peek"
        BY <1>1, <1>8, <2>1, GotoMoves DEF Top, Labels
    <2>3. QED BY <2>1, <2>2
<1>9. CASE Lock(w) \/ WakeSpuriously(w)
    BY <1>3, <1>9 DEF Lock, WakeSpuriously
<1>10. CASE Peek(w) \/ Take(w) \/ Count(w) \/ Run(w) \/ Uncount(w)
    <2>1. running /\ body' = body /\ pc[w] # "start"
        BY <1>10 DEF Peek, Take, Count, Run, Uncount
    <2>2. \E l \in {"top", "take", "count", "run", "uncount"} : Goto(w, l)
        BY <1>10 DEF Peek, Take, TakeTask, Count, Run, Uncount
    <2>3. pc'[w] \in {"top", "take", "count", "run", "uncount"}
        BY <1>1, <2>2, GotoMoves DEF Labels
    <2>4. QED BY <1>3, <2>1, <2>3
<1>11. QED BY <1>2, <1>4, <1>5, <1>6, <1>7, <1>8, <1>9, <1>10 DEF Next, Step

LEMMA SeveralStayAwake ==
    ASSUME PoolIInv, WakeupsSuffice, ~ThreadOne, ~Forgets(tasks'), [Next]_vars
    PROVE  WakeupsSuffice'
<1>1. /\ Locals /\ QueueOK(tasks) /\ pc \in [Workers -> Labels] /\ QueueSize(tasks) \in Nat
    <2>1. Locals
        BY DEF PoolIInv
    <2>2. QED BY <2>1, QueueElements DEF Locals
<1>2. CASE Constructed \/ JoinAll \/ UNCHANGED vars
    BY <1>1, <1>2, NobodySleeps DEF Constructed, JoinAll, vars
<1>3. CASE Stop
    BY <1>3 DEF Stop, WakeupsSuffice
<1>4. CASE \E t \in Tasks, own \in BOOLEAN : RunTask(t, own)
    BY <1>4, PostWakes
<1>5. ASSUME NEW w \in Workers, Step(w) \/ WakeSpuriously(w)
      PROVE  WakeupsSuffice'
    <2>1. ASSUME NEW l \in Labels \ {"waiting"}, Goto(w, l), UNCHANGED <<running, tasks>>,
                 pc[w] \in {"start", "top", "lock"} => l \in {"start", "top", "lock"}
          PROVE  WakeupsSuffice'
        <3>1. \A v \in Workers : pc'[v] = IF v = w THEN l ELSE pc[v]
            BY <1>1, <2>1, GotoMoves
        <3>2. QED BY <1>1, <2>1, <3>1, NobodySleeps
    <2>2. body[w] = "pool_main" /\ pc[w] \notin {"peek", "take"}
        BY <1>1 DEF Locals
    <2>3. CASE Start(w)
        BY <2>1, <2>3 DEF Start, Labels
    <2>4. CASE Top(w)
        <3>1. CASE running
            BY <2>1, <2>2, <2>4, <3>1 DEF Top, Labels
        <3>2. CASE ~running
            BY <2>4, <3>2 DEF Top, WakeupsSuffice
        <3>3. QED BY <3>1, <3>2
    <2>5. CASE Lock(w)
        BY <2>5, LockKeepsAwake
    <2>6. CASE Peek(w) \/ Take(w)
        BY <2>2, <2>6 DEF Peek, Take
    <2>7. CASE Count(w)
        BY <2>1, <2>7 DEF Count, Labels
    <2>8. CASE Run(w)
        BY <2>1, <2>8 DEF Run, Labels
    <2>9. CASE Uncount(w)
        BY <2>1, <2>9 DEF Uncount, Labels
    <2>10. CASE WakeSpuriously(w)
        BY <2>1, <2>10 DEF WakeSpuriously, Labels
    <2>11. QED BY <1>5, <2>3, <2>4, <2>5, <2>6, <2>7, <2>8, <2>9, <2>10 DEF Step
<1>6. QED BY <1>2, <1>3, <1>4, <1>5 DEF Next

\* WakeupsSuffice: with several workers, or with one that starts after the
\* construction, no wake-up is lost while the queue forgets no task.
THEOREM WakeupsSufficeHolds ==
    ASSUME ThreadOne => ~EarlyStart
    PROVE  Spec /\ []~Forgets(tasks) => []WakeupsSuffice
<1>1. CASE ~ThreadOne
    <2>1. Init => WakeupsSuffice
        BY DEF Init, WakeupsSuffice
    <2>2. PoolIInv /\ WakeupsSuffice /\ [Next]_vars /\ ~Forgets(tasks)' => WakeupsSuffice'
        BY <1>1, SeveralStayAwake
    <2>3. QED BY <2>1, <2>2, PoolInvariant, PTL DEF Spec
<1>2. CASE ThreadOne
    <2>1. Init => OneAwake
        BY DEF Init, OneAwake
    <2>2. PoolIInv /\ OneAwake /\ [Next]_vars => OneAwake'
        BY <1>2, OneStaysAwake
    <2>3. OneAwake => WakeupsSuffice
        BY <1>2 DEF OneAwake, WakeupsSuffice
    <2>4. QED BY <2>1, <2>2, <2>3, PoolInvariant, PTL DEF Spec
<1>3. QED BY <1>1, <1>2

-----------------------------------------------------------------------------

(***************************************************************************)
(* The owner.                                                              *)
(***************************************************************************)

\* What the owner does to the pool are steps of the pool.
LEMMA JoinStepIsPoolStep ==
    ASSUME job \in Nat \ {0}, [JoinNext]_joinVars
    PROVE  [Next]_vars
<1>1. CASE Post
    <2>1. Len(Jobs) \in Nat /\ (job <= Len(Jobs) => Jobs[job] \in Tasks)
        BY JobAssumption, LenProperties, ElementOfSeq
    <2>2. Own \in BOOLEAN
        BY PoolAssumption DEF Own
    <2>3. QED BY <1>1, <2>1, <2>2 DEF Post, Next
<1>2. QED BY <1>1 DEF JoinNext, Owner, Posted, TaskCount, WorkingCount, Delete, joinVars, Next

LEMMA JoiningKeeps ==
    ASSUME PoolIInv, Counting, Joining, [JoinNext]_joinVars
    PROVE  Joining'
<1>1. /\ Locals /\ pc \in [Workers -> Labels] /\ QueueOK(tasks) /\ PeekStaysTrue
    BY DEF PoolIInv, Locals
<1>2. (QueueEmpty(tasks) <=> Elements(tasks) = <<>>) /\ ~Forgets(tasks)
    BY <1>1, QueueElements
<1>3. CASE Post
    <2>1. mainPc = "post" /\ mainPc' = "post"
        BY <1>3 DEF Post
    <2>2. job' \in Nat \ {0}
        BY <1>3 DEF Post, Joining
    <2>3. QED BY <2>1, <2>2 DEF Joining
<1>4. CASE Posted
    BY <1>4 DEF Posted, Joining
<1>5. CASE TaskCount
    <2>1. QueueSize(tasks) = 0 => Elements(tasks) = <<>>
        <3>1. Elements(tasks) \in Seq(Task) /\ QueueSize(tasks) = Len(Elements(tasks))
            BY <1>1, QueueElements
        <3>2. QED BY <3>1, EmptySeq
    <2>2. mainPc' \in {"tasks", "working"} /\ (mainPc' = "working" => QueueSize(tasks) = 0)
        BY <1>5 DEF TaskCount
    <2>3. (\A w \in Workers : pc[w] # "count") /\ UNCHANGED <<vars, job>>
        BY <1>5 DEF TaskCount, MutexFree
    <2>4. QED BY <2>1, <2>2, <2>3 DEF Joining, vars
<1>6. CASE WorkingCount
    <2>1. /\ mainPc = "working" /\ mainPc' \in {"joined", "tasks"}
          /\ mainPc' = "joined" => working = 0
          /\ UNCHANGED <<vars, job>>
        BY <1>6 DEF WorkingCount
    <2>2. working = 0 => InHand = {}
        <3>1. \A w \in Workers : pc[w] # "count"
            BY <2>1 DEF Joining
        <3>2. \A w \in Workers : pc[w] \in {"run", "uncount"} => working = 1
            BY DEF Counting
        <3>3. QED BY <3>1, <3>2 DEF InHand
    <2>3. QED BY <2>1, <2>2 DEF Joining, vars, InHand
<1>7. CASE Delete
    <2>1. /\ mainPc = "joined" /\ UNCHANGED <<mainPc, job, tasks>>
          /\ pc' = [w \in Workers |-> IF pc[w] = "waiting" THEN "lock" ELSE pc[w]]
        BY <1>7 DEF Delete, Stop
    <2>2. InHand' = InHand /\ \A w \in Workers : pc'[w] = "count" => pc[w] = "count"
        BY <2>1 DEF InHand
    <2>3. QED BY <2>1, <2>2 DEF Joining
<1>8. CASE (Constructed \/ JoinAll) /\ UNCHANGED <<mainPc, job, tries>>
    BY <1>8 DEF Constructed, JoinAll, Joining, InHand
<1>9. ASSUME NEW w \in Workers, Step(w) \/ WakeSpuriously(w), UNCHANGED <<mainPc, job, tries>>
      PROVE  Joining'
    <2>1. SUFFICES ASSUME mainPc \in {"working", "joined"}
                   PROVE  /\ Elements(tasks)' = <<>>
                          /\ \A v \in Workers : pc'[v] # "count"
                          /\ mainPc = "joined" => InHand' = {}
        BY <1>9 DEF Joining
    <2>2. /\ Elements(tasks) = <<>> /\ QueueEmpty(tasks) /\ \A v \in Workers : pc[v] # "count"
          /\ mainPc = "joined" => InHand = {}
        BY <1>2, <2>1 DEF Joining
    <2>3. ~Take(w) /\ ~Count(w)
        BY <1>1, <1>2, <2>2 DEF Take, Count, PeekStaysTrue
    <2>4. \A l \in Labels \ {"count"} :
              Goto(w, l) /\ tasks' = tasks /\ (l \in {"run", "uncount"} => w \in InHand)
                  => /\ Elements(tasks)' = <<>>
                     /\ \A v \in Workers : pc'[v] # "count"
                     /\ mainPc = "joined" => InHand' = {}
        <3> SUFFICES ASSUME NEW l \in Labels \ {"count"}, Goto(w, l), tasks' = tasks,
                            l \in {"run", "uncount"} => w \in InHand
                     PROVE  /\ Elements(tasks)' = <<>>
                            /\ \A v \in Workers : pc'[v] # "count"
                            /\ mainPc = "joined" => InHand' = {}
            OBVIOUS
        <3>1. \A v \in Workers : pc'[v] = IF v = w THEN l ELSE pc[v]
            BY <1>1, GotoMoves
        <3>2. InHand' \subseteq InHand
            BY <3>1 DEF InHand
        <3>3. QED BY <2>2, <3>1, <3>2
    <2>5. CASE Start(w)
        BY <2>4, <2>5 DEF Start, Labels
    <2>6. CASE Top(w)
        <3> DEFINE l == IF ~running THEN "done" ELSE IF body[w] = "one_main" THEN "peek" ELSE "lock"
        <3>1. l \in Labels \ {"count", "run", "uncount"} /\ Goto(w, l) /\ tasks' = tasks
            BY <2>6 DEF Top, Labels
        <3> HIDE DEF l
        <3>2. QED BY <2>4, <3>1
    <2>7. CASE Lock(w)
        BY <2>2, <2>4, <2>7 DEF Lock, Labels
    <2>8. CASE Peek(w)
        BY <2>2, <2>4, <2>8 DEF Peek, Labels
    <2>9. CASE Run(w)
        <3>1. w \in InHand
            BY <2>9 DEF Run, InHand
        <3>2. QED BY <2>4, <2>9, <3>1 DEF Run, Labels
    <2>10. CASE Uncount(w)
        BY <2>4, <2>10 DEF Uncount, Labels
    <2>11. CASE WakeSpuriously(w)
        BY <2>4, <2>11 DEF WakeSpuriously, Labels
    <2>12. QED BY <1>9, <2>3, <2>5, <2>6, <2>7, <2>8, <2>9, <2>10, <2>11 DEF Step
<1>10. CASE UNCHANGED joinVars
    BY <1>10 DEF joinVars, vars, Joining, InHand
<1>11. QED BY <1>3, <1>4, <1>5, <1>6, <1>7, <1>8, <1>9, <1>10 DEF JoinNext, Owner

\* Only a post makes a queue forget.
LEMMA OnlyPostForgets ==
    ASSUME PoolIInv, [JoinNext]_joinVars, ~Post
    PROVE  PoolIInv'
<1>1. CASE \E w \in Workers : Step(w) \/ WakeSpuriously(w)
    BY <1>1, WorkerKeeps
<1>2. CASE Constructed
    BY <1>2, ConstructedKeeps
<1>3. CASE JoinAll
    BY <1>3, JoinAllKeeps
<1>4. CASE Delete
    BY <1>4, StopKeeps DEF Delete
<1>5. CASE UNCHANGED vars
    BY <1>5 DEF vars, PoolIInv, Locals, Handed, InHand, Taken, PeekStaysTrue
<1>6. QED BY <1>1, <1>2, <1>3, <1>4, <1>5 DEF JoinNext, Owner, Posted, TaskCount, WorkingCount, joinVars

\* An owner whose pool has forgotten tasks goes on asking for them.
LEMMA StuckStays ==
    ASSUME Stuck, [Next]_vars, [JoinNext]_joinVars
    PROVE  Stuck'
<1>1. Lossy(tasks)'
    BY LossyStays DEF Stuck
<1>2. QueueSize(tasks) # 0
    BY LossyCounts DEF Stuck
<1>3. mainPc' \in {"post", "tasks"}
    BY <1>2 DEF Stuck, JoinNext, Owner, Post, Posted, TaskCount, WorkingCount, Delete, joinVars
<1>4. QED BY <1>1, <1>3 DEF Stuck

\* JoinedMeansDone: when the owner of a pool of one thread, over a queue of any
\* size, has seen no task and then no working thread, every accepted task was
\* called.
THEOREM JoinedMeansDoneHolds ==
    ASSUME ThreadOne
    PROVE  JoinSpec => []JoinedMeansDone
<1> DEFINE Inv == Counting /\ job \in Nat \ {0} /\ ((PoolIInv /\ Joining) \/ Stuck)
<1>1. JoinInit => Inv
    BY PoolStarts, CountingStarts DEF JoinInit, Joining
<1>2. Inv /\ [JoinNext]_joinVars => Inv'
    <2> SUFFICES ASSUME Inv, [JoinNext]_joinVars
                 PROVE  Inv'
        OBVIOUS
    <2>1. [Next]_vars
        BY JoinStepIsPoolStep
    <2>2. Counting'
        BY <2>1, CountingKeeps
    <2>3. job' \in Nat \ {0}
        BY DEF JoinNext, Owner, Post, Posted, TaskCount, WorkingCount, Delete, joinVars
    <2>4. CASE PoolIInv /\ Joining
        <3>1. PoolIInv' \/ Lossy(tasks)'
            BY <2>1, <2>4, PoolStepKeeps
        <3>2. Joining'
            BY <2>4, JoiningKeeps
        <3>3. ASSUME Lossy(tasks)', ~PoolIInv' PROVE mainPc' \in {"post", "tasks"}
            <4>1. CASE Post
                BY <4>1 DEF Post
            <4>2. CASE ~Post
                <5>1. PoolIInv'
                    BY <2>4, <4>2, OnlyPostForgets
                <5>2. QED BY <3>3, <5>1
            <4>3. QED BY <4>1, <4>2
        <3>4. QED BY <2>2, <2>3, <3>1, <3>2, <3>3 DEF Stuck
    <2>5. CASE Stuck
        <3>1. Stuck'
            BY <2>1, <2>5, StuckStays
        <3>2. QED BY <2>2, <2>3, <3>1
    <2>6. QED BY <2>4, <2>5
<1>3. Inv => JoinedMeansDone
    <2> SUFFICES ASSUME Inv, mainPc = "joined", NEW i \in 1..Len(accepted)
                 PROVE  called[accepted[i].arg] # "none"
        BY DEF JoinedMeansDone
    <2>1. PoolIInv /\ Joining
        BY DEF Stuck
    <2>2. Elements(tasks) = <<>> /\ InHand = {} /\ Handed /\ accepted \in Seq(Task)
        BY <2>1 DEF PoolIInv, Locals, Joining
    <2>3. Taken = Len(accepted)
        BY <2>2, EmptySeq DEF Taken
    <2>4. QED BY <2>2, <2>3 DEF Handed
<1> HIDE DEF Inv
<1>4. QED BY <1>1, <1>2, <1>3, PTL DEF JoinSpec
=============================================================================

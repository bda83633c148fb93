----------------------------- MODULE ContainerProofs -----------------------------
(***************************************************************************)
(* The pools side by side, as the library offers them, its array and its   *)
(* hash tables.                                                            *)
(***************************************************************************)
EXTENDS Library, PoolProofs, SequenceTheorems

\* What the library does to its pools are steps of their users.
LEMMA LibraryUsesPools == LibrarySpec => Spec /\ SetSpecOnce /\ MultiSpec
<1>1. LibraryInit => Init /\ SetInit /\ MultiInit
    BY DEF LibraryInit
<1>2. [LibraryNext]_libraryVars => [Next]_vars
    BY DEF LibraryNext, libraryVars, UseFifo, UseSet, UseMulti, UseTree, UseHash, UseList, UseArray
<1>3. [LibraryNext]_libraryVars => [SetNextOnce]_setVars
    BY DEF LibraryNext, libraryVars, UseFifo, UseSet, UseMulti, UseTree, UseHash, UseList, UseArray
<1>4. [LibraryNext]_libraryVars => [MultiNext]_multiVars
    BY DEF LibraryNext, libraryVars, UseFifo, UseSet, UseMulti, UseTree, UseHash, UseList, UseArray
<1>5. QED BY <1>1, <1>2, <1>3, <1>4, PTL DEF LibrarySpec, Spec, SetSpecOnce, MultiSpec

\* PoolsInv: with any user, up to the request that a pool answers with memory
\* in use, blocks and slots in use never overlap and the sizes the pools report
\* are those of what is in use, but for a MultiSizePool that gave its free rest
\* away: its size is short of that rest, and it has nothing left to give.
THEOREM PoolsInvHolds == LibrarySpec => []PoolsInv
<1>1. QED BY LibraryUsesPools, FifoInvHolds, SetInvHolds, MultiInvHolds, PTL DEF PoolsInv

-----------------------------------------------------------------------------

(***************************************************************************)
(* DynamicArray: the cells of the buffer, operator by operator.            *)
(***************************************************************************)

\* An array whose operations went well so far.
Arr(data, size, growBy) ==
    [data |-> data, size |-> size, growBy |-> growBy, misused |-> FALSE]

\* A buffer of n cells with the elements of s.
Buffer(s, n) == [i \in 1..n |-> IF i <= Len(s) THEN s[i] ELSE Raw]

Holds(a, s) ==
    /\ s \in Seq(Nat)
    /\ \E n \in Nat, g \in Nat : n >= Len(s) /\ a = Arr(Buffer(s, n), Len(s), g)

Arrays(S, T, U) == [data: S, size: T, growBy: U, misused: BOOLEAN]

LEMMA ArrFields ==
    ASSUME NEW f, NEW size, NEW g
    PROVE  /\ Arr(f, size, g).data = f /\ Arr(f, size, g).size = size
           /\ Arr(f, size, g).growBy = g /\ ~Arr(f, size, g).misused
    BY DEF Arr

\* An array is what its fields are.
LEMMA ArrIs ==
    ASSUME NEW S, NEW T, NEW U, NEW a \in Arrays(S, T, U), ~a.misused
    PROVE  a = Arr(a.data, a.size, a.growBy)
<1>1. a.misused = FALSE
    BY DEF Arrays
<1>2. QED BY <1>1 DEF Arrays, Arr

WithData(a, d) == [a EXCEPT !.data = d]
WithCells(a, d) == [a EXCEPT !.data = d, !.misused = FALSE]
WithDataSize(a, d, z) == [a EXCEPT !.data = d, !.size = z]
WithSize(a, z) == [a EXCEPT !.size = z]
WithGrowth(a, z) == [a EXCEPT !.growBy = z]

\* What is changed in the record.
LEMMA ArrData ==
    ASSUME NEW f, NEW size, NEW g, NEW d
    PROVE  WithData(Arr(f, size, g), d) = Arr(d, size, g)
<1> DEFINE a == Arr(f, size, g)
           b == WithData(a, d)
<1>1. /\ a \in Arrays({f}, {size}, {g})
      /\ a.data = f /\ a.size = size /\ a.growBy = g /\ ~a.misused
    BY DEF Arr, Arrays
<1> HIDE DEF a
<1>2. /\ b \in Arrays({d}, {size}, {g}) /\ ~b.misused
      /\ b.data = d /\ b.size = size /\ b.growBy = g
    BY <1>1 DEF Arrays, WithData
<1> HIDE DEF b
<1>3. b = Arr(b.data, b.size, b.growBy)
    BY <1>2, ArrIs
<1>4. QED BY <1>2, <1>3 DEF a, b

LEMMA ArrCells ==
    ASSUME NEW f, NEW size, NEW g, NEW d
    PROVE  WithCells(Arr(f, size, g), d) = Arr(d, size, g)
<1> DEFINE a == Arr(f, size, g)
           b == WithCells(a, d)
<1>1. /\ a \in Arrays({f}, {size}, {g})
      /\ a.data = f /\ a.size = size /\ a.growBy = g /\ ~a.misused
    BY DEF Arr, Arrays
<1> HIDE DEF a
<1>2. /\ b \in Arrays({d}, {size}, {g}) /\ ~b.misused
      /\ b.data = d /\ b.size = size /\ b.growBy = g
    BY <1>1 DEF Arrays, WithCells
<1> HIDE DEF b
<1>3. b = Arr(b.data, b.size, b.growBy)
    BY <1>2, ArrIs
<1>4. QED BY <1>2, <1>3 DEF a, b

LEMMA ArrDataSize ==
    ASSUME NEW f, NEW size, NEW g, NEW d, NEW z
    PROVE  WithDataSize(Arr(f, size, g), d, z) = Arr(d, z, g)
<1> DEFINE a == Arr(f, size, g)
           b == WithDataSize(a, d, z)
<1>1. /\ a \in Arrays({f}, {size}, {g})
      /\ a.data = f /\ a.size = size /\ a.growBy = g /\ ~a.misused
    BY DEF Arr, Arrays
<1> HIDE DEF a
<1>2. /\ b \in Arrays({d}, {z}, {g}) /\ ~b.misused
      /\ b.data = d /\ b.size = z /\ b.growBy = g
    BY <1>1 DEF Arrays, WithDataSize
<1> HIDE DEF b
<1>3. b = Arr(b.data, b.size, b.growBy)
    BY <1>2, ArrIs
<1>4. QED BY <1>2, <1>3 DEF a, b

LEMMA ArrSize ==
    ASSUME NEW f, NEW size, NEW g, NEW z
    PROVE  WithSize(Arr(f, size, g), z) = Arr(f, z, g)
<1> DEFINE a == Arr(f, size, g)
           b == WithSize(a, z)
<1>1. /\ a \in Arrays({f}, {size}, {g})
      /\ a.data = f /\ a.size = size /\ a.growBy = g /\ ~a.misused
    BY DEF Arr, Arrays
<1> HIDE DEF a
<1>2. /\ b \in Arrays({f}, {z}, {g}) /\ ~b.misused
      /\ b.data = f /\ b.size = z /\ b.growBy = g
    BY <1>1 DEF Arrays, WithSize
<1> HIDE DEF b
<1>3. b = Arr(b.data, b.size, b.growBy)
    BY <1>2, ArrIs
<1>4. QED BY <1>2, <1>3 DEF a, b

LEMMA ArrGrowth ==
    ASSUME NEW f, NEW size, NEW g, NEW z
    PROVE  WithGrowth(Arr(f, size, g), z) = Arr(f, size, z)
<1> DEFINE a == Arr(f, size, g)
           b == WithGrowth(a, z)
<1>1. /\ a \in Arrays({f}, {size}, {g})
      /\ a.data = f /\ a.size = size /\ a.growBy = g /\ ~a.misused
    BY DEF Arr, Arrays
<1> HIDE DEF a
<1>2. /\ b \in Arrays({f}, {size}, {z}) /\ ~b.misused
      /\ b.data = f /\ b.size = size /\ b.growBy = z
    BY <1>1 DEF Arrays, WithGrowth
<1> HIDE DEF b
<1>3. b = Arr(b.data, b.size, b.growBy)
    BY <1>2, ArrIs
<1>4. QED BY <1>2, <1>3 DEF a, b

IsBuffer(f, n) == n \in Nat /\ f \in [1..n -> Int]

LEMMA BufferLength ==
    ASSUME NEW n, NEW f, IsBuffer(f, n)
    PROVE  f \in Seq(Int) /\ Len(f) = n /\ DOMAIN f = 1..n
<1> USE DEF IsBuffer
<1>1. f \in Seq(Int)
    BY IsASeq
<1>2. QED BY <1>1, LenProperties

\* The cells I of f get the value v; those from first to last move by d.
Put(f, I, v) == [i \in DOMAIN f |-> IF i \in I THEN v ELSE f[i]]

Moved(f, first, last, d) ==
    [i \in DOMAIN f |-> IF i - d \in first..last THEN f[i - d]
                        ELSE IF i \in first..last THEN Raw ELSE f[i]]

AllRaw(f, n, I) == I \subseteq 1..n /\ \A i \in I : f[i] = Raw

NoneRaw(f, n, I) == I \subseteq 1..n /\ \A i \in I : f[i] # Raw

\* The cells from first to last, and where they go, are cells of f, and there
\* is nothing in their way.
CanMove(f, n, first, last, d) ==
    /\ first \in Int /\ last \in Int /\ d \in Int
    /\ \A i \in first..last : i \in 1..n /\ i + d \in 1..n
    /\ \A i \in 1..n : (i - d \in first..last /\ i \notin first..last) => f[i] = Raw

LEMMA PutIs ==
    ASSUME NEW n, NEW f, IsBuffer(f, n), NEW I, NEW v \in Int
    PROVE  /\ IsBuffer(Put(f, I, v), n)
           /\ \A i \in 1..n : Put(f, I, v)[i] = IF i \in I THEN v ELSE f[i]
    BY DEF Put, IsBuffer

LEMMA MovedIs ==
    ASSUME NEW n, NEW f, IsBuffer(f, n), NEW first, NEW last, NEW d,
           CanMove(f, n, first, last, d)
    PROVE  /\ IsBuffer(Moved(f, first, last, d), n)
           /\ \A i \in 1..n : Moved(f, first, last, d)[i] =
                  IF i - d \in first..last THEN f[i - d]
                  ELSE IF i \in first..last THEN Raw ELSE f[i]
<1> DEFINE m == Moved(f, first, last, d)
<1>1. n \in Nat /\ f \in [1..n -> Int]
    BY DEF IsBuffer
<1>2. /\ m = [i \in 1..n |-> m[i]]
      /\ \A i \in 1..n : m[i] = IF i - d \in first..last THEN f[i - d]
                               ELSE IF i \in first..last THEN Raw ELSE f[i]
    BY <1>1 DEF Moved
<1> HIDE DEF m
<1>3. \A i \in 1..n : m[i] \in Int
    BY <1>1, <1>2 DEF Raw, CanMove
<1>4. m \in [1..n -> Int]
    BY <1>2, <1>3
<1>5. QED BY <1>1, <1>2, <1>4 DEF m, IsBuffer

LEMMA BuildsCells ==
    ASSUME NEW n, NEW f, IsBuffer(f, n), NEW size, NEW g, NEW I, AllRaw(f, n, I), NEW v
    PROVE  Build(Arr(f, size, g), I, v) = Arr(Put(f, I, v), size, g)
<1> DEFINE a == Arr(f, size, g)
<1>1. a.data = f /\ ~a.misused
    BY ArrFields
<1> HIDE DEF a
<1>2. Live(a, I) = {}
    BY <1>1 DEF Live, AllRaw
<1>3. Build(a, I, v) = WithCells(a, Put(f, I, v))
    BY <1>1, <1>2 DEF Build, WithCells, Put
<1>4. QED BY <1>3, ArrCells DEF a

LEMMA AssignsCells ==
    ASSUME NEW n, NEW f, IsBuffer(f, n), NEW size, NEW g, NEW I, NoneRaw(f, n, I), NEW v
    PROVE  Assign(Arr(f, size, g), I, v) = Arr(Put(f, I, v), size, g)
<1> DEFINE a == Arr(f, size, g)
<1>1. a.data = f /\ ~a.misused
    BY ArrFields
<1> HIDE DEF a
<1>2. Live(a, I) = I
    BY <1>1 DEF Live, NoneRaw
<1>3. Assign(a, I, v) = WithCells(a, Put(f, I, v))
    BY <1>1, <1>2 DEF Assign, WithCells, Put
<1>4. QED BY <1>3, ArrCells DEF a

LEMMA RelocatesCells ==
    ASSUME NEW n, NEW f, IsBuffer(f, n), NEW size, NEW g,
           NEW first, NEW last, NEW count, last = first + count - 1, NEW d,
           CanMove(f, n, first, last, d)
    PROVE  Relocate(Arr(f, size, g), first, count, d) = Arr(Moved(f, first, last, d), size, g)
<1> DEFINE src == first..last
           dst == {i + d : i \in src}
           a == Arr(f, size, g)
           d0 == [i \in DOMAIN f |-> IF i \in dst THEN f[i - d] ELSE IF i \in src THEN Raw ELSE f[i]]
<1> USE DEF CanMove
<1>1. DOMAIN f = 1..n
    BY DEF IsBuffer
<1>2. \A i \in Int : i \in dst <=> i - d \in src
    OBVIOUS
<1>3. dst \subseteq 1..n
    OBVIOUS
<1>4. a.data = f /\ ~a.misused
    BY ArrFields
<1> HIDE DEF a
<1>5. Live(a, dst \ src) = {}
    <2> SUFFICES ASSUME NEW i \in dst, i \notin src PROVE f[i] = Raw
        BY <1>4 DEF Live
    <2>1. i \in 1..n
        BY <1>3
    <2>2. i - d \in src
        BY <2>1, <1>2 DEF IsBuffer
    <2>3. QED BY <2>1, <2>2
<1>6. d0 = Moved(f, first, last, d)
    BY <1>1, <1>2 DEF Moved
<1>7. Relocate(a, first, count, d) = WithCells(a, d0)
    BY <1>1, <1>4, <1>5 DEF Relocate, WithCells
<1> HIDE DEF d0
<1>8. QED BY <1>6, <1>7, ArrCells DEF a

-----------------------------------------------------------------------------

(***************************************************************************)
(* The sequences.                                                          *)
(***************************************************************************)

LEMMA FilledIs ==
    ASSUME NEW s \in Seq(Nat), NEW n \in Nat
    PROVE  /\ Filled(s, n) \in Seq(Nat)
           /\ Len(Filled(s, n)) = Larger(Len(s), n)
           /\ \A i \in 1..Len(Filled(s, n)) : Filled(s, n)[i] = IF i <= Len(s) THEN s[i] ELSE Default
<1> DEFINE k == Larger(n - Len(s), 0)
           t == [i \in 1..k |-> Default]
<1>1. Len(s) \in Nat
    BY LenProperties
<1>2. k \in Nat /\ Len(s) + k = Larger(Len(s), n)
    BY <1>1 DEF Larger
<1> HIDE DEF k
<1>3. t \in Seq(Nat)
    BY <1>2, IsASeq, ArrayAssumption
<1>4. Len(t) = k /\ \A i \in 1..k : t[i] = Default
    BY <1>2, <1>3, LenProperties
<1> HIDE DEF t
<1>5. /\ s \o t \in Seq(Nat) /\ Len(s \o t) = Len(s) + k
      /\ \A i \in 1..(Len(s) + k) : (s \o t)[i] = IF i <= Len(s) THEN s[i] ELSE t[i - Len(s)]
    BY <1>3, <1>4, ConcatProperties
<1>6. \A i \in 1..(Len(s) + k) : (s \o t)[i] = IF i <= Len(s) THEN s[i] ELSE Default
    <2> TAKE i \in 1..(Len(s) + k)
    <2>1. ~(i <= Len(s)) => i - Len(s) \in 1..k
        BY <1>1, <1>2
    <2>2. QED BY <2>1, <1>4, <1>5
<1>7. Filled(s, n) = s \o t
    BY DEF Filled, k, t
<1>8. QED BY <1>2, <1>5, <1>6, <1>7

\* A part of a sequence.
LEMMA PartIs ==
    ASSUME NEW s \in Seq(Nat), NEW m \in Nat \ {0}, NEW n \in Nat, n <= Len(s), m <= n + 1
    PROVE  /\ SubSeq(s, m, n) \in Seq(Nat) /\ Len(SubSeq(s, m, n)) = n - m + 1
           /\ \A i \in 1..(n - m + 1) : SubSeq(s, m, n)[i] = s[m + i - 1]
<1>1. Len(s) \in Nat
    BY LenProperties
<1>2. \A i \in m..n : s[i] \in Nat
    <2> TAKE i \in m..n
    <2>1. i \in 1..Len(s)
        BY <1>1
    <2>2. QED BY <2>1, ElementOfSeq
<1>3. QED BY <1>2, SubSeqProperties

LEMMA ConstantSeq ==
    ASSUME NEW v \in Nat, NEW n \in Nat
    PROVE  /\ [i \in 1..n |-> v] \in Seq(Nat) /\ Len([i \in 1..n |-> v]) = n
           /\ \A i \in 1..n : [j \in 1..n |-> v][i] = v
<1> DEFINE t == [i \in 1..n |-> v]
<1>1. t \in Seq(Nat)
    BY IsASeq
<1>2. Len(t) = n
    BY <1>1, LenProperties
<1>3. QED BY <1>1, <1>2

\* The results of the edits, element by element.
IsCounted(t, s, n) ==
    /\ t \in Seq(Nat) /\ Len(t) = n
    /\ \A i \in 1..n : t[i] = IF i <= Len(s) THEN s[i] ELSE Default

IsInserted(t, w, at, v, n) ==
    /\ t \in Seq(Nat) /\ Len(t) = Len(w) + n
    /\ \A i \in 1..(Len(w) + n) :
           t[i] = IF i < at THEN w[i] ELSE IF i < at + n THEN v ELSE w[i - n]

IsRemoved(t, s, at, n) ==
    /\ t \in Seq(Nat) /\ Len(t) = Len(s) - n
    /\ \A i \in 1..(Len(s) - n) : t[i] = IF i < at THEN s[i] ELSE s[i + n]

LEMMA CountedEdit ==
    ASSUME NEW s \in Seq(Nat), NEW n \in Nat
    PROVE  IsCounted(Edited(s, [name |-> "SetCount", n |-> n]), s, n)
<1> DEFINE m == IF n < Len(s) THEN n ELSE Len(s)
           p == SubSeq(s, 1, m)
<1>1. Len(s) \in Nat /\ m \in Nat /\ m <= Len(s) /\ m <= n
    BY LenProperties
<1> HIDE DEF m
<1>2. /\ p \in Seq(Nat) /\ Len(p) = m
      /\ \A i \in 1..m : p[i] = s[i]
    BY <1>1, PartIs
<1>3. Edited(s, [name |-> "SetCount", n |-> n]) = Filled(p, n)
    BY DEF Edited, m
<1> HIDE DEF p
<1>4. /\ Filled(p, n) \in Seq(Nat) /\ Len(Filled(p, n)) = Larger(m, n)
      /\ \A i \in 1..Larger(m, n) : Filled(p, n)[i] = IF i <= m THEN p[i] ELSE Default
    BY <1>2, FilledIs
<1>5. Larger(m, n) = n
    BY <1>1 DEF Larger
<1>6. \A i \in 1..n : Filled(p, n)[i] = IF i <= Len(s) THEN s[i] ELSE Default
    <2> TAKE i \in 1..n
    <2>1. i <= m <=> i <= Len(s)
        BY <1>1 DEF m
    <2>2. i <= m => p[i] = s[i]
        BY <1>1, <1>2
    <2>3. QED BY <2>1, <2>2, <1>4, <1>5
<1>7. QED BY <1>3, <1>4, <1>5, <1>6 DEF IsCounted

LEMMA InsertedEdit ==
    ASSUME NEW s \in Seq(Nat), NEW at \in Nat \ {0}, NEW v \in Nat, NEW n \in Nat
    PROVE  IsInserted(Edited(s, [name |-> "Insert", at |-> at, value |-> v, n |-> n]),
                      Filled(s, at - 1), at, v, n)
<1> DEFINE w == Filled(s, at - 1)
           a == SubSeq(w, 1, at - 1)
           b == [i \in 1..n |-> v]
           z == SubSeq(w, at, Len(w))
<1>1. w \in Seq(Nat) /\ Len(w) \in Nat /\ at - 1 <= Len(w)
    <2>1. Len(s) \in Nat
        BY LenProperties
    <2>2. w \in Seq(Nat) /\ Len(w) = Larger(Len(s), at - 1)
        BY FilledIs
    <2>3. QED BY <2>1, <2>2 DEF Larger
<1>2. Edited(s, [name |-> "Insert", at |-> at, value |-> v, n |-> n]) = a \o b \o z
    BY DEF Edited
<1> HIDE DEF w
<1>3. /\ a \in Seq(Nat) /\ Len(a) = at - 1
      /\ \A i \in 1..(at - 1) : a[i] = w[i]
    BY <1>1, PartIs
<1>4. /\ z \in Seq(Nat) /\ Len(z) = Len(w) - at + 1
      /\ \A i \in 1..(Len(w) - at + 1) : z[i] = w[at + i - 1]
    BY <1>1, PartIs
<1>5. /\ b \in Seq(Nat) /\ Len(b) = n /\ \A i \in 1..n : b[i] = v
    BY ConstantSeq
<1> HIDE DEF a, b, z
<1>6. /\ a \o b \in Seq(Nat) /\ Len(a \o b) = at - 1 + n
      /\ \A i \in 1..(at - 1 + n) : (a \o b)[i] = IF i <= at - 1 THEN a[i] ELSE b[i - (at - 1)]
    BY <1>3, <1>5, ConcatProperties
<1>7. /\ (a \o b) \o z \in Seq(Nat) /\ Len((a \o b) \o z) = Len(w) + n
      /\ \A i \in 1..(Len(w) + n) :
             ((a \o b) \o z)[i] = IF i <= at - 1 + n THEN (a \o b)[i] ELSE z[i - (at - 1 + n)]
    <2>1. at - 1 + n + (Len(w) - at + 1) = Len(w) + n
        BY <1>1
    <2>2. /\ (a \o b) \o z \in Seq(Nat) /\ Len((a \o b) \o z) = Len(a \o b) + Len(z)
          /\ \A i \in 1..(Len(a \o b) + Len(z)) :
                 ((a \o b) \o z)[i] = IF i <= Len(a \o b) THEN (a \o b)[i] ELSE z[i - Len(a \o b)]
        BY <1>4, <1>6, ConcatProperties
    <2>3. Len(a \o b) = at - 1 + n /\ Len(a \o b) + Len(z) = Len(w) + n
        BY <1>4, <1>6, <2>1
    <2>4. QED BY <2>2, <2>3
<1>8. \A i \in 1..(Len(w) + n) :
          ((a \o b) \o z)[i] = IF i < at THEN w[i] ELSE IF i < at + n THEN v ELSE w[i - n]
    <2> TAKE i \in 1..(Len(w) + n)
    <2>1. CASE i < at
        <3>1. i \in 1..(at - 1) /\ i \in 1..(at - 1 + n) /\ i <= at - 1 + n
            BY <2>1, <1>1
        <3>2. QED BY <2>1, <3>1, <1>3, <1>6, <1>7
    <2>2. CASE at <= i /\ i < at + n
        <3>1. i \in 1..(at - 1 + n) /\ i <= at - 1 + n /\ i - (at - 1) \in 1..n /\ ~(i <= at - 1)
            BY <2>2, <1>1
        <3>2. QED BY <2>2, <3>1, <1>5, <1>6, <1>7
    <2>3. CASE at + n <= i
        <3>1. ~(i <= at - 1 + n) /\ i - (at - 1 + n) \in 1..(Len(w) - at + 1)
            BY <2>3, <1>1
        <3>2. z[i - (at - 1 + n)] = w[at + (i - (at - 1 + n)) - 1]
            BY <3>1, <1>4
        <3>3. at + (i - (at - 1 + n)) - 1 = i - n
            BY <1>1
        <3>4. ((a \o b) \o z)[i] = w[i - n]
            BY <3>1, <3>2, <3>3, <1>7
        <3>5. ~(i < at) /\ ~(i < at + n)
            BY <2>3, <1>1
        <3>6. QED BY <3>4, <3>5
    <2>4. i < at \/ (at <= i /\ i < at + n) \/ at + n <= i
        BY <1>1
    <2>5. QED BY <2>1, <2>2, <2>3, <2>4
<1>9. QED BY <1>2, <1>7, <1>8 DEF IsInserted, w

LEMMA RemovedEdit ==
    ASSUME NEW s \in Seq(Nat), NEW at \in Nat \ {0}, NEW n \in Nat, at + n - 1 <= Len(s)
    PROVE  IsRemoved(Edited(s, [name |-> "Remove", at |-> at, n |-> n]), s, at, n)
<1> DEFINE a == SubSeq(s, 1, at - 1)
           z == SubSeq(s, at + n, Len(s))
<1>1. Len(s) \in Nat
    BY LenProperties
<1>2. Edited(s, [name |-> "Remove", at |-> at, n |-> n]) = a \o z
    BY DEF Edited
<1>3. /\ a \in Seq(Nat) /\ Len(a) = at - 1
      /\ \A i \in 1..(at - 1) : a[i] = s[i]
    BY <1>1, PartIs
<1>4. /\ z \in Seq(Nat) /\ Len(z) = Len(s) - (at + n) + 1
      /\ \A i \in 1..(Len(s) - (at + n) + 1) : z[i] = s[at + n + i - 1]
    BY <1>1, PartIs
<1> HIDE DEF a, z
<1>5. /\ a \o z \in Seq(Nat) /\ Len(a \o z) = Len(s) - n
      /\ \A i \in 1..(Len(s) - n) : (a \o z)[i] = IF i <= at - 1 THEN a[i] ELSE z[i - (at - 1)]
    <2>1. at - 1 + (Len(s) - (at + n) + 1) = Len(s) - n
        BY <1>1
    <2>2. /\ a \o z \in Seq(Nat) /\ Len(a \o z) = Len(a) + Len(z)
          /\ \A i \in 1..(Len(a) + Len(z)) : (a \o z)[i] = IF i <= Len(a) THEN a[i] ELSE z[i - Len(a)]
        BY <1>3, <1>4, ConcatProperties
    <2>3. Len(a) = at - 1 /\ Len(a) + Len(z) = Len(s) - n
        BY <1>3, <1>4, <2>1
    <2>4. QED BY <2>2, <2>3
<1>6. \A i \in 1..(Len(s) - n) : (a \o z)[i] = IF i < at THEN s[i] ELSE s[i + n]
    <2> TAKE i \in 1..(Len(s) - n)
    <2>1. CASE i < at
        <3>1. i \in 1..(at - 1) /\ i <= at - 1
            BY <2>1, <1>1
        <3>2. (a \o z)[i] = s[i]
            BY <3>1, <1>3, <1>5
        <3>3. QED BY <2>1, <3>2
    <2>2. CASE at <= i
        <3>1. ~(i <= at - 1) /\ i - (at - 1) \in 1..(Len(s) - (at + n) + 1)
            BY <2>2, <1>1
        <3>2. at + n + (i - (at - 1)) - 1 = i + n
            BY <1>1
        <3>3. z[i - (at - 1)] = s[i + n]
            BY <3>1, <3>2, <1>4
        <3>4. (a \o z)[i] = s[i + n]
            BY <3>1, <3>3, <1>5
        <3>5. ~(i < at)
            BY <2>2, <1>1
        <3>6. QED BY <3>4, <3>5
    <2>3. i < at \/ at <= i
        BY <1>1
    <2>4. QED BY <2>1, <2>2, <2>3
<1>7. QED BY <1>2, <1>5, <1>6 DEF IsRemoved

-----------------------------------------------------------------------------

(***************************************************************************)
(* The operations on an array that holds a sequence.                       *)
(***************************************************************************)

LEMMA BufferIs ==
    ASSUME NEW s \in Seq(Nat), NEW n \in Nat
    PROVE  /\ IsBuffer(Buffer(s, n), n)
           /\ \A i \in 1..n : Buffer(s, n)[i] = IF i <= Len(s) THEN s[i] ELSE Raw
           /\ \A i \in 1..n : Buffer(s, n)[i] = Raw <=> i > Len(s)
<1>1. Len(s) \in Nat /\ \A i \in 1..Len(s) : s[i] \in Nat
    BY LenProperties, ElementOfSeq
<1>2. \A i \in 1..n : Buffer(s, n)[i] = IF i <= Len(s) THEN s[i] ELSE Raw
    BY DEF Buffer
<1>3. \A i \in 1..n : i <= Len(s) => s[i] \in Nat
    BY <1>1
<1>4. IsBuffer(Buffer(s, n), n)
    BY <1>3 DEF IsBuffer, Buffer, Raw
<1>5. QED BY <1>1, <1>2, <1>3, <1>4 DEF Raw

LEMMA SameBuffer ==
    ASSUME NEW n, NEW f, IsBuffer(f, n), NEW t,
           \A i \in 1..n : f[i] = IF i <= Len(t) THEN t[i] ELSE Raw
    PROVE  f = Buffer(t, n)
    BY DEF IsBuffer, Buffer

\* How to show that an array holds a sequence.
LEMMA HoldsThen ==
    ASSUME NEW t \in Seq(Nat), NEW n \in Nat, NEW f, IsBuffer(f, n), n >= Len(t), NEW g \in Nat,
           \A i \in 1..n : f[i] = IF i <= Len(t) THEN t[i] ELSE Raw
    PROVE  Holds(Arr(f, Len(t), g), t)
<1>1. f = Buffer(t, n)
    BY SameBuffer
<1>2. QED BY <1>1 DEF Holds

LEMMA Resizes ==
    ASSUME NEW s \in Seq(Nat), NEW m \in Nat, NEW n \in Nat, m >= Len(s), NEW g
    PROVE  Resized(Arr(Buffer(s, m), Len(s), g), n) = Arr(Buffer(s, n), Len(s), g)
<1> DEFINE f == Buffer(s, m)
           a == Arr(f, Len(s), g)
           d == [i \in 1..n |-> IF i <= Len(s) THEN f[i] ELSE Raw]
<1>1. Len(s) \in Nat
    BY LenProperties
<1>2. \A i \in 1..m : f[i] = IF i <= Len(s) THEN s[i] ELSE Raw
    BY BufferIs
<1>3. d = Buffer(s, n)
    BY <1>1, <1>2 DEF Buffer
<1>4. a.data = f /\ a.size = Len(s)
    BY ArrFields
<1> HIDE DEF a, f
<1>5. Resized(a, n) = WithData(a, d)
    BY <1>4 DEF Resized, WithData
<1> HIDE DEF d
<1>6. WithData(a, d) = Arr(d, Len(s), g)
    BY ArrData DEF a
<1>7. QED BY <1>3, <1>5, <1>6 DEF a, f

\* The array has a buffer of at least m cells.
HoldsIn(a, s, m) ==
    \E n \in Nat, g \in Nat : n >= m /\ n >= Len(s) /\ a = Arr(Buffer(s, n), Len(s), g)

LEMMA Grows ==
    ASSUME NEW a, NEW s, Holds(a, s), NEW m \in Nat
    PROVE  HoldsIn(GrowBuffer(a, m), s, m)
<1>1. PICK n \in Nat, g \in Nat : n >= Len(s) /\ a = Arr(Buffer(s, n), Len(s), g)
    BY DEF Holds
<1>2. s \in Seq(Nat) /\ Len(s) \in Nat
    BY LenProperties DEF Holds
<1>3. a.data = Buffer(s, n) /\ a.size = Len(s) /\ a.growBy = g
    BY <1>1, ArrFields
<1>4. Len(a.data) = n
    BY <1>2, <1>3, BufferIs, BufferLength
<1>5. CASE m <= n
    BY <1>1, <1>4, <1>5 DEF GrowBuffer, HoldsIn
<1>6. CASE ~(m <= n)
    <2> DEFINE step == IF a.growBy = 0 THEN Larger(a.size \div 8, GrowLeast) ELSE a.growBy
    <2>1. step \in Nat
        <3>1. Len(s) \div 8 \in Nat
            BY <1>2
        <3>2. QED BY <3>1, <1>3, ArrayAssumption DEF Larger
    <2> HIDE DEF step
    <2>2. PICK k \in Nat : k >= m /\ GrowBuffer(a, m) = Resized(a, k)
        <3>1. CASE a.data = <<>>
            <4>1. GrowBuffer(a, m) = Resized(a, Larger(a.growBy, m))
                BY <1>4, <1>6, <3>1 DEF GrowBuffer
            <4>2. Larger(a.growBy, m) \in Nat /\ Larger(a.growBy, m) >= m
                BY <1>3 DEF Larger
            <4>3. QED BY <4>1, <4>2
        <3>2. CASE a.data # <<>>
            <4>1. GrowBuffer(a, m) = Resized(a, Larger(n + step, m))
                BY <1>4, <1>6, <3>2 DEF GrowBuffer, step
            <4>2. Larger(n + step, m) \in Nat /\ Larger(n + step, m) >= m
                BY <2>1 DEF Larger
            <4>3. QED BY <4>1, <4>2
        <3>3. QED BY <3>1, <3>2
    <2>3. Resized(a, k) = Arr(Buffer(s, k), Len(s), g)
        BY <1>1, <1>2, Resizes
    <2>4. k >= Len(s)
        BY <1>1, <1>2, <1>6, <2>2
    <2>5. QED BY <2>2, <2>3, <2>4 DEF HoldsIn
<1>7. QED BY <1>5, <1>6

\* SetCount.
LEMMA Counts ==
    ASSUME NEW a, NEW s, Holds(a, s), NEW m \in Nat, NEW t, IsCounted(t, s, m)
    PROVE  Holds(SetCount(a, m), t)
<1>1. PICK n \in Nat, g \in Nat : n >= Len(s) /\ a = Arr(Buffer(s, n), Len(s), g)
    BY DEF Holds
<1>2. s \in Seq(Nat) /\ Len(s) \in Nat
    BY LenProperties DEF Holds
<1>3. t \in Seq(Nat) /\ Len(t) = m /\ \A i \in 1..m : t[i] = IF i <= Len(s) THEN s[i] ELSE Default
    BY DEF IsCounted
<1>4. a.size = Len(s)
    BY <1>1, ArrFields
<1> DEFINE f == Buffer(s, n)
<1>5. /\ IsBuffer(f, n)
      /\ \A i \in 1..n : f[i] = IF i <= Len(s) THEN s[i] ELSE Raw
      /\ \A i \in 1..n : f[i] = Raw <=> i > Len(s)
    BY <1>2, BufferIs
<1>6. a = Arr(f, Len(s), g)
    BY <1>1
<1> HIDE DEF f
<1>7. ASSUME NEW k \in Nat \ {0}
      PROVE  Destroy(a, k..Len(s)) = Arr(Put(f, k..Len(s), Raw), Len(s), g)
    <2>1. k..Len(s) \subseteq 1..n
        BY <1>1, <1>2
    <2>2. \A i \in k..Len(s) : f[i] # Raw
        BY <1>2, <1>5, <2>1
    <2>3. NoneRaw(f, n, k..Len(s))
        BY <2>1, <2>2 DEF NoneRaw
    <2>4. QED BY <1>5, <1>6, <2>3, AssignsCells DEF Destroy
<1>8. CASE m = 0
    <2>1. Destroy(a, 1..Len(s)) = Arr(Put(f, 1..Len(s), Raw), Len(s), g)
        BY <1>7
    <2>2. SetCount(a, m) = WithDataSize(Destroy(a, 1..Len(s)), <<>>, 0)
        BY <1>4, <1>8 DEF SetCount, WithDataSize
    <2>3. SetCount(a, m) = Arr(<<>>, 0, g)
        BY <2>1, <2>2, ArrDataSize
    <2>4. Buffer(t, 0) = <<>> /\ Len(t) = 0
        BY <1>3, <1>8 DEF Buffer
    <2>5. QED BY <1>3, <2>3, <2>4 DEF Holds
<1>9. CASE m # 0 /\ m >= Len(s)
    <2>1. PICK k \in Nat, h \in Nat :
              k >= m /\ k >= Len(s) /\ GrowBuffer(a, m) = Arr(Buffer(s, k), Len(s), h)
        BY Grows DEF HoldsIn
    <2> DEFINE I == (Len(s) + 1)..m
               e == Buffer(s, k)
               d == Put(e, I, Default)
    <2>2. /\ IsBuffer(e, k)
          /\ \A i \in 1..k : e[i] = IF i <= Len(s) THEN s[i] ELSE Raw
          /\ \A i \in 1..k : e[i] = Raw <=> i > Len(s)
        BY <1>2, BufferIs
    <2>3. GrowBuffer(a, m) = Arr(e, Len(s), h)
        BY <2>1
    <2> HIDE DEF e
    <2>4. AllRaw(e, k, I)
        BY <1>2, <2>1, <2>2 DEF AllRaw
    <2>5. Build(Arr(e, Len(s), h), I, Default) = Arr(d, Len(s), h)
        BY <2>2, <2>4, BuildsCells
    <2>6. SetCount(a, m) = WithSize(Build(GrowBuffer(a, m), I, Default), m)
        BY <1>4, <1>9 DEF SetCount, WithSize
    <2>7. IsBuffer(d, k) /\ \A i \in 1..k : d[i] = IF i \in I THEN Default ELSE e[i]
        BY <2>2, PutIs, ArrayAssumption
    <2> HIDE DEF d
    <2>8. \A i \in 1..k : d[i] = IF i <= Len(t) THEN t[i] ELSE Raw
        BY <1>2, <1>3, <1>9, <2>1, <2>2, <2>7
    <2>9. SetCount(a, m) = Arr(d, Len(t), h)
        BY <1>3, <2>3, <2>5, <2>6, ArrSize
    <2>10. QED BY <1>3, <2>1, <2>7, <2>8, <2>9, HoldsThen
<1>10. CASE m # 0 /\ ~(m >= Len(s))
    <2> DEFINE I == (m + 1)..Len(s)
               d == Put(f, I, Raw)
    <2>1. Destroy(a, I) = Arr(d, Len(s), g)
        BY <1>7
    <2>2. IsBuffer(d, n) /\ \A i \in 1..n : d[i] = IF i \in I THEN Raw ELSE f[i]
        BY <1>5, PutIs DEF Raw
    <2> HIDE DEF d
    <2>3. \A i \in 1..n : d[i] = IF i <= Len(t) THEN t[i] ELSE Raw
        <3> TAKE i \in 1..n
        <3>1. CASE i <= m
            <4>1. i <= Len(s) /\ i \in 1..m /\ i \notin I
                BY <1>2, <1>10, <3>1
            <4>2. QED BY <4>1, <1>3, <1>5, <2>2
        <3>2. CASE i > m
            BY <1>2, <1>3, <1>5, <1>10, <2>2, <3>2
        <3>3. QED BY <3>1, <3>2
    <2>4. SetCount(a, m) = WithSize(Destroy(a, I), m)
        BY <1>4, <1>10 DEF SetCount, WithSize
    <2>5. SetCount(a, m) = Arr(d, Len(t), g)
        BY <1>3, <2>1, <2>4, ArrSize
    <2>6. n >= Len(t)
        BY <1>1, <1>2, <1>3, <1>10
    <2>7. QED BY <1>3, <2>2, <2>3, <2>5, <2>6, HoldsThen
<1>11. QED BY <1>8, <1>9, <1>10

IsAdded(t, s, v) == IsInserted(t, s, Len(s) + 1, v, 1)

IsOverwritten(t, s, I, v) ==
    /\ t \in Seq(Nat) /\ Len(t) = Len(s)
    /\ I \subseteq 1..Len(s)
    /\ \A i \in 1..Len(s) : t[i] = IF i \in I THEN v ELSE s[i]

\* Add: the next cell of a buffer with room.
LEMMA Adds ==
    ASSUME NEW a, NEW s, Holds(a, s), NEW v \in CellValues, NEW t, IsAdded(t, s, v)
    PROVE  Holds([Build(GrowBuffer(a, a.size + 1), {a.size + 1}, v) EXCEPT !.size = @ + 1], t)
<1>1. PICK n \in Nat, g \in Nat : n >= Len(s) /\ a = Arr(Buffer(s, n), Len(s), g)
    BY DEF Holds
<1>2. s \in Seq(Nat) /\ Len(s) \in Nat
    BY LenProperties DEF Holds
<1>3. a.size = Len(s)
    BY <1>1, ArrFields
<1>4. PICK k \in Nat, h \in Nat :
          k >= Len(s) + 1 /\ k >= Len(s) /\ GrowBuffer(a, Len(s) + 1) = Arr(Buffer(s, k), Len(s), h)
    <2>1. Len(s) + 1 \in Nat
        BY <1>2
    <2>2. QED BY <2>1, Grows DEF HoldsIn
<1> DEFINE I == {Len(s) + 1}
           e == Buffer(s, k)
           d == Put(e, I, v)
           b == Build(GrowBuffer(a, Len(s) + 1), I, v)
<1>5. /\ IsBuffer(e, k)
      /\ \A i \in 1..k : e[i] = IF i <= Len(s) THEN s[i] ELSE Raw
      /\ \A i \in 1..k : e[i] = Raw <=> i > Len(s)
    BY <1>2, BufferIs
<1>6. GrowBuffer(a, Len(s) + 1) = Arr(e, Len(s), h)
    BY <1>4
<1> HIDE DEF e
<1>7. AllRaw(e, k, I)
    BY <1>2, <1>4, <1>5 DEF AllRaw
<1>8. b = Arr(d, Len(s), h)
    BY <1>5, <1>6, <1>7, BuildsCells
<1>9. IsBuffer(d, k) /\ \A i \in 1..k : d[i] = IF i \in I THEN v ELSE e[i]
    BY <1>5, PutIs, ArrayAssumption
<1> HIDE DEF d
<1>10. t \in Seq(Nat) /\ Len(t) = Len(s) + 1
       /\ \A i \in 1..(Len(s) + 1) : t[i] = IF i < Len(s) + 1 THEN s[i] ELSE v
    BY <1>2 DEF IsInserted, IsAdded
<1>11. \A i \in 1..k : d[i] = IF i <= Len(t) THEN t[i] ELSE Raw
    <2> TAKE i \in 1..k
    <2>1. CASE i <= Len(s)
        <3>1. i \in 1..(Len(s) + 1) /\ i \notin I /\ i < Len(s) + 1 /\ i <= Len(t)
            BY <1>2, <1>10, <2>1
        <3>2. QED BY <3>1, <2>1, <1>5, <1>9, <1>10
    <2>2. CASE i = Len(s) + 1
        BY <1>2, <1>9, <1>10, <2>2
    <2>3. CASE i > Len(s) + 1
        BY <1>2, <1>5, <1>9, <1>10, <2>3
    <2>4. QED BY <1>2, <2>1, <2>2, <2>3
<1>12. b.size = Len(s)
    BY <1>8, ArrFields
<1>13. [b EXCEPT !.size = @ + 1] = WithSize(b, Len(s) + 1)
    BY <1>12 DEF WithSize
<1>14. [b EXCEPT !.size = @ + 1] = Arr(d, Len(t), h)
    BY <1>8, <1>10, <1>13, ArrSize
<1>15. Holds([b EXCEPT !.size = @ + 1], t)
    BY <1>4, <1>9, <1>10, <1>11, <1>14, HoldsThen
<1>16. QED BY <1>3, <1>15

\* Values are assigned to cells that hold objects.
LEMMA Overwrites ==
    ASSUME NEW a, NEW s, Holds(a, s), NEW I, NEW v \in CellValues, NEW t, IsOverwritten(t, s, I, v)
    PROVE  Holds(Assign(a, I, v), t)
<1>1. PICK n \in Nat, g \in Nat : n >= Len(s) /\ a = Arr(Buffer(s, n), Len(s), g)
    BY DEF Holds
<1>2. s \in Seq(Nat) /\ Len(s) \in Nat
    BY LenProperties DEF Holds
<1> DEFINE e == Buffer(s, n)
           d == Put(e, I, v)
<1>3. /\ IsBuffer(e, n)
      /\ \A i \in 1..n : e[i] = IF i <= Len(s) THEN s[i] ELSE Raw
      /\ \A i \in 1..n : e[i] = Raw <=> i > Len(s)
    BY <1>2, BufferIs
<1>4. a = Arr(e, Len(s), g)
    BY <1>1
<1> HIDE DEF e
<1>5. NoneRaw(e, n, I)
    <2>1. I \subseteq 1..Len(s)
        BY DEF IsOverwritten
    <2>2. \A i \in I : i \in 1..n /\ ~(i > Len(s))
        BY <1>1, <1>2, <2>1
    <2>3. QED BY <2>2, <1>3 DEF NoneRaw
<1>6. Assign(a, I, v) = Arr(d, Len(s), g)
    <2>1. Assign(Arr(e, Len(s), g), I, v) = Arr(Put(e, I, v), Len(s), g)
        BY <1>3, <1>5, AssignsCells
    <2>2. QED BY <1>4, <2>1
<1>7. IsBuffer(d, n) /\ \A i \in 1..n : d[i] = IF i \in I THEN v ELSE e[i]
    BY <1>3, PutIs, ArrayAssumption
<1> HIDE DEF d
<1>8. \A i \in 1..n : d[i] = IF i <= Len(t) THEN t[i] ELSE Raw
    BY <1>1, <1>2, <1>3, <1>7 DEF IsOverwritten
<1>9. t \in Seq(Nat) /\ Len(t) = Len(s)
    BY DEF IsOverwritten
<1>10. QED BY <1>1, <1>2, <1>6, <1>7, <1>8, <1>9, HoldsThen

\* RemoveAt: the cells are emptied and the rest moves down.
LEMMA Removes ==
    ASSUME NEW a, NEW s, Holds(a, s), NEW at \in Nat \ {0}, NEW k \in Int, k >= 0, at + k - 1 <= Len(s),
           NEW t, IsRemoved(t, s, at, k)
    PROVE  Holds([Relocate(Destroy(a, at..(at + k - 1)), at + k, a.size + 1 - at - k, -k)
                     EXCEPT !.size = @ - k], t)
<1>1. PICK n \in Nat, g \in Nat : n >= Len(s) /\ a = Arr(Buffer(s, n), Len(s), g)
    BY DEF Holds
<1>2. s \in Seq(Nat) /\ Len(s) \in Nat
    BY LenProperties DEF Holds
<1>3. a.size = Len(s)
    BY <1>1, ArrFields
<1> DEFINE I == at..(at + k - 1)
           e == Buffer(s, n)
           d == Put(e, I, Raw)
           count == Len(s) + 1 - at - k
           z == Moved(d, at + k, Len(s), -k)
           b == Relocate(Destroy(a, I), at + k, count, -k)
<1>4. /\ IsBuffer(e, n)
      /\ \A i \in 1..n : e[i] = IF i <= Len(s) THEN s[i] ELSE Raw
      /\ \A i \in 1..n : e[i] = Raw <=> i > Len(s)
    BY <1>2, BufferIs
<1>5. a = Arr(e, Len(s), g)
    BY <1>1
<1> HIDE DEF e
<1>6. NoneRaw(e, n, I)
    <2>1. I \subseteq 1..n /\ \A i \in I : ~(i > Len(s))
        BY <1>1, <1>2
    <2>2. QED BY <2>1, <1>4 DEF NoneRaw
<1>7. Destroy(a, I) = Arr(d, Len(s), g)
    BY <1>4, <1>5, <1>6, AssignsCells DEF Destroy
<1>8. IsBuffer(d, n) /\ \A i \in 1..n : d[i] = IF i \in I THEN Raw ELSE e[i]
    BY <1>4, PutIs DEF Raw
<1> HIDE DEF d
<1>9. CanMove(d, n, at + k, Len(s), -k)
    <2>1. \A i \in (at + k)..Len(s) : i \in 1..n /\ i + (-k) \in 1..n
        BY <1>1, <1>2
    <2>2. \A i \in 1..n : (i - (-k) \in (at + k)..Len(s) /\ i \notin (at + k)..Len(s)) => d[i] = Raw
        <3> TAKE i \in 1..n
        <3> HAVE i - (-k) \in (at + k)..Len(s) /\ i \notin (at + k)..Len(s)
        <3>1. i \in I
            BY <1>2
        <3>2. QED BY <3>1, <1>8
    <2>3. QED BY <1>2, <2>1, <2>2 DEF CanMove
<1>10. Len(s) = at + k + count - 1
    BY <1>2
<1>11. b = Arr(z, Len(s), g)
    <2> HIDE DEF count
    <2>1. QED BY <1>7, <1>8, <1>9, <1>10, RelocatesCells
<1>12. /\ IsBuffer(z, n)
       /\ \A i \in 1..n : z[i] = IF i - (-k) \in (at + k)..Len(s) THEN d[i - (-k)]
                                 ELSE IF i \in (at + k)..Len(s) THEN Raw ELSE d[i]
    BY <1>8, <1>9, MovedIs
<1> HIDE DEF z
<1>13. t \in Seq(Nat) /\ Len(t) = Len(s) - k
       /\ \A i \in 1..(Len(s) - k) : t[i] = IF i < at THEN s[i] ELSE s[i + k]
    BY DEF IsRemoved
<1>14. \A i \in 1..n : z[i] = IF i <= Len(t) THEN t[i] ELSE Raw
    <2> TAKE i \in 1..n
    <2>1. CASE i < at
        <3>1. i - (-k) \notin (at + k)..Len(s) /\ i \notin (at + k)..Len(s) /\ i \notin I
            BY <1>2, <2>1
        <3>2. i \in 1..(Len(s) - k) /\ i <= Len(s)
            BY <1>2, <2>1
        <3>3. z[i] = s[i]
            BY <1>4, <1>8, <1>12, <3>1, <3>2
        <3>4. t[i] = s[i] /\ i <= Len(t)
            BY <1>2, <1>13, <2>1, <3>2
        <3>5. QED BY <3>3, <3>4
    <2>2. CASE at <= i /\ i <= Len(s) - k
        <3>1. i + k \in (at + k)..Len(s) /\ i - (-k) = i + k /\ i + k \in 1..n /\ i + k \notin I
            BY <1>1, <1>2, <2>2
        <3>2. i \in 1..(Len(s) - k) /\ ~(i < at) /\ i + k <= Len(s)
            BY <1>2, <2>2
        <3>3. z[i] = s[i + k]
            BY <1>4, <1>8, <1>12, <3>1, <3>2
        <3>4. QED BY <1>13, <3>2, <3>3
    <2>3. CASE at <= i /\ i > Len(s) - k
        <3>1. i - (-k) \notin (at + k)..Len(s) /\ ~(i <= Len(s) - k)
            BY <1>2, <2>3
        <3>2. CASE i \in (at + k)..Len(s)
            BY <1>12, <1>13, <3>1, <3>2
        <3>3. CASE i \notin (at + k)..Len(s)
            <4>1. i \in I \/ i > Len(s)
                BY <1>2, <2>3, <3>3
            <4>2. d[i] = Raw
                BY <4>1, <1>4, <1>8
            <4>3. QED BY <4>2, <1>12, <1>13, <3>1, <3>3
        <3>4. QED BY <3>2, <3>3
    <2>4. QED BY <1>2, <2>1, <2>2, <2>3
<1>15. b.size = Len(s)
    BY <1>11, ArrFields
<1>16. [b EXCEPT !.size = @ - k] = WithSize(b, Len(s) - k)
    BY <1>15 DEF WithSize
<1>17. [b EXCEPT !.size = @ - k] = Arr(z, Len(t), g)
    BY <1>11, <1>13, <1>16, ArrSize
<1>18. n >= Len(t)
    BY <1>1, <1>2, <1>13
<1>19. Holds([b EXCEPT !.size = @ - k], t)
    <2> HIDE DEF b
    <2>1. QED BY <1>12, <1>13, <1>14, <1>17, <1>18, HoldsThen
<1>20. QED BY <1>3, <1>19

\* InsertAt behind the end: the new cells were counted in already.
LEMMA InsertsBehind ==
    ASSUME NEW a, NEW s, Holds(a, s), NEW at \in Nat \ {0}, NEW k \in Nat, at > a.size,
           NEW v \in CellValues, NEW w, IsCounted(w, s, at - 1), NEW t, IsInserted(t, w, at, v, k)
    PROVE  Holds(Inserted(a, at, v, k), t)
<1> DEFINE m == at - 1 + k
           I == at..m
           u == Edited(s, [name |-> "SetCount", n |-> m])
<1>1. PICK n \in Nat, g \in Nat : n >= Len(s) /\ a = Arr(Buffer(s, n), Len(s), g)
    BY DEF Holds
<1>2. s \in Seq(Nat) /\ Len(s) \in Nat /\ m \in Nat
    BY LenProperties DEF Holds
<1>3. a.size = Len(s) /\ Len(s) <= at - 1
    BY <1>1, <1>2, ArrFields
<1>4. IsCounted(u, s, m)
    <2> HIDE DEF m
    <2>1. QED BY <1>2, CountedEdit
<1> HIDE DEF u
<1>5. Holds(SetCount(a, m), u)
    <2> HIDE DEF m
    <2>1. QED BY <1>2, <1>4, Counts
<1>6. /\ Len(w) = at - 1 /\ \A i \in 1..(at - 1) : w[i] = IF i <= Len(s) THEN s[i] ELSE Default
    BY DEF IsCounted
<1>7. /\ Len(u) = m /\ \A i \in 1..m : u[i] = IF i <= Len(s) THEN s[i] ELSE Default
    BY <1>4 DEF IsCounted
<1>8. /\ t \in Seq(Nat) /\ Len(t) = m
      /\ \A i \in 1..m : t[i] = IF i < at THEN w[i] ELSE IF i < at + k THEN v ELSE w[i - k]
    BY <1>6 DEF IsInserted
<1>9. IsOverwritten(t, u, I, v)
    <2>1. I \subseteq 1..Len(u)
        BY <1>7
    <2>2. ASSUME NEW i \in 1..m PROVE t[i] = IF i \in I THEN v ELSE u[i]
        <3>1. CASE i < at
            <4>1. i \in 1..(at - 1) /\ i \notin I
                BY <3>1
            <4>2. QED BY <3>1, <4>1, <1>6, <1>7, <1>8
        <3>2. CASE i >= at
            <4>1. i < at + k /\ ~(i < at) /\ i \in I
                BY <3>2
            <4>2. QED BY <4>1, <1>8
        <3>3. QED BY <3>1, <3>2
    <2>3. QED BY <2>1, <2>2, <1>7, <1>8 DEF IsOverwritten
<1>10. Holds(Assign(SetCount(a, m), I, v), t)
    <2> HIDE DEF I, m
    <2>1. QED BY <1>5, <1>9, Overwrites
<1>11. Inserted(a, at, v, k) = Assign(SetCount(a, m), I, v)
    <2>1. m = at + k - 1
        OBVIOUS
    <2>2. QED BY <1>3, <2>1 DEF Inserted
<1>12. QED BY <1>10, <1>11

\* InsertAt in the middle: the last k cells are emptied again, the rest moves
\* there, and new objects are built in the gap and assigned to.
LEMMA InsertsWithin ==
    ASSUME NEW a, NEW s, Holds(a, s), NEW at \in Nat \ {0}, NEW k \in Nat, ~(at > a.size),
           NEW v \in CellValues, NEW t, IsInserted(t, s, at, v, k)
    PROVE  Holds(Inserted(a, at, v, k), t)
<1> DEFINE L == Len(s)
           m == L + k
           count == a.size + 1 - at
           u == Edited(s, [name |-> "SetCount", n |-> m])
<1>1. a.size = L /\ s \in Seq(Nat) /\ L \in Nat /\ m \in Nat /\ at <= L
    BY LenProperties, ArrFields DEF Holds
<1>2. Default # Raw /\ Default \in Int /\ v \in Int /\ Raw \in Int
    BY ArrayAssumption DEF Raw
<1>3. IsCounted(u, s, m)
    <2> HIDE DEF m
    <2>1. QED BY <1>1, CountedEdit
<1> HIDE DEF u
<1>4. Holds(SetCount(a, m), u)
    <2> HIDE DEF m
    <2>1. QED BY <1>1, <1>3, Counts
<1>5. u \in Seq(Nat) /\ Len(u) = m /\ \A i \in 1..m : u[i] = IF i <= L THEN s[i] ELSE Default
    BY <1>3 DEF IsCounted
<1>6. PICK n \in Nat, g \in Nat : n >= Len(u) /\ SetCount(a, m) = Arr(Buffer(u, n), Len(u), g)
    BY <1>4 DEF Holds
<1> DEFINE e == Buffer(u, n)
           J == (L + 1)..m
           I == at..(at + k - 1)
           d == Put(e, J, Raw)
           z == Moved(d, at, L, k)
           b == Put(z, I, Default)
           r == Put(b, I, v)
<1>7. SetCount(a, m) = Arr(e, m, g) /\ n >= m
    BY <1>5, <1>6
<1>8. /\ IsBuffer(e, n)
      /\ \A i \in 1..n : e[i] = IF i <= Len(u) THEN u[i] ELSE Raw
      /\ \A i \in 1..n : e[i] = Raw <=> i > Len(u)
    BY <1>5, BufferIs
<1> HIDE DEF e
<1>9. NoneRaw(e, n, J)
    <2>1. \A i \in J : i \in 1..n /\ ~(i > Len(u))
        BY <1>1, <1>5, <1>7
    <2>2. QED BY <2>1, <1>8 DEF NoneRaw
<1>10. Destroy(SetCount(a, m), J) = Arr(d, m, g)
    BY <1>7, <1>8, <1>9, AssignsCells DEF Destroy
<1>11. IsBuffer(d, n) /\ \A i \in 1..n : d[i] = IF i \in J THEN Raw ELSE e[i]
    BY <1>2, <1>8, PutIs
<1> HIDE DEF d
<1>12. \A i \in 1..n : d[i] = IF i <= L THEN s[i] ELSE Raw
    <2> TAKE i \in 1..n
    <2>1. CASE i <= L
        <3>1. i \notin J /\ i \in 1..m /\ i <= Len(u)
            BY <1>1, <1>5, <2>1
        <3>2. QED BY <2>1, <3>1, <1>5, <1>8, <1>11
    <2>2. CASE i > L
        <3>1. i \in J \/ i > m
            BY <1>1, <2>2
        <3>2. QED BY <2>2, <3>1, <1>1, <1>5, <1>8, <1>11
    <2>3. QED BY <1>1, <2>1, <2>2
<1>13. CanMove(d, n, at, L, k)
    <2>1. \A i \in at..L : i \in 1..n /\ i + k \in 1..n
        BY <1>1, <1>7
    <2>2. \A i \in 1..n : (i - k \in at..L /\ i \notin at..L) => d[i] = Raw
        <3> TAKE i \in 1..n
        <3> HAVE i - k \in at..L /\ i \notin at..L
        <3>1. ~(i <= L)
            BY <1>1
        <3>2. QED BY <3>1, <1>12
    <2>3. QED BY <1>1, <2>1, <2>2 DEF CanMove
<1>14. Relocate(Arr(d, m, g), at, count, k) = Arr(z, m, g)
    <2>1. L = at + count - 1
        BY <1>1
    <2> HIDE DEF count
    <2>2. QED BY <2>1, <1>11, <1>13, RelocatesCells
<1>15. /\ IsBuffer(z, n)
       /\ \A i \in 1..n : z[i] = IF i - k \in at..L THEN d[i - k]
                                 ELSE IF i \in at..L THEN Raw ELSE d[i]
    BY <1>11, <1>13, MovedIs
<1> HIDE DEF z
<1>16. AllRaw(z, n, I)
    <2>1. \A i \in I : i \in 1..n /\ i - k \notin at..L /\ (i \in at..L \/ i > L)
        BY <1>1, <1>7
    <2>2. ASSUME NEW i \in I PROVE i \in 1..n /\ z[i] = Raw
        BY <2>1, <1>1, <1>12, <1>15
    <2>3. QED BY <2>2 DEF AllRaw
<1>17. Build(Arr(z, m, g), I, Default) = Arr(b, m, g)
    BY <1>15, <1>16, BuildsCells
<1>18. IsBuffer(b, n) /\ \A i \in 1..n : b[i] = IF i \in I THEN Default ELSE z[i]
    BY <1>2, <1>15, PutIs
<1> HIDE DEF b
<1>19. NoneRaw(b, n, I)
    BY <1>2, <1>16, <1>18 DEF AllRaw, NoneRaw
<1>20. Assign(Arr(b, m, g), I, v) = Arr(r, m, g)
    BY <1>18, <1>19, AssignsCells
<1>21. IsBuffer(r, n) /\ \A i \in 1..n : r[i] = IF i \in I THEN v ELSE b[i]
    BY <1>2, <1>18, PutIs
<1> HIDE DEF r
<1>22. /\ t \in Seq(Nat) /\ Len(t) = m
       /\ \A i \in 1..m : t[i] = IF i < at THEN s[i] ELSE IF i < at + k THEN v ELSE s[i - k]
    BY DEF IsInserted
<1>23. \A i \in 1..n : r[i] = IF i <= Len(t) THEN t[i] ELSE Raw
    <2> TAKE i \in 1..n
    <2>1. CASE i \in I
        <3>1. i \in 1..m /\ ~(i < at) /\ i < at + k
            BY <1>1, <2>1
        <3>2. QED BY <2>1, <3>1, <1>21, <1>22
    <2>2. CASE i \notin I
        <3>1. r[i] = z[i]
            BY <2>2, <1>18, <1>21
        <3>2. CASE i < at
            <4>1. i \in 1..m /\ i - k \notin at..L /\ i \notin at..L /\ i <= L
                BY <1>1, <3>2
            <4>2. z[i] = s[i]
                BY <4>1, <1>12, <1>15
            <4>3. QED BY <3>1, <3>2, <4>1, <4>2, <1>22
        <3>3. CASE i >= at + k /\ i <= m
            <4>1. i - k \in at..L /\ i - k \in 1..n /\ i - k <= L /\ i \in 1..m /\ ~(i < at) /\ ~(i < at + k)
                BY <1>1, <1>7, <3>3
            <4>2. z[i] = s[i - k]
                BY <4>1, <1>12, <1>15
            <4>3. QED BY <3>1, <4>1, <4>2, <1>22
        <3>4. CASE i > m
            <4>1. i - k \notin at..L /\ i \notin at..L /\ ~(i <= L) /\ ~(i <= m)
                BY <1>1, <3>4
            <4>2. z[i] = Raw
                BY <4>1, <1>12, <1>15
            <4>3. QED BY <3>1, <4>1, <4>2, <1>22
        <3>5. QED BY <1>1, <2>2, <3>2, <3>3, <3>4
    <2>3. QED BY <2>1, <2>2
<1>24. Holds(Arr(r, m, g), t)
    <2> HIDE DEF m
    <2>1. n >= Len(t)
        BY <1>7, <1>22
    <2>2. QED BY <2>1, <1>21, <1>22, <1>23, HoldsThen
<1>25. Inserted(a, at, v, k) = Arr(r, m, g)
    <2>1. Inserted(a, at, v, k) =
              Assign(Build(Relocate(Destroy(SetCount(a, m), J), at, count, k), I, Default), I, v)
        BY <1>1 DEF Inserted
    <2> HIDE DEF m, J, I, count
    <2>2. QED BY <2>1, <1>10, <1>14, <1>17, <1>20
<1>26. QED BY <1>24, <1>25

LEMMA FilledSame ==
    ASSUME NEW s \in Seq(Nat), NEW n \in Nat, n <= Len(s)
    PROVE  Filled(s, n) = s
<1> DEFINE w == Filled(s, n)
<1>1. /\ w \in Seq(Nat) /\ Len(w) = Larger(Len(s), n)
      /\ \A i \in 1..Len(w) : w[i] = IF i <= Len(s) THEN s[i] ELSE Default
    BY FilledIs
<1> HIDE DEF w
<1>2. Len(s) \in Nat /\ Len(w) = Len(s)
    BY <1>1, LenProperties DEF Larger
<1>3. \A i \in 1..Len(w) : w[i] = s[i]
    BY <1>1, <1>2
<1>4. w = s
    BY <1>1, <1>2, <1>3, SeqEqual
<1>5. QED BY <1>4 DEF w

LEMMA FilledCounts ==
    ASSUME NEW s \in Seq(Nat), NEW n \in Nat, ~(n < Len(s))
    PROVE  IsCounted(Filled(s, n), s, n)
<1>1. Len(s) \in Nat
    BY LenProperties
<1>2. Larger(Len(s), n) = n
    BY <1>1 DEF Larger
<1>3. QED BY <1>2, FilledIs DEF IsCounted

LEMMA SetEdit ==
    ASSUME NEW w \in Seq(Nat), NEW at \in 1..Len(w), NEW v \in CellValues
    PROVE  IsOverwritten([w EXCEPT ![at] = v], w, {at}, v)
<1> DEFINE t == [w EXCEPT ![at] = v]
<1>1. v \in Nat
    BY ArrayAssumption
<1>2. /\ t \in Seq(Nat) /\ Len(t) = Len(w)
      /\ \A i \in 1..Len(w) : t[i] = IF i = at THEN v ELSE w[i]
    BY <1>1, ExceptSeq
<1> HIDE DEF t
<1>3. IsOverwritten(t, w, {at}, v)
    BY <1>2 DEF IsOverwritten
<1>4. QED BY <1>3 DEF t

\* SetAtGrow.
LEMMA SetsAt ==
    ASSUME NEW a, NEW s, Holds(a, s), NEW at \in Nat \ {0}, NEW v \in CellValues
    PROVE  Holds(Assign(IF at > a.size THEN SetCount(a, at) ELSE a, {at}, v),
                 [Filled(s, at) EXCEPT ![at] = v])
<1> DEFINE w == Filled(s, at)
           b == IF at > a.size THEN SetCount(a, at) ELSE a
<1>1. s \in Seq(Nat) /\ Len(s) \in Nat /\ a.size = Len(s)
    BY LenProperties, ArrFields DEF Holds
<1>2. Holds(b, w)
    <2>1. CASE at > Len(s)
        <3>1. IsCounted(w, s, at)
            BY <1>1, <2>1, FilledCounts
        <3> HIDE DEF w
        <3>2. Holds(SetCount(a, at), w)
            BY <3>1, Counts
        <3>3. QED BY <3>2, <1>1, <2>1
    <2>2. CASE ~(at > Len(s))
        <3>1. w = s
            BY <1>1, <2>2, FilledSame
        <3>2. QED BY <3>1, <1>1, <2>2
    <2>3. QED BY <2>1, <2>2
<1>3. w \in Seq(Nat) /\ at \in 1..Len(w)
    <2>1. w \in Seq(Nat) /\ Len(w) = Larger(Len(s), at)
        BY <1>1, FilledIs
    <2>2. QED BY <2>1, <1>1 DEF Larger
<1> HIDE DEF w, b
<1>4. IsOverwritten([w EXCEPT ![at] = v], w, {at}, v)
    BY <1>3, SetEdit
<1>5. Holds(Assign(b, {at}, v), [w EXCEPT ![at] = v])
    <2> DEFINE t == [w EXCEPT ![at] = v]
    <2>1. IsOverwritten(t, w, {at}, v)
        BY <1>4
    <2> HIDE DEF t
    <2>2. Holds(Assign(b, {at}, v), t)
        BY <1>2, <2>1, Overwrites
    <2>3. QED BY <2>2 DEF t
<1>6. QED BY <1>5 DEF w, b

LEMMA GrowthIsFree ==
    ASSUME NEW a, NEW s, Holds(a, s), NEW g \in GrowBys
    PROVE  Holds([a EXCEPT !.growBy = g], s)
<1>1. PICK n \in Nat, h \in Nat : n >= Len(s) /\ a = Arr(Buffer(s, n), Len(s), h)
    BY DEF Holds
<1>2. WithGrowth(a, g) = Arr(Buffer(s, n), Len(s), g)
    BY <1>1, ArrGrowth
<1>3. g \in Nat
    BY ArrayAssumption
<1>4. Holds(WithGrowth(a, g), s)
    BY <1>1, <1>2, <1>3 DEF Holds
<1>5. QED BY <1>4 DEF WithGrowth

\* FreeExtra.
LEMMA Trims ==
    ASSUME NEW a, NEW s, Holds(a, s)
    PROVE  Holds(Resized(a, a.size), Edited(s, [name |-> "SetCount", n |-> a.size]))
<1>1. PICK n \in Nat, g \in Nat : n >= Len(s) /\ a = Arr(Buffer(s, n), Len(s), g)
    BY DEF Holds
<1>2. s \in Seq(Nat) /\ Len(s) \in Nat
    BY LenProperties DEF Holds
<1>3. a.size = Len(s)
    BY <1>1, ArrFields
<1>4. Resized(a, Len(s)) = Arr(Buffer(s, Len(s)), Len(s), g)
    BY <1>1, <1>2, Resizes
<1> DEFINE t == Edited(s, [name |-> "SetCount", n |-> Len(s)])
<1>5. IsCounted(t, s, Len(s))
    BY <1>2, CountedEdit
<1> HIDE DEF t
<1>6. t = s
    BY <1>2, <1>5, SeqEqual DEF IsCounted
<1>7. Holds(Resized(a, Len(s)), s)
    BY <1>2, <1>4 DEF Holds
<1>8. QED BY <1>3, <1>6, <1>7 DEF t

\* InsertAt.
LEMMA Inserts ==
    ASSUME NEW a, NEW s, Holds(a, s), NEW at \in Nat \ {0}, NEW k \in Nat, NEW v \in CellValues
    PROVE  Holds(Inserted(a, at, v, k), Edited(s, [name |-> "Insert", at |-> at, value |-> v, n |-> k]))
<1> DEFINE w == Filled(s, at - 1)
           t == Edited(s, [name |-> "Insert", at |-> at, value |-> v, n |-> k])
<1>1. s \in Seq(Nat) /\ Len(s) \in Nat /\ a.size = Len(s) /\ at - 1 \in Nat
    BY LenProperties, ArrFields DEF Holds
<1>2. IsInserted(t, w, at, v, k)
    BY <1>1, InsertedEdit, ArrayAssumption
<1> HIDE DEF t
<1>3. CASE at > Len(s)
    <2>1. IsCounted(w, s, at - 1)
        BY <1>1, <1>3, FilledCounts
    <2> HIDE DEF w
    <2>2. Holds(Inserted(a, at, v, k), t)
        BY <1>1, <1>2, <1>3, <2>1, InsertsBehind
    <2>3. QED BY <2>2 DEF t
<1>4. CASE ~(at > Len(s))
    <2>1. w = s
        BY <1>1, <1>4, FilledSame
    <2> HIDE DEF w
    <2>2. Holds(Inserted(a, at, v, k), t)
        BY <1>1, <1>2, <1>4, <2>1, InsertsWithin
    <2>3. QED BY <2>2 DEF t
<1>5. QED BY <1>3, <1>4

LEMMA AddsEdit ==
    ASSUME NEW s \in Seq(Nat), NEW v \in CellValues
    PROVE  IsAdded(Edited(s, [name |-> "Insert", at |-> Len(s) + 1, value |-> v, n |-> 1]), s, v)
<1>1. Len(s) \in Nat /\ Len(s) + 1 \in Nat \ {0} /\ (Len(s) + 1) - 1 = Len(s) /\ v \in Nat
    BY LenProperties, ArrayAssumption
<1>2. Filled(s, Len(s)) = s
    BY <1>1, FilledSame
<1> DEFINE at == Len(s) + 1
<1>3. at \in Nat \ {0} /\ Filled(s, at - 1) = s
    BY <1>1, <1>2
<1> HIDE DEF at
<1>4. IsInserted(Edited(s, [name |-> "Insert", at |-> at, value |-> v, n |-> 1]), Filled(s, at - 1), at, v, 1)
    BY <1>1, <1>3, InsertedEdit
<1>5. QED BY <1>3, <1>4 DEF at, IsAdded

\* Every operation edits the sequence that the array holds.
LEMMA ArrayStep ==
    ASSUME NEW s, Holds(array, s), ArrayNext
    PROVE  Holds(array', Edited(s, edit'))
<1>1. s \in Seq(Nat) /\ Len(s) \in Nat /\ array.size = Len(s)
    BY LenProperties, ArrFields DEF Holds
<1>2. ASSUME NEW v \in CellValues, AddCell(v)
      PROVE  Holds(array', Edited(s, edit'))
    <2> DEFINE t == Edited(s, [name |-> "Insert", at |-> Len(s) + 1, value |-> v, n |-> 1])
    <2>1. IsAdded(t, s, v)
        BY <1>1, AddsEdit
    <2> HIDE DEF t
    <2>2. Holds([Build(GrowBuffer(array, array.size + 1), {array.size + 1}, v) EXCEPT !.size = @ + 1], t)
        BY <2>1, Adds
    <2>3. edit' = [name |-> "Insert", at |-> Len(s) + 1, value |-> v, n |-> 1]
        BY <1>1, <1>2 DEF AddCell
    <2>4. array' = [Build(GrowBuffer(array, array.size + 1), {array.size + 1}, v) EXCEPT !.size = @ + 1]
        BY <1>2 DEF AddCell
    <2>5. QED BY <2>2, <2>3, <2>4 DEF t
<1>3. ASSUME NEW n \in 0..MaxCells, NEW g \in GrowBys \cup {-1}, SetCellCount(n, g)
      PROVE  Holds(array', Edited(s, edit'))
    <2> DEFINE b == IF g = -1 THEN array ELSE [array EXCEPT !.growBy = g]
               t == Edited(s, [name |-> "SetCount", n |-> n])
    <2>1. n \in Nat
        BY ArrayAssumption
    <2>2. Holds(b, s)
        BY GrowthIsFree
    <2>3. IsCounted(t, s, n)
        BY <1>1, <2>1, CountedEdit
    <2>4. array' = SetCount(b, n) /\ edit' = [name |-> "SetCount", n |-> n]
        BY <1>3 DEF SetCellCount
    <2> HIDE DEF b, t
    <2>5. Holds(SetCount(b, n), t)
        BY <2>1, <2>2, <2>3, Counts
    <2>6. QED BY <2>4, <2>5 DEF t
<1>4. ASSUME NEW at \in 1..MaxCells, NEW v \in CellValues, NEW n \in 1..2, InsertCells(at, v, n)
      PROVE  Holds(array', Edited(s, edit'))
    <2>1. at \in Nat \ {0} /\ n \in Nat
        BY ArrayAssumption
    <2>2. Holds(Inserted(array, at, v, n), Edited(s, [name |-> "Insert", at |-> at, value |-> v, n |-> n]))
        BY <2>1, Inserts
    <2>3. QED BY <1>4, <2>2 DEF InsertCells
<1>5. ASSUME NEW at \in 1..MaxCells, NEW v \in CellValues, SetCellAt(at, v)
      PROVE  Holds(array', Edited(s, edit'))
    <2>1. at \in Nat \ {0}
        BY ArrayAssumption
    <2>2. Holds(array', [Filled(s, at) EXCEPT ![at] = v])
        BY <1>5, <2>1, SetsAt DEF SetCellAt
    <2>3. Edited(s, edit') = [Filled(s, at) EXCEPT ![at] = v]
        BY <1>5 DEF SetCellAt, Edited
    <2>4. QED BY <2>2, <2>3
<1>6. ASSUME NEW at \in 1..MaxCells, NEW n \in 1..2, RemoveCells(at, n)
      PROVE  Holds(array', Edited(s, edit'))
    <2> DEFINE t == Edited(s, [name |-> "Remove", at |-> at, n |-> n])
    <2>1. at \in Nat \ {0} /\ n \in Nat /\ n \in Int /\ n >= 0 /\ at + n - 1 <= Len(s)
        BY <1>1, <1>6, ArrayAssumption DEF RemoveCells
    <2>2. IsRemoved(t, s, at, n)
        BY <1>1, <2>1, RemovedEdit
    <2> HIDE DEF t
    <2>3. Holds([Relocate(Destroy(array, at..(at + n - 1)), at + n, array.size + 1 - at - n, -n)
                     EXCEPT !.size = @ - n], t)
        BY <2>1, <2>2, Removes
    <2>4. QED BY <1>6, <2>3 DEF RemoveCells, t
<1>7. CASE FreeExtra
    BY <1>7, Trims DEF FreeExtra
<1>8. QED BY <1>2, <1>3, <1>4, <1>5, <1>6, <1>7 DEF ArrayNext

LEMMA HeldContent ==
    ASSUME NEW a, NEW s, Holds(a, s)
    PROVE  SubSeq(a.data, 1, a.size) = s
<1>1. PICK n \in Nat, g \in Nat : n >= Len(s) /\ a = Arr(Buffer(s, n), Len(s), g)
    BY DEF Holds
<1>2. s \in Seq(Nat) /\ Len(s) \in Nat
    BY LenProperties DEF Holds
<1> DEFINE f == Buffer(s, n)
<1>3. IsBuffer(f, n) /\ \A i \in 1..n : f[i] = IF i <= Len(s) THEN s[i] ELSE Raw
    BY <1>2, BufferIs
<1>4. f \in Seq(Int) /\ Len(f) = n
    BY <1>3, BufferLength
<1>5. a.data = f /\ a.size = Len(s)
    BY <1>1, ArrFields
<1> HIDE DEF f
<1> DEFINE z == SubSeq(f, 1, Len(s))
<1>6. /\ z \in Seq(Int) /\ Len(z) = Len(s) - 1 + 1
      /\ \A i \in 1..(Len(s) - 1 + 1) : z[i] = f[1 + i - 1]
    <2>1. \A i \in 1..Len(s) : f[i] \in Int
        BY <1>1, <1>2, <1>3 DEF IsBuffer
    <2>2. QED BY <2>1, <1>1, <1>2, SubSeqProperties
<1> HIDE DEF z
<1>7. Len(z) = Len(s) /\ \A i \in 1..Len(s) : z[i] = s[i]
    BY <1>1, <1>2, <1>3, <1>6
<1>8. s \in Seq(Int)
    BY <1>2, SeqMonotonic
<1>9. z = s
    BY <1>6, <1>7, <1>8, SeqEqual
<1>10. QED BY <1>5, <1>9 DEF z

LEMMA HeldObjects ==
    ASSUME NEW s, Holds(array, s)
    PROVE  ObjectsExact
<1>1. PICK n \in Nat, g \in Nat : n >= Len(s) /\ array = Arr(Buffer(s, n), Len(s), g)
    BY DEF Holds
<1>2. s \in Seq(Nat) /\ Len(s) \in Nat
    BY LenProperties DEF Holds
<1> DEFINE f == Buffer(s, n)
<1>3. IsBuffer(f, n) /\ \A i \in 1..n : f[i] = Raw <=> i > Len(s)
    BY <1>2, BufferIs
<1>4. Len(f) = n /\ DOMAIN f = 1..n
    BY <1>3, BufferLength
<1>5. array.data = f /\ array.size = Len(s) /\ ~array.misused
    BY <1>1, ArrFields
<1> HIDE DEF f
<1>6. Live(array, 1..n) = 1..Len(s)
    BY <1>1, <1>2, <1>3, <1>5 DEF Live
<1>7. QED BY <1>1, <1>4, <1>5, <1>6 DEF ObjectsExact

\* The inductive invariant: the array holds some sequence.
HoldsSome == \E s : Holds(array, s)

LEMMA ArrayHolds ==
    ArraySpec => []HoldsSome
<1>1. ArrayInit => HoldsSome
    <2> SUFFICES ASSUME ArrayInit PROVE HoldsSome
        OBVIOUS
    <2>1. Buffer(<<>>, 0) = <<>> /\ <<>> \in Seq(Nat) /\ Len(<<>>) = 0
        BY DEF Buffer
    <2>2. array = Arr(<<>>, 0, 0)
        BY DEF ArrayInit, NewArray, Arr
    <2>3. Holds(array, <<>>)
        BY <2>1, <2>2 DEF Holds
    <2>4. QED BY <2>3 DEF HoldsSome
<1>2. HoldsSome /\ [ArrayNext]_arrayVars => HoldsSome'
    <2> SUFFICES ASSUME HoldsSome, [ArrayNext]_arrayVars PROVE HoldsSome'
        OBVIOUS
    <2>1. PICK s : Holds(array, s)
        BY DEF HoldsSome
    <2>2. CASE ArrayNext
        <3>1. Holds(array', Edited(s, edit'))
            BY <2>1, <2>2, ArrayStep
        <3>2. QED BY <3>1 DEF HoldsSome
    <2>3. CASE UNCHANGED arrayVars
        BY <2>1, <2>3 DEF HoldsSome, arrayVars
    <2>4. QED BY <2>2, <2>3
<1>3. QED BY <1>1, <1>2, PTL DEF ArraySpec

\* Objects are where the array thinks they are, whatever is built, moved and
\* destroyed by hand: InsertAt, RemoveAt, SetCount and GrowBuffer neither
\* build over an object nor assign to bare memory.
THEOREM ObjectsExactHolds ==
    ArraySpec => []ObjectsExact
<1>1. HoldsSome => ObjectsExact
    BY HeldObjects DEF HoldsSome
<1>2. QED BY <1>1, ArrayHolds, PTL

\* Every operation of the array edits the sequence of its elements as its
\* name says: growing, moving and trimming the buffer loses and mixes up none.
THEOREM ArrayIsSequenceHolds ==
    ArraySpec => ArrayIsSequence
<1>1. HoldsSome /\ HoldsSome' /\ [ArrayNext]_arrayVars => [Content' = Edited(Content, edit')]_arrayVars
    <2> SUFFICES ASSUME HoldsSome, HoldsSome', ArrayNext PROVE Content' = Edited(Content, edit')
        OBVIOUS
    <2>1. PICK s : Holds(array, s)
        BY DEF HoldsSome
    <2>2. Content = s
        BY <2>1, HeldContent DEF Content
    <2>3. Holds(array', Edited(s, edit'))
        BY <2>1, ArrayStep
    <2>4. Content' = Edited(s, edit')
        BY <2>3, HeldContent DEF Content
    <2>5. QED BY <2>2, <2>4
<1>2. QED BY <1>1, ArrayHolds, PTL DEF ArraySpec, ArrayIsSequence

\* The array of the library is used like any other.
THEOREM LibraryArrayHolds ==
    LibrarySpec => []ObjectsExact /\ ArrayIsSequence
<1>1. LibraryInit => ArrayInit
    BY DEF LibraryInit
<1>2. [LibraryNext]_libraryVars => [ArrayNext]_arrayVars
    BY DEF LibraryNext, libraryVars, UseFifo, UseSet, UseMulti, UseTree, UseHash, UseList, UseArray
<1>3. LibrarySpec => ArraySpec
    BY <1>1, <1>2, PTL DEF LibrarySpec, ArraySpec
<1>4. QED BY <1>3, ObjectsExactHolds, ArrayIsSequenceHolds

-----------------------------------------------------------------------------

\* The list of the library is used like any other.
THEOREM LibraryListHolds ==
    LibrarySpec => []ListCoherent /\ ListIsSequence
<1>1. LibraryInit => ListInit
    BY DEF LibraryInit
<1>2. [LibraryNext]_libraryVars => [ListNext]_listVars
    BY DEF LibraryNext, libraryVars, UseFifo, UseSet, UseMulti, UseTree, UseHash, UseList, UseArray
<1>3. LibrarySpec => ListSpec
    BY <1>1, <1>2, PTL DEF LibrarySpec, ListSpec
<1>4. QED BY <1>3, ListCoherentHolds, ListIsSequenceHolds

-----------------------------------------------------------------------------

(***************************************************************************)
(* HashTable: the bins hold each key once, where its hash leads; the order *)
(* of a walk, by the bins and along a bin, survives whatever is added at   *)
(* the head of a bin or unlinked from it while the table is locked.        *)
(***************************************************************************)

Kinds == {"Map", "HashMap", "fastl"}

LoadSet == [optimal: Nat \ {0}, lo: Nat, hi: Nat]

BinOfKey(k, N) == HashOf[k] % N

\* N bins: a key is in its own bin only, and once.
Sound(f, N) ==
    /\ N \in Nat \ {0} /\ f \in [0..(N - 1) -> Seq(HashKeys)]
    /\ \A b \in 0..(N - 1) : \A i \in 1..Len(f[b]) :
          /\ BinOfKey(f[b][i], N) = b
          /\ \A j \in 1..Len(f[b]) : f[b][i] = f[b][j] => i = j

IsIn(f, N, k) == \E i \in 1..Len(f[BinOfKey(k, N)]) : f[BinOfKey(k, N)][i] = k

KeysIn(f, N) == {k \in HashKeys : IsIn(f, N, k)}

\* The order of a walk: by the bins, then along the bin.
Precedes(f, N, j, k) ==
    \/ BinOfKey(j, N) < BinOfKey(k, N)
    \/ /\ BinOfKey(j, N) = BinOfKey(k, N)
       /\ \E p, q \in 1..Len(f[BinOfKey(k, N)]) :
             p < q /\ f[BinOfKey(k, N)][p] = j /\ f[BinOfKey(k, N)][q] = k

TableFields(K, B, L) ==
    [kind: K, bins: B, nElements: Int, nLockCount: Int, load: L, free: Int, nodes: Int]

TypedTable(m) == m \in TableFields(Kinds, {m.bins}, LoadSet)

\* A table with the keys K in N bins.
Stores(m, N, K) == TypedTable(m) /\ Sound(m.bins, N) /\ KeysIn(m.bins, N) = K

CountsKeys(m, K) ==
    /\ IsFiniteSet(K) /\ m.nElements = Cardinality(K)
    /\ m.free \in Nat /\ m.nodes = m.nElements + m.free
    /\ m.kind = "fastl" => m.free < 2 * BlockSize

\* What the position has behind it and before it.
Walks(cur, f, N) ==
    /\ cur \in [at: HashKeys \cup {HashNULL}, active: BOOLEAN, seen: SUBSET HashKeys, stayed: SUBSET HashKeys]
    /\ ~cur.active => cur = Idle
    /\ cur.seen \subseteq KeysIn(f, N) /\ cur.stayed \subseteq KeysIn(f, N)
    /\ cur.at = HashNULL => cur.stayed \subseteq cur.seen
    /\ cur.at # HashNULL =>
          /\ cur.at \in KeysIn(f, N)
          /\ \A k \in cur.seen : Precedes(f, N, k, cur.at)
          /\ \A k \in cur.stayed \ cur.seen : k = cur.at \/ Precedes(f, N, cur.at, k)

HashHolds(m, cur, v, N, K) ==
    /\ Stores(m, N, K) /\ CountsKeys(m, K) /\ Walks(cur, m.bins, N)
    /\ m.nLockCount = IF cur.active THEN 1 ELSE 0
    /\ v \in [HashKeys -> HashValues \cup {0}]

\* The inductive invariant: keys, counts and position agree on what is in the
\* bins and in which order.
HashIInv ==
    \E N \in {BinCount(table)} : \E K \in {KeysIn(table.bins, N)} : HashHolds(table, cursor, valueOf, N, K)

LEMMA BinInRange ==
    ASSUME NEW N \in Nat \ {0}, NEW k \in HashKeys
    PROVE  BinOfKey(k, N) \in 0..(N - 1)
<1>1. HashOf[k] \in Nat
    BY HashAssumption
<1>2. QED BY <1>1 DEF BinOfKey

LEMMA HeadAdded ==
    ASSUME NEW s \in Seq(HashKeys), NEW key \in HashKeys
    PROVE  /\ <<key>> \o s \in Seq(HashKeys) /\ Len(<<key>> \o s) = Len(s) + 1
           /\ (<<key>> \o s)[1] = key
           /\ \A i \in 1..Len(s) : (<<key>> \o s)[i + 1] = s[i]
           /\ \A i \in 1..(Len(s) + 1) : i = 1 \/ (i - 1 \in 1..Len(s) /\ (<<key>> \o s)[i] = s[i - 1])
<1>1. <<key>> \in Seq(HashKeys) /\ Len(<<key>>) = 1 /\ Len(s) \in Nat
    OBVIOUS
<1>2. QED BY <1>1

LEMMA PlaceTaken ==
    ASSUME NEW s \in Seq(HashKeys), NEW p \in 1..Len(s)
    PROVE  /\ Seqs!RemoveAt(s, p) \in Seq(HashKeys) /\ Len(Seqs!RemoveAt(s, p)) = Len(s) - 1
           /\ \A i \in 1..(Len(s) - 1) : Seqs!RemoveAt(s, p)[i] = IF i < p THEN s[i] ELSE s[i + 1]
<1> DEFINE u == SubSeq(s, 1, p - 1)
           v == SubSeq(s, p + 1, Len(s))
<1>1. Len(s) \in Nat /\ p \in Nat /\ p >= 1 /\ p <= Len(s)
    OBVIOUS
<1>2. u \in Seq(HashKeys) /\ Len(u) = p - 1 /\ \A i \in 1..(p - 1) : u[i] = s[i]
    <2>1. \A i \in 1..(p - 1) : s[i] \in HashKeys
        BY <1>1, ElementOfSeq
    <2>2. QED BY <1>1, <2>1, SubSeqProperties
<1>3. v \in Seq(HashKeys) /\ Len(v) = Len(s) - p /\ \A i \in 1..(Len(s) - p) : v[i] = s[p + i]
    <2>1. \A i \in (p + 1)..Len(s) : s[i] \in HashKeys
        BY <1>1, ElementOfSeq
    <2>2. QED BY <1>1, <2>1, SubSeqProperties
<1>4. Seqs!RemoveAt(s, p) = u \o v
    BY DEF Seqs!RemoveAt
<1> HIDE DEF u, v
<1>5. Len(u \o v) = Len(s) - 1 /\ u \o v \in Seq(HashKeys)
    BY <1>1, <1>2, <1>3
<1>6. ASSUME NEW i \in 1..(Len(s) - 1) PROVE (u \o v)[i] = IF i < p THEN s[i] ELSE s[i + 1]
    <2>1. CASE i < p
        BY <1>1, <1>2, <1>3, <2>1
    <2>2. CASE ~(i < p)
        <3>1. i > Len(u) /\ i <= Len(u) + Len(v) /\ i - Len(u) = i - p + 1
            BY <1>1, <1>2, <1>3, <2>2
        <3>2. (u \o v)[i] = v[i - Len(u)]
            BY <1>2, <1>3, <3>1
        <3>3. i - p + 1 \in 1..(Len(s) - p) /\ p + (i - p + 1) = i + 1
            BY <1>1, <2>2
        <3>4. QED BY <3>1, <3>2, <3>3, <1>3, <2>2
    <2>3. QED BY <2>1, <2>2
<1>7. QED BY <1>4, <1>5, <1>6

HeadPut(g, f, N, key) == g = [f EXCEPT ![BinOfKey(key, N)] = <<key>> \o @]

NodeUnlinked(g, f, N, key, p) == g = [f EXCEPT ![BinOfKey(key, N)] = Seqs!RemoveAt(@, p)]

LEMMA PutBin ==
    ASSUME NEW f, NEW N, Sound(f, N), NEW key \in HashKeys, key \notin KeysIn(f, N),
           NEW g, HeadPut(g, f, N, key)
    PROVE  /\ Sound(g, N) /\ KeysIn(g, N) = KeysIn(f, N) \cup {key}
           /\ \A j, k \in HashKeys : Precedes(f, N, j, k) => Precedes(g, N, j, k)
<1> DEFINE h == BinOfKey(key, N)
           s == f[h]
           t == g[h]
<1>1. h \in 0..(N - 1) /\ N \in Nat \ {0}
    BY BinInRange DEF Sound
<1>2. f \in [0..(N - 1) -> Seq(HashKeys)] /\ s \in Seq(HashKeys)
    BY <1>1 DEF Sound
<1>3. t = <<key>> \o s /\ \A b \in 0..(N - 1) : b # h => g[b] = f[b]
    BY <1>1, <1>2 DEF HeadPut
<1>4. /\ t \in Seq(HashKeys) /\ Len(t) = Len(s) + 1 /\ t[1] = key
      /\ \A i \in 1..Len(s) : t[i + 1] = s[i]
      /\ \A i \in 1..(Len(s) + 1) : i = 1 \/ (i - 1 \in 1..Len(s) /\ t[i] = s[i - 1])
    <2> HIDE DEF h, s, t
    <2>1. QED BY <1>2, <1>3, HeadAdded
<1>5. g \in [0..(N - 1) -> Seq(HashKeys)]
    <2> HIDE DEF s
    <2>1. DOMAIN g = DOMAIN f /\ g = [b \in 0..(N - 1) |-> g[b]]
        BY <1>2 DEF HeadPut
    <2>2. \A b \in 0..(N - 1) : g[b] \in Seq(HashKeys)
        BY <1>2, <1>3, <1>4
    <2>3. QED BY <2>1, <2>2
<1>6. \A b \in 0..(N - 1) : b # h => \A i \in 1..Len(f[b]) :
          BinOfKey(f[b][i], N) = b /\ \A j \in 1..Len(f[b]) : f[b][i] = f[b][j] => i = j
    BY DEF Sound
<1>7. /\ \A i \in 1..Len(s) : BinOfKey(s[i], N) = h /\ s[i] # key /\ s[i] \in HashKeys
      /\ \A i, j \in 1..Len(s) : s[i] = s[j] => i = j
      /\ Len(s) \in Nat
    <2>1. \A i \in 1..Len(s) : s[i] # key
        BY DEF KeysIn, IsIn
    <2>2. \A i \in 1..Len(s) : s[i] \in HashKeys
        BY <1>2
    <2>3. \A i \in 1..Len(s) : BinOfKey(s[i], N) = h /\ \A j \in 1..Len(s) : s[i] = s[j] => i = j
        BY <1>1 DEF Sound
    <2>4. Len(s) \in Nat
        BY <1>2
    <2> HIDE DEF s
    <2>5. QED BY <2>1, <2>2, <2>3, <2>4
<1>8. BinOfKey(key, N) = h
    OBVIOUS
<1> HIDE DEF h, s, t
<1>9. \A i \in 1..Len(t) : BinOfKey(t[i], N) = h /\ \A j \in 1..Len(t) : t[i] = t[j] => i = j
    <2> SUFFICES ASSUME NEW i \in 1..Len(t)
                 PROVE  BinOfKey(t[i], N) = h /\ \A j \in 1..Len(t) : t[i] = t[j] => i = j
        OBVIOUS
    <2>1. i = 1 \/ (i - 1 \in 1..Len(s) /\ t[i] = s[i - 1])
        BY <1>4
    <2>2. \A j \in 1..Len(t) : j = 1 \/ (j - 1 \in 1..Len(s) /\ t[j] = s[j - 1])
        BY <1>4
    <2>3. BinOfKey(t[i], N) = h
        BY <2>1, <1>4, <1>7, <1>8
    <2>4. ASSUME NEW j \in 1..Len(t), t[i] = t[j] PROVE i = j
        <3>1. CASE i = 1
            BY <3>1, <2>2, <2>4, <1>4, <1>7
        <3>2. CASE j = 1
            BY <3>2, <2>1, <2>4, <1>4, <1>7
        <3>3. CASE i # 1 /\ j # 1
            <4>1. i - 1 \in 1..Len(s) /\ j - 1 \in 1..Len(s) /\ s[i - 1] = s[j - 1]
                BY <3>3, <2>1, <2>2, <2>4
            <4>2. i - 1 = j - 1
                BY <4>1, <1>7
            <4>3. QED BY <4>2
        <3>4. QED BY <3>1, <3>2, <3>3
    <2>5. QED BY <2>3, <2>4
<1>10. Sound(g, N)
    <2>1. \A b \in 0..(N - 1) : \A i \in 1..Len(g[b]) :
              BinOfKey(g[b][i], N) = b /\ \A j \in 1..Len(g[b]) : g[b][i] = g[b][j] => i = j
        BY <1>3, <1>6, <1>9 DEF t
    <2>2. QED BY <2>1, <1>1, <1>5 DEF Sound
<1>11. \A k \in HashKeys : IsIn(g, N, k) <=> IsIn(f, N, k) \/ k = key
    <2> SUFFICES ASSUME NEW k \in HashKeys PROVE IsIn(g, N, k) <=> IsIn(f, N, k) \/ k = key
        OBVIOUS
    <2>1. BinOfKey(k, N) \in 0..(N - 1)
        BY <1>1, BinInRange
    <2>2. CASE BinOfKey(k, N) # h
        BY <2>1, <2>2, <1>3, <1>8 DEF IsIn
    <2>3. CASE BinOfKey(k, N) = h
        <3>1. IsIn(g, N, k) <=> \E i \in 1..Len(t) : t[i] = k
            BY <2>3 DEF IsIn, t
        <3>2. IsIn(f, N, k) <=> \E i \in 1..Len(s) : s[i] = k
            BY <2>3 DEF IsIn, s
        <3>3. 1 \in 1..Len(t) /\ \A i \in 1..Len(s) : i + 1 \in 1..Len(t)
            BY <1>4, <1>7
        <3>4. QED BY <3>1, <3>2, <3>3, <1>4
    <2>4. QED BY <2>2, <2>3
<1>12. KeysIn(g, N) = KeysIn(f, N) \cup {key}
    BY <1>11 DEF KeysIn
<1>13. ASSUME NEW j \in HashKeys, NEW k \in HashKeys, Precedes(f, N, j, k) PROVE Precedes(g, N, j, k)
    <2>1. BinOfKey(k, N) \in 0..(N - 1)
        BY <1>1, BinInRange
    <2>2. CASE BinOfKey(j, N) < BinOfKey(k, N)
        BY <2>2 DEF Precedes
    <2>3. CASE ~(BinOfKey(j, N) < BinOfKey(k, N)) /\ BinOfKey(k, N) # h
        <3>1. g[BinOfKey(k, N)] = f[BinOfKey(k, N)]
            BY <2>1, <2>3, <1>3
        <3>2. QED BY <3>1, <2>3, <1>13 DEF Precedes
    <2>4. CASE ~(BinOfKey(j, N) < BinOfKey(k, N)) /\ BinOfKey(k, N) = h
        <3>1. PICK p \in 1..Len(s), q \in 1..Len(s) : p < q /\ s[p] = j /\ s[q] = k
            BY <2>4, <1>13 DEF Precedes, s
        <3>2. p + 1 \in 1..Len(t) /\ q + 1 \in 1..Len(t) /\ p + 1 < q + 1 /\ t[p + 1] = j /\ t[q + 1] = k
            BY <3>1, <1>4, <1>7
        <3>3. \E x, y \in 1..Len(t) : x < y /\ t[x] = j /\ t[y] = k
            BY <3>2
        <3>4. QED BY <3>3, <2>4, <1>13 DEF Precedes, t
    <2>5. QED BY <2>2, <2>3, <2>4
<1>14. QED BY <1>10, <1>12, <1>13

LEMMA TakeBin ==
    ASSUME NEW f, NEW N, Sound(f, N), NEW key \in KeysIn(f, N), NEW p \in 1..Len(f[BinOfKey(key, N)]),
           f[BinOfKey(key, N)][p] = key,
           NEW g, NodeUnlinked(g, f, N, key, p)
    PROVE  /\ Sound(g, N) /\ KeysIn(g, N) = KeysIn(f, N) \ {key}
           /\ \A j, k \in HashKeys \ {key} : Precedes(f, N, j, k) => Precedes(g, N, j, k)
<1> DEFINE h == BinOfKey(key, N)
           s == f[h]
           t == g[h]
<1>0. key \in HashKeys
    BY DEF KeysIn
<1>1. h \in 0..(N - 1) /\ N \in Nat \ {0}
    BY <1>0, BinInRange DEF Sound
<1>2. f \in [0..(N - 1) -> Seq(HashKeys)] /\ s \in Seq(HashKeys)
    BY <1>1 DEF Sound
<1>3. t = Seqs!RemoveAt(s, p) /\ \A b \in 0..(N - 1) : b # h => g[b] = f[b]
    BY <1>1, <1>2 DEF NodeUnlinked
<1>4. /\ t \in Seq(HashKeys) /\ Len(t) = Len(s) - 1
      /\ \A i \in 1..(Len(s) - 1) : t[i] = IF i < p THEN s[i] ELSE s[i + 1]
    <2> HIDE DEF h, t
    <2>1. p \in 1..Len(s)
        BY DEF h
    <2> HIDE DEF s
    <2>2. QED BY <1>2, <1>3, <2>1, PlaceTaken
<1>5. g \in [0..(N - 1) -> Seq(HashKeys)]
    <2> HIDE DEF s
    <2>1. DOMAIN g = DOMAIN f /\ g = [b \in 0..(N - 1) |-> g[b]]
        BY <1>2 DEF NodeUnlinked
    <2>2. \A b \in 0..(N - 1) : g[b] \in Seq(HashKeys)
        BY <1>2, <1>3, <1>4
    <2>3. QED BY <2>1, <2>2
<1>6. \A b \in 0..(N - 1) : b # h => \A i \in 1..Len(f[b]) :
          BinOfKey(f[b][i], N) = b /\ \A j \in 1..Len(f[b]) : f[b][i] = f[b][j] => i = j
    BY DEF Sound
<1>7. /\ \A i \in 1..Len(s) : BinOfKey(s[i], N) = h /\ s[i] \in HashKeys /\ (s[i] = key <=> i = p)
      /\ \A i, j \in 1..Len(s) : s[i] = s[j] => i = j
      /\ Len(s) \in Nat /\ p \in 1..Len(s) /\ p \in Nat
    <2>2. \A i \in 1..Len(s) : s[i] \in HashKeys
        BY <1>2
    <2>3. \A i \in 1..Len(s) : BinOfKey(s[i], N) = h /\ \A j \in 1..Len(s) : s[i] = s[j] => i = j
        BY <1>1 DEF Sound
    <2>4. QED BY <2>2, <2>3, <1>2
<1>8. BinOfKey(key, N) = h
    OBVIOUS
<1> HIDE DEF h, s, t
<1>9. \A i \in 1..Len(t) : BinOfKey(t[i], N) = h /\ \A j \in 1..Len(t) : t[i] = t[j] => i = j
    <2> SUFFICES ASSUME NEW i \in 1..Len(t), NEW j \in 1..Len(t)
                 PROVE  BinOfKey(t[i], N) = h /\ (t[i] = t[j] => i = j)
        OBVIOUS
    <2>1. /\ i \in 1..(Len(s) - 1) /\ j \in 1..(Len(s) - 1)
          /\ i \in 1..Len(s) /\ j \in 1..Len(s) /\ i + 1 \in 1..Len(s) /\ j + 1 \in 1..Len(s)
        BY <1>4, <1>7
    <2>2. t[i] = IF i < p THEN s[i] ELSE s[i + 1]
        BY <2>1, <1>4
    <2>3. t[j] = IF j < p THEN s[j] ELSE s[j + 1]
        BY <2>1, <1>4
    <2>4. QED BY <2>1, <2>2, <2>3, <1>7
<1>10. Sound(g, N)
    <2>1. \A b \in 0..(N - 1) : \A i \in 1..Len(g[b]) :
              BinOfKey(g[b][i], N) = b /\ \A j \in 1..Len(g[b]) : g[b][i] = g[b][j] => i = j
        BY <1>3, <1>6, <1>9 DEF t
    <2>2. QED BY <2>1, <1>1, <1>5 DEF Sound
<1>100. \A i \in 1..Len(s) : i # p => \E x \in 1..Len(t) : t[x] = s[i] /\ x = IF i < p THEN i ELSE i - 1
    <2> SUFFICES ASSUME NEW i \in 1..Len(s), i # p, NEW x, x = IF i < p THEN i ELSE i - 1
                 PROVE  x \in 1..Len(t) /\ t[x] = s[i]
        OBVIOUS
    <2>1. x \in 1..(Len(s) - 1) /\ (i < p => x < p /\ x = i) /\ (~(i < p) => ~(x < p) /\ x + 1 = i)
        BY <1>7
    <2>2. QED BY <2>1, <1>4
<1>11. \A k \in HashKeys : IsIn(g, N, k) <=> IsIn(f, N, k) /\ k # key
    <2> SUFFICES ASSUME NEW k \in HashKeys PROVE IsIn(g, N, k) <=> IsIn(f, N, k) /\ k # key
        OBVIOUS
    <2>1. BinOfKey(k, N) \in 0..(N - 1)
        BY <1>1, BinInRange
    <2>2. CASE BinOfKey(k, N) # h
        BY <2>1, <2>2, <1>3, <1>8 DEF IsIn
    <2>3. CASE BinOfKey(k, N) = h
        <3>1. IsIn(g, N, k) <=> \E i \in 1..Len(t) : t[i] = k
            BY <2>3 DEF IsIn, t
        <3>2. IsIn(f, N, k) <=> \E i \in 1..Len(s) : s[i] = k
            BY <2>3 DEF IsIn, s
        <3>3. ASSUME NEW i \in 1..Len(t), t[i] = k PROVE \E x \in 1..Len(s) : s[x] = k /\ x # p
            <4>1. i \in 1..(Len(s) - 1) /\ i \in 1..Len(s) /\ i + 1 \in 1..Len(s)
                BY <1>4, <1>7
            <4>2. t[i] = IF i < p THEN s[i] ELSE s[i + 1]
                BY <4>1, <1>4
            <4>3. QED BY <4>1, <4>2, <3>3, <1>7
        <3>4. QED BY <3>1, <3>2, <3>3, <1>7, <1>100
    <2>4. QED BY <2>2, <2>3
<1>12. KeysIn(g, N) = KeysIn(f, N) \ {key}
    BY <1>11 DEF KeysIn
<1>13. ASSUME NEW j \in HashKeys \ {key}, NEW k \in HashKeys \ {key}, Precedes(f, N, j, k) PROVE Precedes(g, N, j, k)
    <2>1. BinOfKey(k, N) \in 0..(N - 1)
        BY <1>1, BinInRange
    <2>2. CASE BinOfKey(j, N) < BinOfKey(k, N)
        BY <2>2 DEF Precedes
    <2>3. CASE ~(BinOfKey(j, N) < BinOfKey(k, N)) /\ BinOfKey(k, N) # h
        <3>1. g[BinOfKey(k, N)] = f[BinOfKey(k, N)]
            BY <2>1, <2>3, <1>3
        <3>2. QED BY <3>1, <2>3, <1>13 DEF Precedes
    <2>4. CASE ~(BinOfKey(j, N) < BinOfKey(k, N)) /\ BinOfKey(k, N) = h
        <3>1. PICK x \in 1..Len(s), y \in 1..Len(s) : x < y /\ s[x] = j /\ s[y] = k
            BY <2>4, <1>13 DEF Precedes, s
        <3>2. x # p /\ y # p
            BY <3>1, <1>7
        <3>3. PICK v \in 1..Len(t) : t[v] = j /\ v = IF x < p THEN x ELSE x - 1
            BY <3>1, <3>2, <1>100
        <3>4. PICK w \in 1..Len(t) : t[w] = k /\ w = IF y < p THEN y ELSE y - 1
            BY <3>1, <3>2, <1>100
        <3>5. v < w
            BY <3>1, <3>2, <3>3, <3>4, <1>7
        <3>6. QED BY <3>3, <3>4, <3>5, <2>4, <1>13 DEF Precedes, t
    <2>5. QED BY <2>2, <2>3, <2>4
<1>14. QED BY <1>10, <1>12, <1>13

LEMMA BinsCounted ==
    ASSUME NEW N \in Nat \ {0}, NEW m, DOMAIN m.bins = 0..(N - 1)
    PROVE  BinCount(m) = N
<1>1. Cardinality(0..(N - 1)) = N
    BY FS_Interval
<1>2. QED BY <1>1 DEF BinCount

LEMMA PrecedesOnce ==
    ASSUME NEW f, NEW N, Sound(f, N), NEW k \in HashKeys
    PROVE  ~Precedes(f, N, k, k)
<1> DEFINE b == BinOfKey(k, N)
<1>1. b \in 0..(N - 1)
    BY BinInRange DEF Sound
<1>2. \A i, j \in 1..Len(f[b]) : f[b][i] = f[b][j] => i = j
    BY <1>1 DEF Sound
<1>3. Len(f[b]) \in Nat
    BY <1>1, LenProperties DEF Sound
<1> HIDE DEF b
<1>4. SUFFICES ASSUME Precedes(f, N, k, k) PROVE FALSE
    OBVIOUS
<1>5. ~(b < b)
    BY <1>1
<1>6. PICK p \in 1..Len(f[b]), q \in 1..Len(f[b]) : p < q /\ f[b][p] = k /\ f[b][q] = k
    BY <1>4, <1>5 DEF Precedes, b
<1>7. QED BY <1>6, <1>2, <1>3

LEMMA PrecedesOn ==
    ASSUME NEW f, NEW N, Sound(f, N), NEW i \in HashKeys, NEW j \in HashKeys, NEW k \in HashKeys,
           Precedes(f, N, i, j), Precedes(f, N, j, k)
    PROVE  Precedes(f, N, i, k)
<1>1. /\ BinOfKey(i, N) \in 0..(N - 1) /\ BinOfKey(j, N) \in 0..(N - 1) /\ BinOfKey(k, N) \in 0..(N - 1)
      /\ N \in Nat \ {0}
    BY BinInRange DEF Sound
<1>2. BinOfKey(i, N) <= BinOfKey(j, N) /\ BinOfKey(j, N) <= BinOfKey(k, N)
    BY <1>1 DEF Precedes
<1>3. CASE BinOfKey(i, N) < BinOfKey(k, N)
    BY <1>3 DEF Precedes
<1>4. CASE ~(BinOfKey(i, N) < BinOfKey(k, N))
    <2>1. BinOfKey(i, N) = BinOfKey(k, N) /\ BinOfKey(j, N) = BinOfKey(k, N)
        BY <1>1, <1>2, <1>4
    <2> DEFINE s == f[BinOfKey(k, N)]
    <2>2. ~(BinOfKey(k, N) < BinOfKey(k, N))
        BY <1>1
    <2>3. PICK p \in 1..Len(s), q \in 1..Len(s) : p < q /\ s[p] = i /\ s[q] = j
        BY <2>1, <2>2 DEF Precedes
    <2>4. PICK x \in 1..Len(s), y \in 1..Len(s) : x < y /\ s[x] = j /\ s[y] = k
        BY <2>1, <2>2 DEF Precedes
    <2>5. q = x
        BY <1>1, <2>3, <2>4 DEF Sound
    <2>6. Len(s) \in Nat
        BY <1>1, LenProperties DEF Sound
    <2> HIDE DEF s
    <2>7. p < y
        BY <2>3, <2>4, <2>5, <2>6
    <2>8. QED BY <2>1, <2>3, <2>4, <2>7 DEF Precedes, s
<1>5. QED BY <1>3, <1>4

\* The head of the first bin from b on that has a node.
LEMMA FirstFromIs ==
    ASSUME NEW m, NEW N, Sound(m.bins, N), NEW b \in 0..N
    PROVE  \/ FirstFrom(m, b) = HashNULL /\ \A k \in KeysIn(m.bins, N) : BinOfKey(k, N) < b
           \/ /\ FirstFrom(m, b) \in KeysIn(m.bins, N) /\ BinOfKey(FirstFrom(m, b), N) >= b
              /\ \A k \in KeysIn(m.bins, N) :
                    BinOfKey(k, N) >= b => k = FirstFrom(m, b) \/ Precedes(m.bins, N, FirstFrom(m, b), k)
<1> DEFINE f == m.bins
           filled == {i \in b..(N - 1) : f[i] # <<>>}
<1>1. N \in Nat \ {0} /\ f \in [0..(N - 1) -> Seq(HashKeys)] /\ BinCount(m) = N
    BY BinsCounted DEF Sound
<1>2. FirstFrom(m, b) =
          IF filled = {} THEN HashNULL ELSE Head(f[CHOOSE i \in filled : \A j \in filled : i <= j])
    BY <1>1 DEF FirstFrom
<1>3. \A k \in KeysIn(f, N) : BinOfKey(k, N) \in 0..(N - 1) /\ f[BinOfKey(k, N)] # <<>> /\ k \in HashKeys
    <2> TAKE k \in KeysIn(f, N)
    <2>1. PICK i \in 1..Len(f[BinOfKey(k, N)]) : f[BinOfKey(k, N)][i] = k
        BY DEF KeysIn, IsIn
    <2>2. k \in HashKeys
        BY DEF KeysIn
    <2>3. QED BY <2>1, <2>2, <1>1, BinInRange
<1>4. CASE filled = {}
    <2>1. \A k \in KeysIn(f, N) : BinOfKey(k, N) < b
        BY <1>1, <1>3, <1>4
    <2>2. QED BY <2>1, <1>2, <1>4
<1>5. CASE filled # {}
    <2>1. filled \subseteq Nat
        BY <1>1
    <2>2. \E i \in filled : \A j \in filled : i <= j
        <3> HIDE DEF filled
        <3>1. QED BY <2>1, <1>5, LeastNatural
    <2>3. PICK c1 : c1 = CHOOSE i \in filled : \A j \in filled : i <= j
        OBVIOUS
    <2>4. c1 \in filled /\ \A j \in filled : c1 <= j
        BY <2>2, <2>3
    <2> DEFINE s == f[c1]
    <2>5. c1 \in 0..(N - 1) /\ c1 >= b /\ s \in Seq(HashKeys) /\ s # <<>>
        BY <2>4, <1>1
    <2>6. FirstFrom(m, b) = s[1] /\ 1 \in 1..Len(s) /\ s[1] \in HashKeys /\ Len(s) \in Nat
        <3>1. FirstFrom(m, b) = Head(s)
            BY <1>2, <1>5, <2>3
        <3> HIDE DEF s
        <3>2. QED BY <2>5, <3>1
    <2>7. BinOfKey(s[1], N) = c1
        BY <2>5, <2>6 DEF Sound
    <2>8. s[1] \in KeysIn(f, N)
        BY <2>6, <2>7 DEF KeysIn, IsIn
    <2>9. ASSUME NEW k \in KeysIn(f, N), BinOfKey(k, N) >= b PROVE k = s[1] \/ Precedes(f, N, s[1], k)
        <3>1. BinOfKey(k, N) \in filled
            BY <2>9, <1>1, <1>3
        <3>2. BinOfKey(k, N) >= c1
            BY <3>1, <2>4, <1>1
        <3>3. CASE BinOfKey(k, N) > c1
            BY <3>3, <2>7, <1>1, <2>5, <1>3 DEF Precedes
        <3>4. CASE BinOfKey(k, N) = c1
            <4>1. PICK i \in 1..Len(s) : s[i] = k
                BY <3>4 DEF KeysIn, IsIn
            <4>2. i = 1 \/ 1 < i
                BY <2>6
            <4>3. QED BY <4>1, <4>2, <3>4, <2>6, <2>7 DEF Precedes
        <3>5. QED BY <3>2, <3>3, <3>4, <1>3, <2>5
    <2>10. QED BY <2>5, <2>6, <2>7, <2>8, <2>9
<1>6. QED BY <1>4, <1>5

LEMMA PlaceIs ==
    ASSUME NEW m, NEW N, Sound(m.bins, N), NEW key \in KeysIn(m.bins, N)
    PROVE  /\ BinOf(m, key) = BinOfKey(key, N)
           /\ PlaceOf(m, key) \in 1..Len(m.bins[BinOfKey(key, N)])
           /\ m.bins[BinOfKey(key, N)][PlaceOf(m, key)] = key
<1>1. BinCount(m) = N
    BY BinsCounted DEF Sound
<1>2. BinOf(m, key) = BinOfKey(key, N)
    BY <1>1 DEF BinOf, BinOfKey
<1>3. \E i \in 1..Len(m.bins[BinOfKey(key, N)]) : m.bins[BinOfKey(key, N)][i] = key
    BY DEF KeysIn, IsIn
<1>4. QED BY <1>2, <1>3 DEF PlaceOf

LEMMA NextIs ==
    ASSUME NEW m, NEW N, Sound(m.bins, N), NEW key \in KeysIn(m.bins, N)
    PROVE  \/ FindNextNode(m, key) = HashNULL /\ \A k \in KeysIn(m.bins, N) : ~Precedes(m.bins, N, key, k)
           \/ /\ FindNextNode(m, key) \in KeysIn(m.bins, N) /\ Precedes(m.bins, N, key, FindNextNode(m, key))
              /\ \A k \in KeysIn(m.bins, N) : Precedes(m.bins, N, key, k) =>
                    k = FindNextNode(m, key) \/ Precedes(m.bins, N, FindNextNode(m, key), k)
<1> DEFINE f == m.bins
           h == BinOfKey(key, N)
           s == f[h]
<1>1. PICK p \in 1..Len(s) : p = PlaceOf(m, key) /\ s[p] = key /\ BinOf(m, key) = h
    BY PlaceIs
<1>2. N \in Nat \ {0} /\ h \in 0..(N - 1) /\ s \in Seq(HashKeys) /\ Len(s) \in Nat /\ key \in HashKeys
    <2>1. key \in HashKeys
        BY DEF KeysIn
    <2>2. QED BY <2>1, BinInRange, LenProperties DEF Sound
<1>3. FindNextNode(m, key) = IF p < Len(s) THEN s[p + 1] ELSE FirstFrom(m, h + 1)
    BY <1>1 DEF FindNextNode
<1>4. \A i \in 1..Len(s) : BinOfKey(s[i], N) = h /\ \A j \in 1..Len(s) : s[i] = s[j] => i = j
    BY <1>2 DEF Sound
<1>5. \A k \in KeysIn(f, N) : k \in HashKeys /\ BinOfKey(k, N) \in 0..(N - 1)
    BY <1>2, BinInRange DEF KeysIn
<1>6. \A k \in KeysIn(f, N) : BinOfKey(k, N) = h => \E i \in 1..Len(s) : s[i] = k
    BY DEF KeysIn, IsIn
<1>7. \A k : Precedes(f, N, key, k) <=>
          h < BinOfKey(k, N) \/ (h = BinOfKey(k, N) /\ \E q \in 1..Len(s) : p < q /\ s[q] = k)
    <2> SUFFICES ASSUME NEW k
                 PROVE  Precedes(f, N, key, k) <=>
                        h < BinOfKey(k, N) \/ (h = BinOfKey(k, N) /\ \E q \in 1..Len(s) : p < q /\ s[q] = k)
        OBVIOUS
    <2>1. CASE h = BinOfKey(k, N)
        <3>1. \A x \in 1..Len(s) : s[x] = key => x = p
            BY <1>1, <1>4
        <3>2. QED BY <2>1, <3>1, <1>1 DEF Precedes
    <2>2. CASE h # BinOfKey(k, N)
        BY <2>2 DEF Precedes
    <2>3. QED BY <2>1, <2>2
<1>8. CASE p < Len(s)
    <2> DEFINE r == s[p + 1]
    <2>1. p + 1 \in 1..Len(s) /\ r \in HashKeys /\ p < p + 1
        BY <1>2, <1>8
    <2>2. FindNextNode(m, key) = r /\ BinOfKey(r, N) = h
        BY <1>3, <1>8, <2>1, <1>4
    <2>3. r \in KeysIn(f, N) /\ Precedes(f, N, key, r)
        BY <2>1, <2>2, <1>7 DEF KeysIn, IsIn
    <2>4. ASSUME NEW k \in KeysIn(f, N), Precedes(f, N, key, k) PROVE k = r \/ Precedes(f, N, r, k)
        <3>1. CASE h < BinOfKey(k, N)
            BY <3>1, <2>2 DEF Precedes
        <3>2. CASE ~(h < BinOfKey(k, N))
            <4>1. PICK q \in 1..Len(s) : p < q /\ s[q] = k
                BY <3>2, <2>4, <1>7
            <4>2. h = BinOfKey(k, N)
                BY <3>2, <2>4, <1>7
            <4>3. q = p + 1 \/ p + 1 < q
                BY <4>1, <1>2
            <4>4. QED BY <4>1, <4>2, <4>3, <2>1, <2>2 DEF Precedes
        <3>3. QED BY <3>1, <3>2
    <2>5. QED BY <2>2, <2>3, <2>4
<1>9. CASE ~(p < Len(s))
    <2>1. FindNextNode(m, key) = FirstFrom(m, h + 1) /\ h + 1 \in 0..N
        BY <1>3, <1>9, <1>2
    <2>2. \A k \in KeysIn(f, N) : Precedes(f, N, key, k) <=> BinOfKey(k, N) >= h + 1
        <3> TAKE k \in KeysIn(f, N)
        <3>1. ~\E q \in 1..Len(s) : p < q /\ s[q] = k
            BY <1>9, <1>2
        <3>2. QED BY <3>1, <1>7, <1>2, <1>5
    <2> DEFINE r == FirstFrom(m, h + 1)
    <2>3. \/ r = HashNULL /\ \A k \in KeysIn(f, N) : BinOfKey(k, N) < h + 1
          \/ /\ r \in KeysIn(f, N) /\ BinOfKey(r, N) >= h + 1
             /\ \A k \in KeysIn(f, N) : BinOfKey(k, N) >= h + 1 => k = r \/ Precedes(f, N, r, k)
        <3>1. PICK b : b = h + 1
            OBVIOUS
        <3>2. b \in 0..N
            BY <3>1, <2>1
        <3>3. \/ FirstFrom(m, b) = HashNULL /\ \A k \in KeysIn(f, N) : BinOfKey(k, N) < b
              \/ /\ FirstFrom(m, b) \in KeysIn(f, N) /\ BinOfKey(FirstFrom(m, b), N) >= b
                 /\ \A k \in KeysIn(f, N) :
                       BinOfKey(k, N) >= b => k = FirstFrom(m, b) \/ Precedes(f, N, FirstFrom(m, b), k)
            BY <3>2, FirstFromIs
        <3>4. QED BY <3>1, <3>3
    <2> HIDE DEF r, h
    <2>4. CASE r = HashNULL /\ \A k \in KeysIn(f, N) : BinOfKey(k, N) < h + 1
        <3>1. \A k \in KeysIn(f, N) : ~Precedes(f, N, key, k)
            BY <2>2, <2>4, <1>2, <1>5
        <3>2. QED BY <3>1, <2>4, <2>1 DEF r
    <2>5. CASE /\ r \in KeysIn(f, N) /\ BinOfKey(r, N) >= h + 1
               /\ \A k \in KeysIn(f, N) : BinOfKey(k, N) >= h + 1 => k = r \/ Precedes(f, N, r, k)
        <3>1. FindNextNode(m, key) = r
            BY <2>1 DEF r
        <3>2. QED BY <2>5, <2>2, <3>1
    <2>6. QED BY <2>3, <2>4, <2>5
<1>10. QED BY <1>8, <1>9

LEMMA StartIs ==
    ASSUME NEW m, NEW N, Sound(m.bins, N), IsFiniteSet(KeysIn(m.bins, N)),
           m.nElements = Cardinality(KeysIn(m.bins, N))
    PROVE  \/ GetStartPosition(m) = HashNULL /\ KeysIn(m.bins, N) = {}
           \/ /\ GetStartPosition(m) \in KeysIn(m.bins, N)
              /\ \A k \in KeysIn(m.bins, N) :
                    k = GetStartPosition(m) \/ Precedes(m.bins, N, GetStartPosition(m), k)
<1>1. N \in Nat \ {0} /\ 0 \in 0..N
    BY DEF Sound
<1>2. m.nElements = 0 <=> KeysIn(m.bins, N) = {}
    BY FS_EmptySet
<1>3. \A k \in KeysIn(m.bins, N) : BinOfKey(k, N) \in 0..(N - 1)
    BY <1>1, BinInRange DEF KeysIn
<1>4. \A k \in KeysIn(m.bins, N) : BinOfKey(k, N) >= 0 /\ ~(BinOfKey(k, N) < 0)
    BY <1>1, <1>3
<1>5. CASE m.nElements = 0
    BY <1>2, <1>5 DEF GetStartPosition
<1>6. CASE m.nElements # 0
    <2>1. GetStartPosition(m) = FirstFrom(m, 0)
        BY <1>6 DEF GetStartPosition
    <2>2. QED BY <2>1, <1>1, <1>2, <1>4, <1>6, FirstFromIs
<1>7. QED BY <1>5, <1>6

IsStep(step, S, N) == step \in [(1..N) \X S -> S]

\* A table filled step by step exists.
LEMMA IteratesExist ==
    ASSUME NEW S, NEW base \in S, NEW N \in Nat, NEW step, IsStep(step, S, N)
    PROVE  \E A \in [0..N -> S] : A[0] = base /\ \A n \in 1..N : A[n] = step[<<n, A[n - 1]>>]
<1> DEFINE Upto(k, A) == A \in [0..k -> S] /\ A[0] = base /\ \A n \in 1..k : A[n] = step[<<n, A[n - 1]>>]
           Bad == {k \in 0..N : ~\E A : Upto(k, A)}
<1>1. Bad = {}
    <2>1. SUFFICES ASSUME Bad # {} PROVE FALSE
        OBVIOUS
    <2>2. PICK k \in Bad : \A j \in Bad : k <= j
        <3>1. Bad \subseteq Nat
            OBVIOUS
        <3> HIDE DEF Bad
        <3>2. QED BY <2>1, <3>1, LeastNatural
    <2>3. CASE k = 0
        <3>1. Upto(0, [n \in 0..0 |-> base])
            OBVIOUS
        <3>2. QED BY <3>1, <2>2, <2>3
    <2>4. CASE k # 0
        <3>1. k \in 1..N /\ k - 1 \in 0..N /\ ~(k <= k - 1) /\ k \in Nat
            BY <2>4
        <3>2. PICK A : Upto(k - 1, A)
            BY <2>2, <3>1
        <3> DEFINE B == [n \in 0..k |-> IF n = k THEN step[<<k, A[k - 1]>>] ELSE A[n]]
        <3>3. A[k - 1] \in S /\ step[<<k, A[k - 1]>>] \in S
            BY <3>1, <3>2 DEF IsStep
        <3>4. B \in [0..k -> S] /\ B[0] = base /\ B[k] = step[<<k, A[k - 1]>>] /\ \A n \in 0..(k - 1) : B[n] = A[n]
            BY <3>1, <3>2, <3>3
        <3> HIDE DEF B
        <3>5. \A n \in 1..k : B[n] = step[<<n, B[n - 1]>>]
            <4> SUFFICES ASSUME NEW n \in 1..k PROVE B[n] = step[<<n, B[n - 1]>>]
                OBVIOUS
            <4>1. n - 1 \in 0..(k - 1) /\ (n = k \/ n \in 1..(k - 1)) /\ (n \in 1..(k - 1) => n \in 0..(k - 1))
                BY <3>1
            <4>2. QED BY <4>1, <3>2, <3>4
        <3>6. Upto(k, B)
            BY <3>4, <3>5
        <3>7. QED BY <3>6, <2>2
    <2>5. QED BY <2>3, <2>4
<1>2. N \in 0..N
    OBVIOUS
<1>3. PICK A : Upto(N, A)
    BY <1>1, <1>2
<1>4. QED BY <1>3

\* The keys K, each once.
Lists(s, K) ==
    /\ s \in Seq(HashKeys) /\ \A i \in 1..Len(s) : s[i] \in K
    /\ \A k \in K : \E i \in 1..Len(s) : s[i] = k
    /\ \A i, j \in 1..Len(s) : s[i] = s[j] => i = j

LEMMA ListsJoined ==
    ASSUME NEW s, NEW t, NEW K, NEW L, Lists(s, K), Lists(t, L), K \cap L = {}
    PROVE  Lists(s \o t, K \cup L)
<1>1. s \in Seq(HashKeys) /\ t \in Seq(HashKeys) /\ Len(s) \in Nat /\ Len(t) \in Nat
    BY LenProperties DEF Lists
<1>2. s \o t \in Seq(HashKeys) /\ Len(s \o t) = Len(s) + Len(t)
    BY <1>1
<1> DEFINE u == s \o t
<1>3. \A i \in 1..Len(s) : i \in 1..Len(u) /\ u[i] = s[i]
    BY <1>1
<1>4. \A i \in 1..Len(t) : Len(s) + i \in 1..Len(u) /\ u[Len(s) + i] = t[i]
    BY <1>1
<1>5. \A i \in 1..Len(u) : i \in 1..Len(s) \/ (i - Len(s) \in 1..Len(t) /\ u[i] = t[i - Len(s)])
    BY <1>1, <1>2
<1>6. u \in Seq(HashKeys)
    BY <1>2
<1> HIDE DEF u
<1>7. \A i \in 1..Len(u) : u[i] \in K \cup L
    BY <1>3, <1>5 DEF Lists
<1>8. \A k \in K \cup L : \E i \in 1..Len(u) : u[i] = k
    <2>1. ASSUME NEW k \in K PROVE \E i \in 1..Len(u) : u[i] = k
        <3>1. PICK i \in 1..Len(s) : s[i] = k
            BY DEF Lists
        <3>2. QED BY <3>1, <1>3
    <2>2. ASSUME NEW k \in L PROVE \E i \in 1..Len(u) : u[i] = k
        <3>1. PICK i \in 1..Len(t) : t[i] = k
            BY DEF Lists
        <3>2. QED BY <3>1, <1>4
    <2>3. QED BY <2>1, <2>2
<1>9. ASSUME NEW i \in 1..Len(u), NEW j \in 1..Len(u), u[i] = u[j] PROVE i = j
    <2>1. CASE i \in 1..Len(s) /\ j \in 1..Len(s)
        BY <2>1, <1>3, <1>9 DEF Lists
    <2>2. \A x, y \in 1..Len(u) : x \in 1..Len(s) /\ y \notin 1..Len(s) => u[x] # u[y]
        <3> SUFFICES ASSUME NEW x \in 1..Len(u), NEW y \in 1..Len(u), x \in 1..Len(s), y \notin 1..Len(s)
                     PROVE  u[x] # u[y]
            OBVIOUS
        <3>1. u[x] = s[x] /\ s[x] \in K
            BY <1>3 DEF Lists
        <3>2. y - Len(s) \in 1..Len(t) /\ u[y] = t[y - Len(s)]
            BY <1>5
        <3>3. t[y - Len(s)] \in L
            BY <3>2 DEF Lists
        <3>4. QED BY <3>1, <3>2, <3>3
    <2>3. CASE (i \in 1..Len(s)) # (j \in 1..Len(s))
        BY <2>2, <2>3, <1>9
    <2>4. CASE i \notin 1..Len(s) /\ j \notin 1..Len(s)
        <3>1. i - Len(s) \in 1..Len(t) /\ j - Len(s) \in 1..Len(t) /\ t[i - Len(s)] = t[j - Len(s)]
            BY <2>4, <1>5, <1>9
        <3>2. i - Len(s) = j - Len(s)
            BY <3>1 DEF Lists
        <3>3. i \in Int /\ j \in Int
            OBVIOUS
        <3>4. QED BY <3>2, <3>3, <1>1
    <2>5. QED BY <2>1, <2>2, <2>3, <2>4
<1>10. QED BY <1>6, <1>7, <1>8, <1>9 DEF Lists, u

BinsBelow(f, N, b) == {k \in KeysIn(f, N) : BinOfKey(k, N) < b}

LEMMA BinListed ==
    ASSUME NEW f, NEW N, Sound(f, N), NEW b \in 0..(N - 1)
    PROVE  Lists(f[b], {k \in KeysIn(f, N) : BinOfKey(k, N) = b})
<1>1. f[b] \in Seq(HashKeys)
    BY DEF Sound
<1>2. \A i \in 1..Len(f[b]) : f[b][i] \in HashKeys /\ BinOfKey(f[b][i], N) = b
    <2>1. \A i \in 1..Len(f[b]) : f[b][i] \in HashKeys
        BY <1>1
    <2>2. QED BY <2>1 DEF Sound
<1>3. \A i \in 1..Len(f[b]) : f[b][i] \in KeysIn(f, N)
    BY <1>2 DEF KeysIn, IsIn
<1>4. \A k \in KeysIn(f, N) : BinOfKey(k, N) = b => \E i \in 1..Len(f[b]) : f[b][i] = k
    BY DEF KeysIn, IsIn
<1>5. \A i, j \in 1..Len(f[b]) : f[b][i] = f[b][j] => i = j
    BY DEF Sound
<1>6. QED BY <1>1, <1>2, <1>3, <1>4, <1>5 DEF Lists

LEMMA NodesOfIs ==
    ASSUME NEW m, NEW N, Sound(m.bins, N)
    PROVE  Lists(NodesOf(m), KeysIn(m.bins, N))
<1> DEFINE f == m.bins
           S == Seq(HashKeys)
           step == [x \in (1..N) \X S |-> x[2] \o f[x[1] - 1]]
           Upto(A) == A = [b \in 0..N |-> IF b = 0 THEN <<>> ELSE A[b - 1] \o f[b - 1]]
<1>1. N \in Nat \ {0} /\ BinCount(m) = N /\ f \in [0..(N - 1) -> S]
    BY BinsCounted DEF Sound
<1>2. step \in [(1..N) \X S -> S]
    <2>1. \A x \in (1..N) \X S : x[1] - 1 \in 0..(N - 1) /\ x[2] \in S
        BY <1>1
    <2>2. \A x \in (1..N) \X S : x[2] \o f[x[1] - 1] \in S
        BY <2>1, <1>1
    <2>3. QED BY <2>2
<1>3. \E A : Upto(A)
    <2>1. PICK A \in [0..N -> S] : A[0] = <<>> /\ \A n \in 1..N : A[n] = step[<<n, A[n - 1]>>]
        <3>1. PICK T, st, base : T = S /\ st = step /\ base = <<>>
            OBVIOUS
        <3>2. base \in T /\ IsStep(st, T, N) /\ N \in Nat
            BY <3>1, <1>1, <1>2 DEF IsStep
        <3>3. \E A \in [0..N -> T] : A[0] = base /\ \A n \in 1..N : A[n] = st[<<n, A[n - 1]>>]
            BY ONLY <3>2, IteratesExist
        <3> HIDE DEF step, S
        <3>4. QED BY <3>1, <3>3
    <2>2. \A n \in 1..N : A[n - 1] \in S
        BY <2>1, <1>1
    <2>3. \A n \in 1..N : step[<<n, A[n - 1]>>] = A[n - 1] \o f[n - 1]
        BY <2>2
    <2> HIDE DEF step, S
    <2>4. \A n \in 0..N : A[n] = IF n = 0 THEN <<>> ELSE A[n - 1] \o f[n - 1]
        <3> TAKE n \in 0..N
        <3>1. CASE n = 0
            BY <3>1, <2>1
        <3>2. CASE n # 0
            <4>1. n \in 1..N
                BY <3>2, <1>1
            <4>2. QED BY <3>2, <4>1, <2>1, <2>3
        <3>3. QED BY <3>1, <3>2
    <2>5. A = [n \in 0..N |-> A[n]]
        BY <2>1
    <2>6. QED BY <2>4, <2>5
<1> DEFINE before[b \in 0..N] == IF b = 0 THEN <<>> ELSE before[b - 1] \o f[b - 1]
<1>4. NodesOf(m) = before[N]
    BY <1>1 DEF NodesOf
<1>5. before = CHOOSE A : Upto(A)
    BY DEF before
<1> HIDE DEF before, step
<1>6. before = [b \in 0..N |-> IF b = 0 THEN <<>> ELSE before[b - 1] \o f[b - 1]]
    BY <1>3, <1>5
<1>7. before[0] = <<>> /\ \A b \in 1..N : before[b] = before[b - 1] \o f[b - 1]
    <2>1. 0 \in 0..N /\ \A b \in 1..N : b \in 0..N /\ b # 0
        BY <1>1
    <2>2. QED BY <1>6, <2>1
<1> HIDE DEF f
<1> DEFINE Fine(b) == Lists(before[b], BinsBelow(f, N, b))
           Bad == {b \in 0..N : ~Fine(b)}
<1>8. \A k \in KeysIn(f, N) : BinOfKey(k, N) \in 0..(N - 1)
    BY <1>1, BinInRange DEF KeysIn
<1>9. Sound(f, N)
    BY DEF f
<1>10. Bad = {}
    <2>1. SUFFICES ASSUME Bad # {} PROVE FALSE
        OBVIOUS
    <2> HIDE DEF Fine
    <2>2. PICK k \in Bad : \A j \in Bad : k <= j
        <3>1. Bad \subseteq Nat
            OBVIOUS
        <3> HIDE DEF Bad
        <3>2. QED BY <2>1, <3>1, LeastNatural
    <2>3. CASE k = 0
        <3>1. BinsBelow(f, N, 0) = {}
            BY <1>8, <1>1 DEF BinsBelow
        <3>2. Fine(0)
            BY <1>7, <3>1 DEF Lists, Fine
        <3>3. QED BY <3>2, <2>3
    <2>4. CASE k # 0
        <3>1. k \in 1..N /\ k - 1 \in 0..(N - 1) /\ k - 1 \in 0..N /\ ~(k <= k - 1)
            BY <2>4, <1>1
        <3>2. Fine(k - 1)
            BY <3>1, <2>2
        <3> DEFINE Here == {x \in KeysIn(f, N) : BinOfKey(x, N) = k - 1}
                   Below == BinsBelow(f, N, k - 1)
        <3>3. Lists(f[k - 1], Here)
            <4>1. PICK b : b = k - 1
                OBVIOUS
            <4>2. Lists(f[b], {x \in KeysIn(f, N) : BinOfKey(x, N) = b})
                BY <4>1, <3>1, <1>9, BinListed
            <4>3. QED BY <4>1, <4>2
        <3>4. Below \cap Here = {} /\ Below \cup Here = BinsBelow(f, N, k)
            <4>1. \A x \in KeysIn(f, N) : /\ BinOfKey(x, N) < k <=> BinOfKey(x, N) < k - 1 \/ BinOfKey(x, N) = k - 1
                                          /\ ~(BinOfKey(x, N) < k - 1 /\ BinOfKey(x, N) = k - 1)
                <5> TAKE x \in KeysIn(f, N)
                <5>1. PICK v \in Int : v = BinOfKey(x, N)
                    BY <1>8
                <5>2. QED BY <5>1, <3>1
            <4>2. QED BY <4>1 DEF BinsBelow
        <3> HIDE DEF Here, Bad
        <3>5. Lists(before[k - 1], Below)
            BY <3>2 DEF Fine
        <3> HIDE DEF Below
        <3>6. Lists(before[k - 1] \o f[k - 1], Below \cup Here)
            BY <3>3, <3>4, <3>5, ListsJoined
        <3>7. Fine(k)
            BY <3>1, <3>4, <3>6, <1>7 DEF Fine
        <3>8. QED BY <3>7, <2>2 DEF Bad
    <2>5. QED BY <2>3, <2>4
<1>11. Fine(N)
    <2>1. N \in 0..N
        BY <1>1
    <2> HIDE DEF Fine
    <2>2. QED BY <2>1, <1>10
<1>12. BinsBelow(f, N, N) = KeysIn(f, N)
    BY <1>1, <1>8 DEF BinsBelow
<1>13. QED BY <1>4, <1>11, <1>12 DEF f

LEMMA EmptyBinsAre ==
    ASSUME NEW n \in Nat \ {0}
    PROVE  Sound(EmptyBins(n), n) /\ KeysIn(EmptyBins(n), n) = {}
<1>1. \A b \in 0..(n - 1) : EmptyBins(n)[b] = <<>>
    BY DEF EmptyBins
<1>2. \A k \in HashKeys : BinOfKey(k, n) \in 0..(n - 1)
    BY BinInRange
<1>3. KeysIn(EmptyBins(n), n) = {}
    BY <1>1, <1>2 DEF KeysIn, IsIn
<1>4. EmptyBins(n) \in [0..(n - 1) -> Seq(HashKeys)]
    BY DEF EmptyBins
<1>5. Sound(EmptyBins(n), n)
    BY <1>1, <1>4 DEF Sound
<1>6. QED BY <1>3, <1>5

IsMoving(moved, order, n, N) ==
    moved = [i \in 0..N |->
        IF i = 0 THEN EmptyBins(n) ELSE [moved[i - 1] EXCEPT ![BinOfKey(order[i], n)] = <<order[i]>> \o @]]

LEMMA MovedAre ==
    ASSUME NEW order, NEW K, Lists(order, K), NEW n \in Nat \ {0}, NEW N \in Nat, N = Len(order),
           NEW moved, IsMoving(moved, order, n, N)
    PROVE  Sound(moved[N], n) /\ KeysIn(moved[N], n) = K
<1>1. /\ moved[0] = EmptyBins(n)
      /\ \A i \in 1..N : moved[i] = [moved[i - 1] EXCEPT ![BinOfKey(order[i], n)] = <<order[i]>> \o @]
    <2>1. 0 \in 0..N /\ \A i \in 1..N : i \in 0..N /\ i # 0
        OBVIOUS
    <2>2. QED BY <2>1 DEF IsMoving
<1>2. /\ \A i \in 1..N : order[i] \in K /\ order[i] \in HashKeys
      /\ \A k \in K : \E i \in 1..N : order[i] = k
      /\ \A i, j \in 1..N : order[i] = order[j] => i = j
    <2>1. order \in Seq(HashKeys)
        BY DEF Lists
    <2>2. \A i \in 1..N : order[i] \in HashKeys
        BY <2>1
    <2>3. QED BY <2>2 DEF Lists
<1> DEFINE Done(i) == {order[j] : j \in 1..i}
           Fine(i) == Sound(moved[i], n) /\ KeysIn(moved[i], n) = Done(i)
           Bad == {i \in 0..N : ~Fine(i)}
<1>3. Bad = {}
    <2>1. SUFFICES ASSUME Bad # {} PROVE FALSE
        OBVIOUS
    <2> HIDE DEF Fine
    <2>2. PICK i \in Bad : \A j \in Bad : i <= j
        <3>1. Bad \subseteq Nat
            OBVIOUS
        <3> HIDE DEF Bad
        <3>2. QED BY <2>1, <3>1, LeastNatural
    <2>3. CASE i = 0
        <3>1. Done(0) = {}
            OBVIOUS
        <3>2. Fine(0)
            BY <3>1, <1>1, EmptyBinsAre DEF Fine
        <3>3. QED BY <3>2, <2>3
    <2>4. CASE i # 0
        <3>1. i \in 1..N /\ i - 1 \in 0..N /\ ~(i <= i - 1) /\ i \in Nat
            BY <2>4
        <3>2. Fine(i - 1)
            BY <3>1, <2>2
        <3>3. order[i] \in HashKeys /\ order[i] \notin Done(i - 1) /\ Done(i - 1) \cup {order[i]} = Done(i)
            <4>1. \A j : j \in 1..i <=> j \in 1..(i - 1) \/ j = i
                BY <3>1
            <4>2. \A j \in 1..(i - 1) : j \in 1..N /\ j # i
                BY <3>1
            <4>3. QED BY <3>1, <4>1, <4>2, <1>2
        <3> HIDE DEF Bad, Done
        <3>4. PICK f, key : f = moved[i - 1] /\ key = order[i]
            OBVIOUS
        <3>6. Sound(f, n) /\ key \notin KeysIn(f, n) /\ key \in HashKeys
            BY <3>2, <3>3, <3>4 DEF Fine
        <3>7. PICK g : g = [f EXCEPT ![BinOfKey(key, n)] = <<key>> \o @] /\ HeadPut(g, f, n, key)
            BY DEF HeadPut
        <3>5. moved[i] = g
            BY <3>1, <3>4, <3>7, <1>1
        <3>8. Sound(g, n) /\ KeysIn(g, n) = KeysIn(f, n) \cup {key}
            <4>1. HeadPut(g, f, n, key)
                BY <3>7
            <4>2. QED BY ONLY <3>6, <4>1, PutBin
        <3>9. Fine(i)
            BY <3>2, <3>3, <3>4, <3>5, <3>8 DEF Fine
        <3>10. QED BY <3>9, <2>2 DEF Bad
    <2>5. QED BY <2>3, <2>4
<1>4. Fine(N)
    <2>1. N \in 0..N
        OBVIOUS
    <2> HIDE DEF Fine
    <2>2. QED BY <2>1, <1>3
<1>5. Done(N) = K
    BY <1>2
<1>6. QED BY <1>4, <1>5

LEMMA RewireIs ==
    ASSUME NEW m, NEW N, Sound(m.bins, N), NEW n \in Nat \ {0}
    PROVE  \E g : /\ Rewire(m, n) = [m EXCEPT !.bins = g]
                  /\ Sound(g, n) /\ KeysIn(g, n) = KeysIn(m.bins, N)
<1> DEFINE order == NodesOf(m)
           L == Len(order)
           S == [0..(n - 1) -> Seq(HashKeys)]
           step == [x \in (1..L) \X S |->
                        [x[2] EXCEPT ![BinOfKey(order[x[1]], n)] = <<order[x[1]]>> \o @]]
           Upto(A) == A = [i \in 0..L |->
                        IF i = 0 THEN EmptyBins(n)
                        ELSE [A[i - 1] EXCEPT ![BinOfKey(order[i], n)] = <<order[i]>> \o @]]
<1>1. Lists(order, KeysIn(m.bins, N))
    BY NodesOfIs
<1>2. order \in Seq(HashKeys) /\ L \in Nat
    BY <1>1 DEF Lists
<1>3. \A i \in 1..L : order[i] \in HashKeys
    BY <1>2
<1> HIDE DEF order
<1>4. step \in [(1..L) \X S -> S]
    <2>1. ASSUME NEW x \in (1..L) \X S
          PROVE  [x[2] EXCEPT ![BinOfKey(order[x[1]], n)] = <<order[x[1]]>> \o @] \in S
        <3>1. PICK key, f : key = order[x[1]] /\ f = x[2]
            OBVIOUS
        <3>2. key \in HashKeys /\ f \in S
            BY <3>1, <1>3
        <3>3. BinOfKey(key, n) \in 0..(n - 1)
            BY <3>2, BinInRange
        <3>4. f[BinOfKey(key, n)] \in Seq(HashKeys)
            BY <3>2, <3>3
        <3>5. <<key>> \o f[BinOfKey(key, n)] \in Seq(HashKeys)
            BY <3>2, <3>4, HeadAdded
        <3>6. [f EXCEPT ![BinOfKey(key, n)] = <<key>> \o f[BinOfKey(key, n)]] \in S
            BY <3>2, <3>3, <3>5
        <3>7. QED BY <3>1, <3>6
    <2>2. QED BY <2>1
<1>5. \E A : Upto(A)
    <2>1. PICK A \in [0..L -> S] : A[0] = EmptyBins(n) /\ \A i \in 1..L : A[i] = step[<<i, A[i - 1]>>]
        <3>1. EmptyBins(n) \in S
            BY EmptyBinsAre DEF Sound
        <3>2. PICK T, st, base, k : T = S /\ st = step /\ base = EmptyBins(n) /\ k = L
            OBVIOUS
        <3>3. base \in T /\ IsStep(st, T, k) /\ k \in Nat
            BY <3>1, <3>2, <1>2, <1>4 DEF IsStep
        <3>4. \E A \in [0..k -> T] : A[0] = base /\ \A i \in 1..k : A[i] = st[<<i, A[i - 1]>>]
            BY ONLY <3>3, IteratesExist
        <3> HIDE DEF step, S, L
        <3>5. QED BY <3>2, <3>4
    <2> HIDE DEF L
    <2>2. \A i \in 1..L : A[i - 1] \in S
        <3> HIDE DEF S, step
        <3>1. \A i \in 1..L : i - 1 \in 0..L
            BY <1>2
        <3>2. QED BY <3>1, <2>1
    <2> HIDE DEF S
    <2>3. \A i \in 1..L : step[<<i, A[i - 1]>>] =
              [A[i - 1] EXCEPT ![BinOfKey(order[i], n)] = <<order[i]>> \o @]
        BY <2>2
    <2> HIDE DEF step
    <2>4. \A i \in 0..L : A[i] = IF i = 0 THEN EmptyBins(n)
                                 ELSE [A[i - 1] EXCEPT ![BinOfKey(order[i], n)] = <<order[i]>> \o @]
        <3> TAKE i \in 0..L
        <3>1. CASE i = 0
            BY <3>1, <2>1
        <3>2. CASE i # 0
            <4>1. i \in 1..L
                BY <3>2, <1>2
            <4>2. QED BY <3>2, <4>1, <2>1, <2>3
        <3>3. QED BY <3>1, <3>2
    <2>5. A = [i \in 0..L |-> A[i]]
        BY <2>1
    <2>6. A = [i \in 0..L |->
                        IF i = 0 THEN EmptyBins(n)
                        ELSE [A[i - 1] EXCEPT ![BinOfKey(order[i], n)] = <<order[i]>> \o @]]
        BY <2>4, <2>5
    <2>7. QED BY <2>6
<1> DEFINE moved[i \in 0..L] == IF i = 0 THEN EmptyBins(n)
                                ELSE [moved[i - 1] EXCEPT ![BinOfKey(order[i], n)] = <<order[i]>> \o @]
<1>6. Rewire(m, n) = [m EXCEPT !.bins = moved[L]]
    BY DEF Rewire, order, BinOfKey
<1>7. moved = CHOOSE A : Upto(A)
    BY DEF moved
<1> HIDE DEF moved
<1>8. Upto(moved)
    <2> HIDE DEF Upto
    <2>1. QED BY <1>5, <1>7
<1>9. Sound(moved[L], n) /\ KeysIn(moved[L], n) = KeysIn(m.bins, N)
    <2>1. PICK l : l = L
        OBVIOUS
    <2>2. l \in Nat /\ l = Len(order)
        BY <2>1, <1>2
    <2>3. moved = [i \in 0..l |->
                        IF i = 0 THEN EmptyBins(n)
                        ELSE [moved[i - 1] EXCEPT ![BinOfKey(order[i], n)] = <<order[i]>> \o @]]
        BY <1>8, <2>1
    <2> HIDE DEF L
    <2>4. PICK K, mv, o : K = KeysIn(m.bins, N) /\ mv = moved /\ o = order
        OBVIOUS
    <2>6. /\ Lists(o, K) /\ l \in Nat /\ l = Len(o) /\ n \in Nat \ {0}
          /\ IsMoving(mv, o, n, l)
        BY <2>2, <2>3, <2>4, <1>1 DEF IsMoving
    <2>7. Sound(mv[l], n) /\ KeysIn(mv[l], n) = K
        BY ONLY <2>6, MovedAre
    <2>5. QED BY <2>1, <2>4, <2>7
<1>10. QED BY <1>6, <1>9

\* One field or two of a table replaced: the rest stays.
WithBins(m, g) == [m EXCEPT !.bins = g]

SameButBins(a, m) ==
    /\ a.kind = m.kind /\ a.nElements = m.nElements /\ a.nLockCount = m.nLockCount
    /\ a.load = m.load /\ a.free = m.free /\ a.nodes = m.nodes

LEMMA BinsReplaced ==
    ASSUME NEW A, NEW B, NEW L, NEW m \in TableFields(A, B, L), NEW C, NEW g \in C
    PROVE  /\ WithBins(m, g) \in TableFields(A, C, L) /\ WithBins(m, g).bins = g
           /\ SameButBins(WithBins(m, g), m)
    BY DEF TableFields, WithBins, SameButBins

ReplacedAt(g, f, h, s) == g = [f EXCEPT ![h] = s]

WithBin(m, h, s, n) == [m EXCEPT !.bins[h] = s, !.nElements = n]

BinWritten(m, h, s, n, g, A, L) ==
    /\ WithBin(m, h, s, n) \in TableFields(A, {g}, L) /\ WithBin(m, h, s, n).bins = g
    /\ WithBin(m, h, s, n).nElements = n
    /\ WithBin(m, h, s, n).kind = m.kind /\ WithBin(m, h, s, n).nLockCount = m.nLockCount
    /\ WithBin(m, h, s, n).load = m.load /\ WithBin(m, h, s, n).free = m.free
    /\ WithBin(m, h, s, n).nodes = m.nodes

LEMMA BinReplaced ==
    ASSUME NEW A, NEW B, NEW L, NEW m \in TableFields(A, B, L), NEW h, NEW s, NEW n \in Int, NEW g,
           ReplacedAt(g, m.bins, h, s)
    PROVE  BinWritten(m, h, s, n, g, A, L)
    BY DEF TableFields, WithBin, ReplacedAt, BinWritten

WithNodes(m, fr, no) == [m EXCEPT !.free = fr, !.nodes = no]

LEMMA NodesReplaced ==
    ASSUME NEW A, NEW B, NEW L, NEW m \in TableFields(A, B, L), NEW fr \in Int, NEW no \in Int
    PROVE  /\ WithNodes(m, fr, no) \in TableFields(A, B, L)
           /\ WithNodes(m, fr, no).free = fr /\ WithNodes(m, fr, no).nodes = no
           /\ WithNodes(m, fr, no).kind = m.kind /\ WithNodes(m, fr, no).bins = m.bins
           /\ WithNodes(m, fr, no).nElements = m.nElements
           /\ WithNodes(m, fr, no).nLockCount = m.nLockCount /\ WithNodes(m, fr, no).load = m.load
    BY DEF TableFields, WithNodes

WithFree(m, fr) == [m EXCEPT !.free = fr]

LEMMA FreeReplaced ==
    ASSUME NEW A, NEW B, NEW L, NEW m \in TableFields(A, B, L), NEW fr \in Int
    PROVE  WithFree(m, fr) = WithNodes(m, fr, m.nodes)
    BY DEF TableFields, WithNodes, WithFree

WithElements(m, n) == [m EXCEPT !.nElements = n]

LEMMA ElementsReplaced ==
    ASSUME NEW A, NEW B, NEW L, NEW m \in TableFields(A, B, L), NEW n \in Int
    PROVE  /\ WithElements(m, n) \in TableFields(A, B, L) /\ WithElements(m, n).nElements = n
           /\ WithElements(m, n).kind = m.kind /\ WithElements(m, n).bins = m.bins
           /\ WithElements(m, n).nLockCount = m.nLockCount /\ WithElements(m, n).load = m.load
           /\ WithElements(m, n).free = m.free /\ WithElements(m, n).nodes = m.nodes
    BY DEF TableFields, WithElements

WithLock(m, n) == [m EXCEPT !.nLockCount = n]

LEMMA LockReplaced ==
    ASSUME NEW A, NEW B, NEW L, NEW m \in TableFields(A, B, L), NEW n \in Int
    PROVE  /\ WithLock(m, n) \in TableFields(A, B, L) /\ WithLock(m, n).nLockCount = n
           /\ WithLock(m, n).kind = m.kind /\ WithLock(m, n).bins = m.bins
           /\ WithLock(m, n).nElements = m.nElements /\ WithLock(m, n).load = m.load
           /\ WithLock(m, n).free = m.free /\ WithLock(m, n).nodes = m.nodes
    BY DEF TableFields, WithLock

WithLoad(m, l) == [m EXCEPT !.load = l]

LEMMA LoadReplaced ==
    ASSUME NEW A, NEW B, NEW L, NEW m \in TableFields(A, B, L), NEW l \in L
    PROVE  /\ WithLoad(m, l) \in TableFields(A, B, L) /\ WithLoad(m, l).load = l
           /\ WithLoad(m, l).kind = m.kind /\ WithLoad(m, l).bins = m.bins
           /\ WithLoad(m, l).nElements = m.nElements /\ WithLoad(m, l).nLockCount = m.nLockCount
           /\ WithLoad(m, l).free = m.free /\ WithLoad(m, l).nodes = m.nodes
    BY DEF TableFields, WithLoad

LEMMA SizeIsPositive ==
    ASSUME NEW n \in Nat
    PROVE  SizeFor(n) \in Nat \ {0}
<1> DEFINE fit == {i \in DOMAIN BinSizes : BinSizes[i] >= n}
<1>1. BinSizes \in Seq(Nat \ {0}) /\ BinSizes # <<>>
    BY HashAssumption
<1>2. DOMAIN BinSizes = 1..Len(BinSizes) /\ Len(BinSizes) \in Nat /\ 1 \in DOMAIN BinSizes
      /\ \A i \in DOMAIN BinSizes : BinSizes[i] \in Nat \ {0}
    BY <1>1
<1>3. SizeFor(n) = IF fit = {} THEN n ELSE BinSizes[CHOOSE i \in fit : \A j \in fit : i <= j]
    BY DEF SizeFor
<1>4. CASE fit = {}
    <2>1. ~(BinSizes[1] >= n)
        BY <1>2, <1>4
    <2>2. n # 0
        BY <1>2, <2>1
    <2>3. QED BY <1>3, <1>4, <2>2
<1>5. CASE fit # {}
    <2>1. fit \subseteq Nat /\ fit \subseteq DOMAIN BinSizes
        BY <1>2
    <2> HIDE DEF fit
    <2>2. \E i \in fit : \A j \in fit : i <= j
        BY <2>1, <1>5, LeastNatural
    <2>3. (CHOOSE i \in fit : \A j \in fit : i <= j) \in fit
        BY <2>2
    <2>4. QED BY <1>2, <1>3, <1>5, <2>1, <2>3
<1>6. QED BY <1>4, <1>5

LEMMA PickIsPositive ==
    ASSUME NEW m, TypedTable(m), NEW n \in Nat
    PROVE  PickSize(m, n) \in Nat \ {0}
<1>1. m.kind \in Kinds /\ m.load.optimal \in Nat \ {0}
    BY DEF TypedTable, TableFields, LoadSet
<1>2. \A d \in Nat \ {0} : (n * 100) \div d \in Nat
    OBVIOUS
<1>3. (n * 100) \div m.load.optimal \in Nat
    BY <1>1, <1>2
<1>4. MaskBins \in Nat \ {0}
    BY HashAssumption
<1>5. QED BY <1>1, <1>3, <1>4, SizeIsPositive DEF PickSize, Kinds

LEMMA RehashedIs ==
    ASSUME NEW m, NEW N, NEW K, Stores(m, N, K), m.nElements \in Nat, NEW n \in Nat
    PROVE  \E M : Stores(Rehashed(m, n), M, K) /\ SameButBins(Rehashed(m, n), m)
<1> DEFINE target == IF n = 0 THEN PickSize(m, m.nElements) ELSE n
<1>1. target \in Nat \ {0}
    BY PickIsPositive DEF Stores
<1>2. Rehashed(m, n) = IF target = BinCount(m) THEN m ELSE Rewire(m, target)
    BY DEF Rehashed
<1>3. CASE target = BinCount(m)
    BY <1>2, <1>3 DEF SameButBins
<1>4. CASE target # BinCount(m)
    <2>0. Sound(m.bins, N)
        BY DEF Stores
    <2> HIDE DEF target
    <2>1. PICK g : /\ Rewire(m, target) = [m EXCEPT !.bins = g]
                   /\ Sound(g, target) /\ KeysIn(g, target) = KeysIn(m.bins, N)
        BY <1>1, <2>0, RewireIs
    <2>2. Rehashed(m, n) = WithBins(m, g)
        BY <1>2, <1>4, <2>1 DEF WithBins
    <2>3. m \in TableFields(Kinds, {m.bins}, LoadSet) /\ g \in {g}
        BY DEF Stores, TypedTable
    <2>4. /\ WithBins(m, g) \in TableFields(Kinds, {g}, LoadSet) /\ WithBins(m, g).bins = g
          /\ SameButBins(WithBins(m, g), m)
        BY <2>3, BinsReplaced
    <2>5. Stores(Rehashed(m, n), target, K)
        BY <2>1, <2>2, <2>4 DEF Stores, TypedTable
    <2>6. QED BY <2>2, <2>4, <2>5
<1>5. QED BY <1>3, <1>4

LEMMA AutoRehashedIs ==
    ASSUME NEW m, NEW N, NEW K, Stores(m, N, K), m.nElements \in Nat, NEW due
    PROVE  /\ \E M : Stores(AutoRehashed(m, due), M, K) /\ SameButBins(AutoRehashed(m, due), m)
           /\ m.nLockCount # 0 => AutoRehashed(m, due) = m
<1>1. CASE m.kind # "fastl" /\ due /\ m.nLockCount = 0
    <2>1. AutoRehashed(m, due) = Rehashed(m, PickSize(m, m.nElements))
        BY <1>1 DEF AutoRehashed
    <2>2. PickSize(m, m.nElements) \in Nat
        BY PickIsPositive DEF Stores
    <2>3. PICK n \in Nat : n = PickSize(m, m.nElements)
        BY <2>2
    <2>4. \E M : Stores(Rehashed(m, n), M, K) /\ SameButBins(Rehashed(m, n), m)
        BY RehashedIs
    <2>5. QED BY <1>1, <2>1, <2>3, <2>4
<1>2. CASE ~(m.kind # "fastl" /\ due /\ m.nLockCount = 0)
    BY <1>2 DEF AutoRehashed, SameButBins
<1>3. QED BY <1>1, <1>2

LEMMA TakeNodeIs ==
    ASSUME NEW m, TypedTable(m), NEW K, CountsKeys(m, K)
    PROVE  /\ TakeNode(m) \in TableFields(Kinds, {m.bins}, LoadSet)
           /\ TakeNode(m).kind = m.kind /\ TakeNode(m).bins = m.bins /\ TakeNode(m).nElements = m.nElements
           /\ TakeNode(m).nLockCount = m.nLockCount /\ TakeNode(m).load = m.load
           /\ TakeNode(m).free \in Nat /\ TakeNode(m).nodes = m.nElements + TakeNode(m).free + 1
           /\ m.kind = "fastl" => TakeNode(m).free < 2 * BlockSize
<1>1. BlockSize \in Nat \ {0}
    BY HashAssumption
<1>2. /\ m \in TableFields(Kinds, {m.bins}, LoadSet) /\ m.free \in Nat /\ m.nodes \in Int /\ m.nElements \in Int
      /\ m.nodes = m.nElements + m.free /\ (m.kind = "fastl" => m.free < 2 * BlockSize)
    BY DEF TypedTable, TableFields, CountsKeys
<1>3. CASE m.free > 0
    <2>1. m.free - 1 \in Nat
        BY <1>2, <1>3
    <2>2. TakeNode(m) = WithFree(m, m.free - 1)
        BY <1>3 DEF TakeNode, WithFree
    <2>3. PICK fr \in Nat : fr = m.free - 1
        BY <2>1
    <2>4. TakeNode(m) = WithNodes(m, fr, m.nodes)
        BY <2>2, <2>3, <1>2, FreeReplaced
    <2>5. /\ WithNodes(m, fr, m.nodes) \in TableFields(Kinds, {m.bins}, LoadSet)
          /\ WithNodes(m, fr, m.nodes).free = fr /\ WithNodes(m, fr, m.nodes).nodes = m.nodes
          /\ WithNodes(m, fr, m.nodes).kind = m.kind /\ WithNodes(m, fr, m.nodes).bins = m.bins
          /\ WithNodes(m, fr, m.nodes).nElements = m.nElements
          /\ WithNodes(m, fr, m.nodes).nLockCount = m.nLockCount /\ WithNodes(m, fr, m.nodes).load = m.load
        BY <1>2, NodesReplaced
    <2>6. m.nodes = m.nElements + fr + 1 /\ (m.kind = "fastl" => fr < 2 * BlockSize)
        BY <1>1, <1>2, <2>3
    <2>7. QED BY <2>4, <2>5, <2>6
<1>4. CASE ~(m.free > 0)
    <2>1. \E fr \in Nat, no \in Int :
              /\ TakeNode(m) = WithNodes(m, fr, no) /\ no = m.nElements + fr + 1
              /\ (m.kind = "fastl" => fr < 2 * BlockSize)
        <3>1. m.free = 0 /\ m.nodes = m.nElements
            BY <1>2, <1>4
        <3>2. CASE m.kind = "fastl"
            <4>1. TakeNode(m) = WithNodes(m, BlockSize, m.nodes + 1 + BlockSize)
                BY <1>4, <3>2 DEF TakeNode, WithNodes
            <4>2. /\ BlockSize \in Nat /\ m.nodes + 1 + BlockSize \in Int
                  /\ m.nodes + 1 + BlockSize = m.nElements + BlockSize + 1
                  /\ BlockSize < 2 * BlockSize
                BY <1>1, <1>2, <3>1
            <4>3. QED BY <4>1, <4>2
        <3>3. CASE m.kind # "fastl"
            <4>1. TakeNode(m) = WithNodes(m, BlockSize - 1, m.nodes + BlockSize)
                BY <1>4, <3>3 DEF TakeNode, WithNodes
            <4>2. /\ BlockSize - 1 \in Nat /\ m.nodes + BlockSize \in Int
                  /\ m.nodes + BlockSize = m.nElements + (BlockSize - 1) + 1
                BY <1>1, <1>2, <3>1
            <4>3. QED BY <4>1, <4>2, <3>3
        <3>4. QED BY <3>2, <3>3
    <2>2. PICK fr \in Nat, no \in Int :
              /\ TakeNode(m) = WithNodes(m, fr, no) /\ no = m.nElements + fr + 1
              /\ (m.kind = "fastl" => fr < 2 * BlockSize)
        BY <2>1
    <2>3. /\ WithNodes(m, fr, no) \in TableFields(Kinds, {m.bins}, LoadSet)
          /\ WithNodes(m, fr, no).free = fr /\ WithNodes(m, fr, no).nodes = no
          /\ WithNodes(m, fr, no).kind = m.kind /\ WithNodes(m, fr, no).bins = m.bins
          /\ WithNodes(m, fr, no).nElements = m.nElements
          /\ WithNodes(m, fr, no).nLockCount = m.nLockCount /\ WithNodes(m, fr, no).load = m.load
        BY <1>2, NodesReplaced
    <2>4. QED BY <2>2, <2>3
<1>5. QED BY <1>3, <1>4

LEMMA GiveNodeIs ==
    ASSUME NEW m, m \in TableFields(Kinds, {m.bins}, LoadSet), m.free \in Nat,
           m.nodes = m.nElements + m.free, m.kind = "fastl" => m.free < 2 * BlockSize
    PROVE  /\ GiveNode(m) \in TableFields(Kinds, {m.bins}, LoadSet)
           /\ GiveNode(m).kind = m.kind /\ GiveNode(m).bins = m.bins /\ GiveNode(m).nElements = m.nElements
           /\ GiveNode(m).nLockCount = m.nLockCount /\ GiveNode(m).load = m.load
           /\ GiveNode(m).free \in Nat /\ GiveNode(m).nodes = m.nElements - 1 + GiveNode(m).free
           /\ m.kind = "fastl" => GiveNode(m).free < 2 * BlockSize
<1>1. BlockSize \in Nat \ {0}
    BY HashAssumption
<1>2. m.nodes \in Int /\ m.nElements \in Int
    BY DEF TableFields
<1>3. \E fr \in Nat, no \in Int :
          /\ GiveNode(m) = WithNodes(m, fr, no) /\ no = m.nElements - 1 + fr
          /\ (m.kind = "fastl" => fr < 2 * BlockSize)
    <2>1. CASE m.kind = "fastl" /\ m.free + 1 >= 2 * BlockSize
        <3>1. GiveNode(m) = WithNodes(m, BlockSize, m.nodes - (m.free + 1 - BlockSize))
            BY <2>1 DEF GiveNode, WithNodes
        <3>2. /\ BlockSize \in Nat /\ m.nodes - (m.free + 1 - BlockSize) \in Int
              /\ m.nodes - (m.free + 1 - BlockSize) = m.nElements - 1 + BlockSize
              /\ BlockSize < 2 * BlockSize
            BY <1>1, <1>2
        <3>3. QED BY <3>1, <3>2
    <2>2. CASE ~(m.kind = "fastl" /\ m.free + 1 >= 2 * BlockSize)
        <3>1. GiveNode(m) = WithFree(m, m.free + 1)
            BY <2>2 DEF GiveNode, WithFree
        <3>2. PICK fr \in Nat : fr = m.free + 1
            OBVIOUS
        <3>3. GiveNode(m) = WithNodes(m, fr, m.nodes)
            BY <3>1, <3>2, FreeReplaced
        <3>4. m.nodes = m.nElements - 1 + fr /\ (m.kind = "fastl" => fr < 2 * BlockSize)
            BY <1>1, <1>2, <2>2, <3>2
        <3>5. QED BY <1>2, <3>3, <3>4
    <2>3. QED BY <2>1, <2>2
<1>4. PICK fr \in Nat, no \in Int :
          /\ GiveNode(m) = WithNodes(m, fr, no) /\ no = m.nElements - 1 + fr
          /\ (m.kind = "fastl" => fr < 2 * BlockSize)
    BY <1>3
<1>5. /\ WithNodes(m, fr, no) \in TableFields(Kinds, {m.bins}, LoadSet)
      /\ WithNodes(m, fr, no).free = fr /\ WithNodes(m, fr, no).nodes = no
      /\ WithNodes(m, fr, no).kind = m.kind /\ WithNodes(m, fr, no).bins = m.bins
      /\ WithNodes(m, fr, no).nElements = m.nElements
      /\ WithNodes(m, fr, no).nLockCount = m.nLockCount /\ WithNodes(m, fr, no).load = m.load
    BY NodesReplaced
<1>6. QED BY <1>4, <1>5

LEMMA NewNodeIs ==
    ASSUME NEW m, NEW N, NEW K, Stores(m, N, K), CountsKeys(m, K), NEW key \in HashKeys, key \notin K
    PROVE  /\ \E M : Stores(NewNode(m, key), M, K \cup {key})
           /\ CountsKeys(NewNode(m, key), K \cup {key}) /\ NewNode(m, key).nLockCount = m.nLockCount
           /\ m.nLockCount # 0 => HeadPut(NewNode(m, key).bins, m.bins, N, key)
<1> DEFINE t == TakeNode(m)
           h == BinOfKey(key, N)
           g == [m.bins EXCEPT ![h] = <<key>> \o m.bins[h]]
           n == m.nElements + 1
           linked == [t EXCEPT !.bins[BinOf(m, key)] = <<key>> \o @, !.nElements = @ + 1]
           due == linked.nElements > HiThreshold(linked)
<1>1. TypedTable(m) /\ Sound(m.bins, N) /\ KeysIn(m.bins, N) = K
    BY DEF Stores
<1>2. /\ t \in TableFields(Kinds, {m.bins}, LoadSet)
      /\ t.kind = m.kind /\ t.bins = m.bins /\ t.nElements = m.nElements
      /\ t.nLockCount = m.nLockCount /\ t.load = m.load
      /\ t.free \in Nat /\ t.nodes = m.nElements + t.free + 1
      /\ m.kind = "fastl" => t.free < 2 * BlockSize
    BY <1>1, TakeNodeIs
<1>3. BinOf(m, key) = h
    BY <1>1, BinsCounted DEF BinOf, BinOfKey, Sound
<1>4. m.nElements = Cardinality(K) /\ IsFiniteSet(K) /\ n \in Nat
    <2>1. Cardinality(K) \in Nat
        BY FS_CardinalityType DEF CountsKeys
    <2>2. QED BY <2>1 DEF CountsKeys
<1>5. linked = WithBin(t, h, <<key>> \o m.bins[h], n)
    BY <1>2, <1>3 DEF WithBin
<1>6. HeadPut(g, m.bins, N, key)
    BY DEF HeadPut
<1>7. Sound(g, N) /\ KeysIn(g, N) = K \cup {key}
    <2> HIDE DEF g
    <2>1. QED BY <1>1, <1>6, PutBin
<1> HIDE DEF t, linked
<1>8. /\ linked \in TableFields(Kinds, {g}, LoadSet) /\ linked.bins = g /\ linked.nElements = n
      /\ linked.kind = m.kind /\ linked.nLockCount = m.nLockCount /\ linked.load = m.load
      /\ linked.free = t.free /\ linked.nodes = t.nodes
    <2>1. PICK s, gg : s = <<key>> \o m.bins[h] /\ gg = g
        OBVIOUS
    <2>2. ReplacedAt(gg, t.bins, h, s) /\ n \in Int
        BY <2>1, <1>2, <1>4 DEF ReplacedAt
    <2> HIDE DEF n, h
    <2>3. linked = WithBin(t, h, s, n)
        BY <2>1, <1>5
    <2>4. /\ WithBin(t, h, s, n) \in TableFields(Kinds, {gg}, LoadSet) /\ WithBin(t, h, s, n).bins = gg
          /\ WithBin(t, h, s, n).nElements = n
          /\ WithBin(t, h, s, n).kind = t.kind /\ WithBin(t, h, s, n).nLockCount = t.nLockCount
          /\ WithBin(t, h, s, n).load = t.load /\ WithBin(t, h, s, n).free = t.free
          /\ WithBin(t, h, s, n).nodes = t.nodes
        <3>1. t \in TableFields(Kinds, {m.bins}, LoadSet)
            BY <1>2
        <3>2. BinWritten(t, h, s, n, gg, Kinds, LoadSet)
            BY ONLY <2>2, <3>1, BinReplaced
        <3>3. QED BY ONLY <3>2 DEF BinWritten
    <2>5. QED BY <2>1, <2>3, <2>4, <1>2
<1> HIDE DEF g
<1>9. Stores(linked, N, K \cup {key}) /\ linked.nElements \in Nat
    BY <1>4, <1>7, <1>8 DEF Stores, TypedTable
<1>10. NewNode(m, key) = AutoRehashed(linked, due)
    BY DEF NewNode, linked, t
<1> HIDE DEF due
<1>11. PICK fit : fit = AutoRehashed(linked, due)
    OBVIOUS
<1>12. /\ \E M : Stores(fit, M, K \cup {key}) /\ SameButBins(fit, linked)
       /\ linked.nLockCount # 0 => fit = linked
    BY <1>9, <1>11, AutoRehashedIs
<1>13. CountsKeys(fit, K \cup {key})
    <2>1. IsFiniteSet(K \cup {key}) /\ Cardinality(K \cup {key}) = n
        BY <1>4, FS_AddElement
    <2>2. t.nodes = n + t.free
        <3>1. m.nElements \in Nat
            BY FS_CardinalityType, <1>4
        <3>2. QED BY <3>1, <1>2
    <2>3. QED BY <2>1, <2>2, <1>2, <1>8, <1>12 DEF CountsKeys, SameButBins
<1>14. QED BY <1>6, <1>8, <1>10, <1>11, <1>12, <1>13 DEF SameButBins

LEMMA FreeNodeIs ==
    ASSUME NEW m, NEW N, NEW K, Stores(m, N, K), IsFiniteSet(K), m.nElements = Cardinality(K) + 1,
           m.free \in Nat, m.nodes = m.nElements + m.free, m.kind = "fastl" => m.free < 2 * BlockSize
    PROVE  /\ \E M : Stores(FreeNode(m), M, K)
           /\ CountsKeys(FreeNode(m), K) /\ FreeNode(m).nLockCount = m.nLockCount
           /\ m.nLockCount # 0 => FreeNode(m).bins = m.bins
<1> DEFINE t == GiveNode(m)
           given == [t EXCEPT !.nElements = @ - 1]
           due == given.nElements < LoThreshold(given)
           n == m.nElements - 1
<1>1. m \in TableFields(Kinds, {m.bins}, LoadSet) /\ Sound(m.bins, N) /\ KeysIn(m.bins, N) = K
    BY DEF Stores, TypedTable
<1>2. /\ t \in TableFields(Kinds, {m.bins}, LoadSet)
      /\ t.kind = m.kind /\ t.bins = m.bins /\ t.nElements = m.nElements
      /\ t.nLockCount = m.nLockCount /\ t.load = m.load
      /\ t.free \in Nat /\ t.nodes = m.nElements - 1 + t.free
      /\ m.kind = "fastl" => t.free < 2 * BlockSize
    BY <1>1, GiveNodeIs
<1>3. n \in Nat /\ n = Cardinality(K)
    <2>1. Cardinality(K) \in Nat
        BY FS_CardinalityType
    <2>2. QED BY <2>1
<1>4. given = WithElements(t, n)
    BY <1>2 DEF WithElements
<1> HIDE DEF t, n, given
<1>5. /\ given \in TableFields(Kinds, {m.bins}, LoadSet) /\ given.nElements = n
      /\ given.kind = t.kind /\ given.bins = t.bins
      /\ given.nLockCount = t.nLockCount /\ given.load = t.load
      /\ given.free = t.free /\ given.nodes = t.nodes
    <2>1. n \in Int
        BY <1>3
    <2>2. t \in TableFields(Kinds, {m.bins}, LoadSet)
        BY <1>2
    <2>3. QED BY ONLY <2>1, <2>2, <1>4, ElementsReplaced
<1>6. Stores(given, N, K) /\ given.nElements \in Nat
    BY <1>1, <1>2, <1>3, <1>5 DEF Stores, TypedTable
<1> HIDE DEF due
<1>7. PICK fit : fit = AutoRehashed(given, due)
    OBVIOUS
<1>8. PICK M : Stores(fit, M, K) /\ SameButBins(fit, given)
    BY <1>6, <1>7, AutoRehashedIs
<1>9. given.nLockCount # 0 => fit = given
    BY <1>6, <1>7, AutoRehashedIs
<1>10. FreeNode(m) = IF fit.kind # "fastl" /\ fit.nElements = 0 THEN FreePlexes(fit) ELSE fit
    BY <1>7 DEF FreeNode, given, t, due
<1>11. CountsKeys(fit, K)
    <2>1. t.nodes = n + t.free
        BY <1>2 DEF n
    <2>2. QED BY <2>1, <1>2, <1>3, <1>5, <1>8 DEF CountsKeys, SameButBins
<1>12. CASE ~(fit.kind # "fastl" /\ fit.nElements = 0)
    BY <1>12, <1>2, <1>5, <1>8, <1>9, <1>10, <1>11 DEF SameButBins
<1>13. CASE fit.kind # "fastl" /\ fit.nElements = 0
    <2>1. FreeNode(m) = WithNodes(fit, 0, 0)
        BY <1>10, <1>13 DEF FreePlexes, WithNodes
    <2>2. fit \in TableFields(Kinds, {fit.bins}, LoadSet)
        BY <1>8 DEF Stores, TypedTable
    <2>3. /\ WithNodes(fit, 0, 0) \in TableFields(Kinds, {fit.bins}, LoadSet)
          /\ WithNodes(fit, 0, 0).free = 0 /\ WithNodes(fit, 0, 0).nodes = 0
          /\ WithNodes(fit, 0, 0).kind = fit.kind /\ WithNodes(fit, 0, 0).bins = fit.bins
          /\ WithNodes(fit, 0, 0).nElements = fit.nElements
          /\ WithNodes(fit, 0, 0).nLockCount = fit.nLockCount /\ WithNodes(fit, 0, 0).load = fit.load
        BY <2>2, NodesReplaced
    <2>4. Stores(FreeNode(m), M, K)
        BY <2>1, <2>3, <1>8 DEF Stores, TypedTable
    <2>5. CountsKeys(FreeNode(m), K)
        BY <2>1, <2>3, <1>11, <1>13 DEF CountsKeys
    <2>6. QED BY <2>1, <2>3, <2>4, <2>5, <1>2, <1>5, <1>8, <1>9 DEF SameButBins
<1>14. QED BY <1>12, <1>13

LEMMA RemoveNodeIs ==
    ASSUME NEW m, NEW N, NEW K, Stores(m, N, K), CountsKeys(m, K), NEW key \in K
    PROVE  /\ \E M : Stores(RemoveNode(m, key), M, K \ {key})
           /\ CountsKeys(RemoveNode(m, key), K \ {key}) /\ RemoveNode(m, key).nLockCount = m.nLockCount
           /\ m.nLockCount # 0 => \E p \in 1..Len(m.bins[BinOfKey(key, N)]) :
                 /\ m.bins[BinOfKey(key, N)][p] = key
                 /\ NodeUnlinked(RemoveNode(m, key).bins, m.bins, N, key, p)
<1> DEFINE h == BinOfKey(key, N)
<1>1. m \in TableFields(Kinds, {m.bins}, LoadSet) /\ Sound(m.bins, N) /\ KeysIn(m.bins, N) = K
    BY DEF Stores, TypedTable
<1>2. PICK p \in 1..Len(m.bins[h]) : p = PlaceOf(m, key) /\ m.bins[h][p] = key /\ BinOf(m, key) = h
    BY <1>1, PlaceIs
<1>3. PICK g : g = [m.bins EXCEPT ![h] = Seqs!RemoveAt(m.bins[h], p)]
    OBVIOUS
<1>4. NodeUnlinked(g, m.bins, N, key, p)
    BY <1>3 DEF NodeUnlinked
<1>5. Sound(g, N) /\ KeysIn(g, N) = K \ {key}
    BY <1>1, <1>2, <1>4, TakeBin
<1>6. RemoveNode(m, key) = FreeNode(WithBins(m, g))
    BY <1>2, <1>3 DEF RemoveNode, WithBins
<1>7. /\ WithBins(m, g) \in TableFields(Kinds, {g}, LoadSet) /\ WithBins(m, g).bins = g
      /\ SameButBins(WithBins(m, g), m)
    <2>1. g \in {g}
        OBVIOUS
    <2>2. QED BY <2>1, <1>1, BinsReplaced
<1>8. PICK a : a = WithBins(m, g)
    OBVIOUS
<1>9. Stores(a, N, K \ {key})
    BY <1>5, <1>7, <1>8 DEF Stores, TypedTable
<1>10. /\ IsFiniteSet(K \ {key}) /\ a.nElements = Cardinality(K \ {key}) + 1
       /\ a.free \in Nat /\ a.nodes = a.nElements + a.free /\ (a.kind = "fastl" => a.free < 2 * BlockSize)
    <2>1. IsFiniteSet(K) /\ m.nElements = Cardinality(K) /\ Cardinality(K) \in Nat
        BY FS_CardinalityType DEF CountsKeys
    <2>2. IsFiniteSet(K \ {key}) /\ Cardinality(K \ {key}) = Cardinality(K) - 1
        BY <2>1, FS_RemoveElement
    <2>3. Cardinality(K) = Cardinality(K \ {key}) + 1
        BY <2>1, <2>2
    <2>4. QED BY <2>1, <2>2, <2>3, <1>7, <1>8 DEF CountsKeys, SameButBins
<1>11. PICK L : L = K \ {key}
    OBVIOUS
<1>12. /\ \E M : Stores(FreeNode(a), M, L)
       /\ CountsKeys(FreeNode(a), L) /\ FreeNode(a).nLockCount = a.nLockCount
       /\ a.nLockCount # 0 => FreeNode(a).bins = a.bins
    BY <1>9, <1>10, <1>11, FreeNodeIs
<1>13. QED BY <1>2, <1>4, <1>6, <1>7, <1>8, <1>11, <1>12 DEF SameButBins

LEMMA ClearedIs ==
    ASSUME NEW m, NEW N, NEW K, Stores(m, N, K)
    PROVE  /\ Stores(Cleared(m), N, {}) /\ CountsKeys(Cleared(m), {})
           /\ Cleared(m).nLockCount = m.nLockCount
<1>1. m \in TableFields(Kinds, {m.bins}, LoadSet) /\ N \in Nat \ {0} /\ BinCount(m) = N
    BY BinsCounted DEF Stores, TypedTable, Sound
<1>2. PICK g : g = EmptyBins(N)
    OBVIOUS
<1>3. Cleared(m) = WithNodes(WithElements(WithBins(m, g), 0), 0, 0)
    BY <1>1, <1>2 DEF Cleared, FreePlexes, WithNodes, WithElements, WithBins
<1>4. PICK a : a = WithBins(m, g)
    OBVIOUS
<1>5. a \in TableFields(Kinds, {g}, LoadSet) /\ a.bins = g /\ SameButBins(a, m)
    <2>1. g \in {g}
        OBVIOUS
    <2>2. QED BY <2>1, <1>1, <1>4, BinsReplaced
<1>6. PICK b : b = WithElements(a, 0)
    OBVIOUS
<1>7. /\ b \in TableFields(Kinds, {g}, LoadSet) /\ b.nElements = 0
      /\ b.kind = a.kind /\ b.bins = a.bins /\ b.nLockCount = a.nLockCount
    BY <1>5, <1>6, ElementsReplaced
<1>8. /\ WithNodes(b, 0, 0) \in TableFields(Kinds, {g}, LoadSet)
      /\ WithNodes(b, 0, 0).free = 0 /\ WithNodes(b, 0, 0).nodes = 0
      /\ WithNodes(b, 0, 0).bins = b.bins /\ WithNodes(b, 0, 0).nElements = b.nElements
      /\ WithNodes(b, 0, 0).nLockCount = b.nLockCount
    BY <1>7, NodesReplaced
<1>9. Cleared(m) = WithNodes(b, 0, 0)
    BY <1>3, <1>4, <1>6
<1>10. Sound(g, N) /\ KeysIn(g, N) = {}
    BY <1>1, <1>2, EmptyBinsAre
<1>11. IsFiniteSet({}) /\ Cardinality({}) = 0 /\ 0 < 2 * BlockSize
    BY FS_EmptySet, HashAssumption
<1>12. Stores(Cleared(m), N, {})
    BY <1>5, <1>7, <1>8, <1>9, <1>10 DEF Stores, TypedTable
<1>13. Cleared(m).free = 0 /\ Cleared(m).nodes = 0 /\ Cleared(m).nElements = 0
    BY <1>7, <1>8, <1>9
<1>14. CountsKeys(Cleared(m), {})
    BY <1>11, <1>13 DEF CountsKeys
<1>15. QED BY <1>5, <1>7, <1>8, <1>9, <1>12, <1>14 DEF SameButBins

-----------------------------------------------------------------------------

\* Whoever has no position walks over any bins.
LEMMA IdleWalks ==
    ASSUME NEW f, NEW N
    PROVE  Walks(Idle, f, N)
    BY DEF Walks, Idle

LEMMA KeysInAreKeys ==
    ASSUME NEW f, NEW N
    PROVE  KeysIn(f, N) \subseteq HashKeys /\ HashNULL \notin KeysIn(f, N) /\ HashNULL \notin HashKeys
    BY HashAssumption DEF KeysIn

LEMMA WalksOnPut ==
    ASSUME NEW cur, NEW f, NEW N, Walks(cur, f, N), Sound(f, N),
           NEW key \in HashKeys, key \notin KeysIn(f, N), NEW g, HeadPut(g, f, N, key)
    PROVE  Walks(cur, g, N)
<1>1. /\ KeysIn(g, N) = KeysIn(f, N) \cup {key}
      /\ \A j, k \in HashKeys : Precedes(f, N, j, k) => Precedes(g, N, j, k)
    BY PutBin
<1>2. \A k \in cur.seen \cup cur.stayed : k \in HashKeys
    BY DEF Walks, KeysIn
<1>3. cur.at # HashNULL => cur.at \in HashKeys
    BY DEF Walks, KeysIn
<1>4. QED BY <1>1, <1>2, <1>3 DEF Walks

WithoutKey(cur, key) == [cur EXCEPT !.seen = @ \ {key}, !.stayed = @ \ {key}]

LEMMA WalksOnTake ==
    ASSUME NEW cur, NEW f, NEW N, Walks(cur, f, N), Sound(f, N), cur.active,
           NEW key \in KeysIn(f, N), key # cur.at, NEW p \in 1..Len(f[BinOfKey(key, N)]),
           f[BinOfKey(key, N)][p] = key, NEW g, NodeUnlinked(g, f, N, key, p)
    PROVE  Walks(WithoutKey(cur, key), g, N)
<1> DEFINE d == WithoutKey(cur, key)
<1>1. /\ KeysIn(g, N) = KeysIn(f, N) \ {key}
      /\ \A j, k \in HashKeys \ {key} : Precedes(f, N, j, k) => Precedes(g, N, j, k)
    BY TakeBin
<1>2. \A k \in cur.seen \cup cur.stayed : k \in HashKeys
    BY DEF Walks, KeysIn
<1>3. cur.at # HashNULL => cur.at \in HashKeys \ {key}
    BY DEF Walks, KeysIn
<1>4. /\ d \in [at: HashKeys \cup {HashNULL}, active: BOOLEAN, seen: SUBSET HashKeys, stayed: SUBSET HashKeys]
      /\ d.at = cur.at /\ d.active = cur.active /\ d.seen = cur.seen \ {key} /\ d.stayed = cur.stayed \ {key}
    BY DEF Walks, WithoutKey
<1> HIDE DEF d
<1>5. d.stayed \ d.seen \subseteq cur.stayed \ cur.seen
    BY <1>4
<1>6. d.seen \subseteq KeysIn(g, N) /\ d.stayed \subseteq KeysIn(g, N)
    BY <1>1, <1>4 DEF Walks
<1>7. d.at = HashNULL => d.stayed \subseteq d.seen
    BY <1>4 DEF Walks
<1>8. ASSUME d.at # HashNULL
      PROVE  /\ d.at \in KeysIn(g, N)
             /\ \A k \in d.seen : Precedes(g, N, k, d.at)
             /\ \A k \in d.stayed \ d.seen : k = d.at \/ Precedes(g, N, d.at, k)
    <2>1. d.at \in KeysIn(g, N) /\ d.at \in HashKeys \ {key}
        BY <1>1, <1>3, <1>4, <1>8 DEF Walks
    <2>2. ASSUME NEW k \in d.seen PROVE Precedes(g, N, k, d.at)
        <3>1. k \in HashKeys \ {key} /\ Precedes(f, N, k, cur.at)
            BY <1>2, <1>4, <1>8 DEF Walks
        <3>2. QED BY <3>1, <2>1, <1>1, <1>4
    <2>3. ASSUME NEW k \in d.stayed \ d.seen PROVE k = d.at \/ Precedes(g, N, d.at, k)
        <3>1. k \in HashKeys \ {key} /\ (k = cur.at \/ Precedes(f, N, cur.at, k))
            BY <1>2, <1>4, <1>5, <1>8 DEF Walks
        <3>2. QED BY <3>1, <2>1, <1>1, <1>4
    <2>4. QED BY <2>1, <2>2, <2>3
<1>9. Walks(d, g, N)
    BY <1>4, <1>6, <1>7, <1>8 DEF Walks
<1>10. QED BY <1>9 DEF d

LEMMA WalkStarts ==
    ASSUME NEW m, NEW N, NEW K, Stores(m, N, K), CountsKeys(m, K)
    PROVE  Walks([at |-> GetStartPosition(m), active |-> TRUE, seen |-> {}, stayed |-> K], m.bins, N)
<1>1. Sound(m.bins, N) /\ KeysIn(m.bins, N) = K /\ IsFiniteSet(K) /\ m.nElements = Cardinality(K)
    BY DEF Stores, CountsKeys
<1>2. PICK at : at = GetStartPosition(m)
    OBVIOUS
<1>3. \/ at = HashNULL /\ K = {}
      \/ at \in K /\ \A k \in K : k = at \/ Precedes(m.bins, N, at, k)
    BY <1>1, <1>2, StartIs
<1>4. K \subseteq HashKeys /\ HashNULL \notin K
    BY <1>1, KeysInAreKeys
<1>5. QED BY <1>1, <1>2, <1>3, <1>4 DEF Walks

Stepped(cur, at) == [cur EXCEPT !.at = at, !.seen = @ \cup {cur.at}]

LEMMA WalkGoesOn ==
    ASSUME NEW m, NEW N, NEW K, Stores(m, N, K), NEW cur, Walks(cur, m.bins, N), cur.active, cur.at # HashNULL
    PROVE  Walks(Stepped(cur, FindNextNode(m, cur.at)), m.bins, N)
<1> DEFINE f == m.bins
<1>1. Sound(f, N) /\ KeysIn(f, N) = K /\ cur.at \in K
    BY DEF Stores, Walks
<1>2. PICK r : r = FindNextNode(m, cur.at)
    OBVIOUS
<1>3. \/ r = HashNULL /\ \A k \in K : ~Precedes(f, N, cur.at, k)
      \/ /\ r \in K /\ Precedes(f, N, cur.at, r)
         /\ \A k \in K : Precedes(f, N, cur.at, k) => k = r \/ Precedes(f, N, r, k)
    BY <1>1, <1>2, NextIs
<1>4. K \subseteq HashKeys /\ HashNULL \notin K
    BY <1>1, KeysInAreKeys
<1> DEFINE d == Stepped(cur, r)
<1>5. /\ d \in [at: HashKeys \cup {HashNULL}, active: BOOLEAN, seen: SUBSET HashKeys, stayed: SUBSET HashKeys]
      /\ d.at = r /\ d.active = cur.active /\ d.seen = cur.seen \cup {cur.at} /\ d.stayed = cur.stayed
    <2>1. r \in HashKeys \cup {HashNULL}
        BY <1>3, <1>4
    <2>2. cur.at \in HashKeys
        BY <1>1, <1>4
    <2>3. QED BY <2>1, <2>2 DEF Walks, Stepped
<1> HIDE DEF d, f
<1>6. /\ cur.seen \subseteq K /\ cur.stayed \subseteq K
      /\ \A k \in cur.seen : Precedes(f, N, k, cur.at)
      /\ \A k \in cur.stayed \ cur.seen : k = cur.at \/ Precedes(f, N, cur.at, k)
    BY <1>1 DEF Walks, f
<1>7. CASE r = HashNULL
    <2>1. \A k \in K : ~Precedes(f, N, cur.at, k)
        BY <1>3, <1>4, <1>7
    <2>2. d.stayed \subseteq d.seen
        BY <2>1, <1>5, <1>6
    <2>3. QED BY <2>2, <1>1, <1>2, <1>5, <1>6, <1>7 DEF Walks, d, f
<1>8. CASE r # HashNULL
    <2>1. /\ r \in K /\ Precedes(f, N, cur.at, r)
          /\ \A k \in K : Precedes(f, N, cur.at, k) => k = r \/ Precedes(f, N, r, k)
        BY <1>3, <1>8
    <2>2. ASSUME NEW k \in d.seen PROVE Precedes(f, N, k, r)
        <3>1. CASE k = cur.at
            BY <3>1, <2>1
        <3>2. CASE k \in cur.seen
            <4>1. Precedes(f, N, k, cur.at) /\ k \in HashKeys /\ r \in HashKeys /\ cur.at \in HashKeys
                BY <3>2, <2>1, <1>1, <1>4, <1>6
            <4>2. QED BY <4>1, <2>1, <1>1, PrecedesOn
        <3>3. QED BY <3>1, <3>2, <1>5
    <2>3. ASSUME NEW k \in d.stayed \ d.seen PROVE k = r \/ Precedes(f, N, r, k)
        <3>1. k \in cur.stayed \ cur.seen /\ k # cur.at /\ k \in K
            BY <1>5, <1>6
        <3>2. QED BY <3>1, <2>1, <1>6
    <2>4. Walks(d, f, N)
        BY <2>1, <2>2, <2>3, <1>1, <1>5, <1>6, <1>8 DEF Walks
    <2>5. QED BY <2>4, <1>2 DEF d, f
<1>9. QED BY <1>7, <1>8

LEMMA OneBinCount ==
    ASSUME NEW m, NEW M, NEW N, Sound(m.bins, M), Sound(m.bins, N)
    PROVE  M = N
<1>1. BinCount(m) = M
    BY BinsCounted DEF Sound
<1>2. BinCount(m) = N
    BY BinsCounted DEF Sound
<1>3. QED BY <1>1, <1>2

LEMMA HoldsThenInv ==
    ASSUME NEW m, NEW cur, NEW v, NEW N, NEW K, HashHolds(m, cur, v, N, K)
    PROVE  N = BinCount(m) /\ K = KeysIn(m.bins, N)
<1>1. Sound(m.bins, N) /\ K = KeysIn(m.bins, N)
    BY DEF HashHolds, Stores
<1>2. QED BY <1>1, BinsCounted DEF Sound

\* What a step does to the keys K and the values.
HashMoves(K, L) ==
    \/ \E k \in HashKeys \ K, v \in HashValues :
          /\ L = K \cup {k} /\ hashOp' = [name |-> "Add", pos |-> k, key |-> k, value |-> v]
          /\ valueOf' = [valueOf EXCEPT ![k] = v]
    \/ \E k \in K, v \in HashValues :
          /\ L = K /\ hashOp' = [name |-> "Store", pos |-> k, key |-> k, value |-> v]
          /\ valueOf' = [valueOf EXCEPT ![k] = v]
    \/ \E k \in K : L = K \ {k} /\ hashOp' = [name |-> "Remove", pos |-> k] /\ valueOf' = valueOf
    \/ L = {} /\ hashOp' = [name |-> "RemoveAll"] /\ valueOf' = valueOf
    \/ L = K /\ hashOp' = hashOp /\ valueOf' = valueOf

HashLeads(K) == \E M, L : HashHolds(table', cursor', valueOf', M, L) /\ HashMoves(K, L)

LEMMA LookupIs ==
    ASSUME NEW m, NEW N, NEW K, Stores(m, N, K), NEW k \in HashKeys
    PROVE  Lookup(m, k) <=> k \in K
<1>1. Sound(m.bins, N) /\ KeysIn(m.bins, N) = K
    BY DEF Stores
<1>2. BinOf(m, k) = BinOfKey(k, N)
    BY <1>1, BinsCounted DEF BinOf, BinOfKey, Sound
<1>3. Lookup(m, k) <=> IsIn(m.bins, N, k)
    BY <1>2 DEF Lookup, Seqs!Contains, IsIn
<1>4. QED BY <1>1, <1>3 DEF KeysIn

\* What holds of a table whose position is idle holds whatever its bins are.
LEMMA HoldsIdle ==
    ASSUME NEW m, NEW cur, NEW v, NEW N, NEW K, HashHolds(m, cur, v, N, K), ~cur.active,
           NEW a, NEW M, NEW L, Stores(a, M, L), CountsKeys(a, L), a.nLockCount = m.nLockCount,
           NEW w \in [HashKeys -> HashValues \cup {0}]
    PROVE  HashHolds(a, cur, w, M, L)
<1>1. cur = Idle
    BY DEF HashHolds, Walks
<1>2. Walks(cur, a.bins, M)
    BY <1>1, IdleWalks
<1>3. QED BY <1>2 DEF HashHolds

LEMMA SetKeyStep ==
    ASSUME NEW N, NEW K, HashHolds(table, cursor, valueOf, N, K),
           NEW k \in HashKeys, NEW v \in HashValues, SetKeyAt(k, v)
    PROVE  HashLeads(K)
<1>1. Stores(table, N, K) /\ CountsKeys(table, K) /\ Walks(cursor, table.bins, N)
    BY DEF HashHolds
<1>2. Lookup(table, k) <=> k \in K
    BY <1>1, LookupIs
<1>3. valueOf' = [valueOf EXCEPT ![k] = v] /\ valueOf' \in [HashKeys -> HashValues \cup {0}] /\ cursor' = cursor
    BY DEF SetKeyAt, HashHolds
<1>4. CASE k \in K
    <2>1. table' = table /\ hashOp' = [name |-> "Store", pos |-> k, key |-> k, value |-> v]
        BY <1>2, <1>4 DEF SetKeyAt
    <2>2. HashHolds(table', cursor', valueOf', N, K)
        BY <2>1, <1>3 DEF HashHolds
    <2>3. HashMoves(K, K)
        BY <2>1, <1>3, <1>4 DEF HashMoves
    <2>4. QED BY <2>2, <2>3 DEF HashLeads
<1>5. CASE k \notin K
    <2>1. table' = NewNode(table, k) /\ hashOp' = [name |-> "Add", pos |-> k, key |-> k, value |-> v]
        BY <1>2, <1>5 DEF SetKeyAt
    <2>2. PICK L : L = K \cup {k}
        OBVIOUS
    <2>3. /\ \E M : Stores(table', M, L)
          /\ CountsKeys(table', L) /\ table'.nLockCount = table.nLockCount
          /\ table.nLockCount # 0 => HeadPut(table'.bins, table.bins, N, k)
        BY <2>1, <2>2, <1>1, <1>5, NewNodeIs
    <2>4. PICK M : Stores(table', M, L)
        BY <2>3
    <2>5. HashMoves(K, L)
        BY <2>1, <2>2, <1>3, <1>5 DEF HashMoves
    <2>6. CASE ~cursor.active
        <3>1. HashHolds(table', cursor, valueOf', M, L)
            BY <2>3, <2>4, <2>6, <1>3, HoldsIdle
        <3>2. QED BY <3>1, <2>5, <1>3 DEF HashLeads
    <2>7. CASE cursor.active
        <3>1. table.nLockCount = 1
            BY <2>7 DEF HashHolds
        <3>2. HeadPut(table'.bins, table.bins, N, k)
            BY <2>3, <3>1
        <3>3. Sound(table.bins, N) /\ KeysIn(table.bins, N) = K
            BY <1>1 DEF Stores
        <3>4. Walks(cursor, table'.bins, N) /\ Sound(table'.bins, N)
            BY <3>2, <3>3, <1>1, <1>5, WalksOnPut, PutBin
        <3>5. M = N
            BY <3>4, <2>4, OneBinCount DEF Stores
        <3>6. HashHolds(table', cursor', valueOf', N, L)
            BY <3>4, <3>5, <2>3, <2>4, <1>3, <3>1, <2>7 DEF HashHolds
        <3>7. QED BY <3>6, <2>5 DEF HashLeads
    <2>8. QED BY <2>6, <2>7
<1>6. QED BY <1>4, <1>5

LEMMA RemoveKeyStep ==
    ASSUME NEW N, NEW K, HashHolds(table, cursor, valueOf, N, K), NEW k \in HashKeys, RemoveKeyAt(k)
    PROVE  HashLeads(K)
<1>1. Stores(table, N, K) /\ CountsKeys(table, K) /\ Walks(cursor, table.bins, N)
    BY DEF HashHolds
<1>2. k \in K /\ k # cursor.at
    BY <1>1, LookupIs DEF RemoveKeyAt
<1>3. /\ valueOf' = valueOf /\ table' = RemoveNode(table, k) /\ hashOp' = [name |-> "Remove", pos |-> k]
      /\ cursor' = WithoutKey(cursor, k)
    BY DEF RemoveKeyAt, WithoutKey
<1>4. PICK L : L = K \ {k}
    OBVIOUS
<1>5. /\ \E M : Stores(table', M, L)
      /\ CountsKeys(table', L) /\ table'.nLockCount = table.nLockCount
      /\ table.nLockCount # 0 => \E p \in 1..Len(table.bins[BinOfKey(k, N)]) :
            table.bins[BinOfKey(k, N)][p] = k /\ NodeUnlinked(table'.bins, table.bins, N, k, p)
    BY <1>1, <1>2, <1>3, <1>4, RemoveNodeIs
<1>6. PICK M : Stores(table', M, L)
    BY <1>5
<1>7. HashMoves(K, L)
    BY <1>2, <1>3, <1>4 DEF HashMoves
<1>8. valueOf \in [HashKeys -> HashValues \cup {0}]
    BY DEF HashHolds
<1>9. CASE ~cursor.active
    <2>1. cursor = Idle
        BY <1>9 DEF HashHolds, Walks
    <2>2. cursor' = cursor
        <3>1. /\ DOMAIN cursor' = DOMAIN cursor /\ cursor'.at = cursor.at /\ cursor'.active = cursor.active
              /\ cursor'.seen = {} /\ cursor'.stayed = {}
            BY <2>1, <1>3 DEF Idle, WithoutKey
        <3>2. cursor' = [at |-> HashNULL, active |-> FALSE, seen |-> {}, stayed |-> {}]
            BY <3>1, <2>1, <1>3 DEF Idle, WithoutKey
        <3>3. QED BY <3>2, <2>1 DEF Idle
    <2>3. HashHolds(table', cursor, valueOf, M, L)
        BY <1>5, <1>6, <1>8, <1>9, HoldsIdle
    <2>4. QED BY <2>2, <2>3, <1>3, <1>7 DEF HashLeads
<1>10. CASE cursor.active
    <2>1. table.nLockCount = 1
        BY <1>10 DEF HashHolds
    <2>2. PICK p \in 1..Len(table.bins[BinOfKey(k, N)]) :
              table.bins[BinOfKey(k, N)][p] = k /\ NodeUnlinked(table'.bins, table.bins, N, k, p)
        BY <1>5, <2>1
    <2>3. Sound(table.bins, N) /\ KeysIn(table.bins, N) = K
        BY <1>1 DEF Stores
    <2>4. k \in KeysIn(table.bins, N)
        BY <2>3, <1>2
    <2>5. Sound(table'.bins, N)
        BY <2>2, <2>3, <2>4, TakeBin
    <2>6. Walks(cursor', table'.bins, N)
        BY <2>2, <2>3, <2>4, <1>1, <1>2, <1>3, <1>10, WalksOnTake
    <2>7. M = N
        BY <2>5, <1>6, OneBinCount DEF Stores
    <2>8. cursor'.active
        BY <1>3, <1>10, <1>1 DEF WithoutKey, Walks
    <2>9. HashHolds(table', cursor', valueOf', N, L)
        BY <2>1, <2>6, <2>7, <2>8, <1>3, <1>5, <1>6, <1>8 DEF HashHolds
    <2>10. QED BY <2>9, <1>7 DEF HashLeads
<1>11. QED BY <1>9, <1>10

LEMMA RebinStep ==
    ASSUME NEW N, NEW K, HashHolds(table, cursor, valueOf, N, K), ~cursor.active,
           NEW m, Stores(m, N, K), m.nElements = table.nElements, m.nLockCount = table.nLockCount,
           m.kind = table.kind, m.free = table.free, m.nodes = table.nodes, NEW n \in Nat,
           table' = m \/ table' = Rehashed(m, n), UNCHANGED <<valueOf, cursor, hashOp>>
    PROVE  HashLeads(K)
<1>1. CountsKeys(table, K) /\ valueOf \in [HashKeys -> HashValues \cup {0}]
    BY DEF HashHolds
<1>2. m.nElements \in Nat
    BY <1>1, FS_CardinalityType DEF CountsKeys
<1>3. PICK M : Stores(table', M, K) /\ SameButBins(table', m)
    <2>1. \E M : Stores(Rehashed(m, n), M, K) /\ SameButBins(Rehashed(m, n), m)
        BY <1>2, RehashedIs
    <2>2. SameButBins(m, m)
        BY DEF SameButBins
    <2>3. QED BY <2>1, <2>2
<1>4. CountsKeys(table', K) /\ table'.nLockCount = table.nLockCount
    BY <1>1, <1>3 DEF CountsKeys, SameButBins
<1>5. HashHolds(table', cursor, valueOf, M, K)
    BY <1>1, <1>3, <1>4, HoldsIdle
<1>6. HashMoves(K, K)
    BY DEF HashMoves
<1>7. QED BY <1>5, <1>6 DEF HashLeads

LEMMA HashStep ==
    ASSUME NEW N, NEW K, HashHolds(table, cursor, valueOf, N, K), HashNext
    PROVE  HashLeads(K)
<1>1. /\ Stores(table, N, K) /\ CountsKeys(table, K) /\ Walks(cursor, table.bins, N)
      /\ valueOf \in [HashKeys -> HashValues \cup {0}]
      /\ table.nLockCount = IF cursor.active THEN 1 ELSE 0
    BY DEF HashHolds
<1>2. table \in TableFields(Kinds, {table.bins}, LoadSet) /\ TypedTable(table)
    BY <1>1 DEF Stores, TypedTable
<1>3. ASSUME NEW k \in HashKeys, NEW v \in HashValues, SetKeyAt(k, v) PROVE HashLeads(K)
    BY <1>3, SetKeyStep
<1>4. ASSUME NEW k \in HashKeys, RemoveKeyAt(k) PROVE HashLeads(K)
    BY <1>4, RemoveKeyStep
<1>5. CASE RemoveAllKeys
    <2>1. ~cursor.active /\ table' = Cleared(table) /\ hashOp' = [name |-> "RemoveAll"]
          /\ valueOf' = valueOf /\ cursor' = cursor
        BY <1>5 DEF RemoveAllKeys
    <2>2. Stores(table', N, {}) /\ CountsKeys(table', {}) /\ table'.nLockCount = table.nLockCount
        BY <2>1, <1>1, ClearedIs
    <2>3. PICK L : L = {}
        OBVIOUS
    <2>4. HashHolds(table', cursor, valueOf, N, L)
        BY <2>1, <2>2, <2>3, <1>1, HoldsIdle
    <2>5. HashMoves(K, L)
        BY <2>1, <2>3 DEF HashMoves
    <2>6. QED BY <2>1, <2>4, <2>5 DEF HashLeads
<1>6. ASSUME NEW n \in RehashBins, RehashTo(n) PROVE HashLeads(K)
    <2>1. n \in Nat
        BY HashAssumption
    <2>2. ~cursor.active /\ table' = Rehashed(table, n) /\ UNCHANGED <<valueOf, cursor, hashOp>>
        BY <1>6 DEF RehashTo
    <2>3. QED BY <2>1, <2>2, <1>1, RebinStep
<1>7. ASSUME NEW load \in Loads, NEW now \in BOOLEAN, SetOptimalLoad(load, now) PROVE HashLeads(K)
    <2>1. load \in LoadSet
        BY HashAssumption DEF LoadSet
    <2>2. PICK m : m = WithLoad(table, load)
        OBVIOUS
    <2>3. /\ m \in TableFields(Kinds, {table.bins}, LoadSet)
          /\ m.kind = table.kind /\ m.bins = table.bins /\ m.nElements = table.nElements
          /\ m.nLockCount = table.nLockCount /\ m.free = table.free /\ m.nodes = table.nodes
        BY <2>1, <2>2, <1>2, LoadReplaced
    <2>4. Stores(m, N, K)
        BY <2>3, <1>1 DEF Stores, TypedTable
    <2>5. m.nElements \in Nat
        BY <2>3, <1>1, FS_CardinalityType DEF CountsKeys
    <2>6. PICK n \in Nat : n = PickSize(m, m.nElements)
        BY <2>4, <2>5, PickIsPositive DEF Stores
    <2>7. ~cursor.active /\ (table' = m \/ table' = Rehashed(m, n)) /\ UNCHANGED <<valueOf, cursor, hashOp>>
        BY <1>7, <2>2, <2>6 DEF SetOptimalLoad, WithLoad
    <2>8. QED BY <2>3, <2>4, <2>7, RebinStep
<1>8. CASE Begin
    <2>1. PICK m : m = WithLock(table, table.nLockCount + 1)
        OBVIOUS
    <2>2. /\ ~cursor.active /\ table' = m /\ valueOf' = valueOf /\ hashOp' = hashOp
          /\ cursor' = [at |-> GetStartPosition(table), active |-> TRUE, seen |-> {},
                        stayed |-> {k \in HashKeys : Lookup(table, k)}]
        BY <1>8, <2>1 DEF Begin, WithLock
    <2>3. {k \in HashKeys : Lookup(table, k)} = K
        <3>1. K \subseteq HashKeys
            BY <1>1 DEF Stores, KeysIn
        <3>2. QED BY <3>1, <1>1, LookupIs
    <2>4. Walks(cursor', table.bins, N)
        BY <2>2, <2>3, <1>1, WalkStarts
    <2>5. /\ m \in TableFields(Kinds, {table.bins}, LoadSet) /\ m.nLockCount = 1
          /\ m.kind = table.kind /\ m.bins = table.bins /\ m.nElements = table.nElements
          /\ m.free = table.free /\ m.nodes = table.nodes
        <3>1. table.nLockCount + 1 = 1
            BY <2>2, <1>1
        <3>2. m = WithLock(table, 1) /\ 1 \in Int
            BY <2>1, <3>1
        <3>3. QED BY <3>2, <1>2, LockReplaced
    <2>6. Stores(m, N, K) /\ CountsKeys(m, K)
        BY <2>5, <1>1 DEF Stores, TypedTable, CountsKeys
    <2>7. HashHolds(table', cursor', valueOf', N, K)
        BY <2>2, <2>4, <2>5, <2>6, <1>1 DEF HashHolds
    <2>8. HashMoves(K, K)
        BY <2>2 DEF HashMoves
    <2>9. QED BY <2>7, <2>8 DEF HashLeads
<1>9. CASE GetNext
    <2>1. /\ cursor.active /\ cursor.at # HashNULL /\ table' = table /\ valueOf' = valueOf /\ hashOp' = hashOp
          /\ cursor' = Stepped(cursor, FindNextNode(table, cursor.at))
        BY <1>9 DEF GetNext, Stepped
    <2>2. Walks(cursor', table.bins, N)
        BY <2>1, <1>1, WalkGoesOn
    <2>3. cursor'.active
        BY <2>1, <1>1 DEF Stepped, Walks
    <2>4. HashHolds(table', cursor', valueOf', N, K)
        BY <2>1, <2>2, <2>3, <1>1 DEF HashHolds
    <2>5. HashMoves(K, K)
        BY <2>1 DEF HashMoves
    <2>6. QED BY <2>4, <2>5 DEF HashLeads
<1>10. CASE End
    <2>1. PICK m : m = WithLock(table, table.nLockCount - 1)
        OBVIOUS
    <2>2. /\ cursor.active /\ table' = m /\ valueOf' = valueOf /\ hashOp' = hashOp /\ cursor' = Idle
        BY <1>10, <2>1 DEF End, WithLock
    <2>3. /\ m \in TableFields(Kinds, {table.bins}, LoadSet) /\ m.nLockCount = 0
          /\ m.kind = table.kind /\ m.bins = table.bins /\ m.nElements = table.nElements
          /\ m.free = table.free /\ m.nodes = table.nodes
        <3>1. table.nLockCount - 1 = 0
            BY <2>2, <1>1
        <3>2. m = WithLock(table, 0) /\ 0 \in Int
            BY <2>1, <3>1
        <3>3. QED BY <3>2, <1>2, LockReplaced
    <2>4. Stores(m, N, K) /\ CountsKeys(m, K)
        BY <2>3, <1>1 DEF Stores, TypedTable, CountsKeys
    <2>5. Walks(Idle, m.bins, N) /\ ~Idle.active
        BY IdleWalks DEF Idle
    <2>6. HashHolds(table', cursor', valueOf', N, K)
        BY <2>2, <2>3, <2>4, <2>5, <1>1 DEF HashHolds
    <2>7. HashMoves(K, K)
        BY <2>2 DEF HashMoves
    <2>8. QED BY <2>6, <2>7 DEF HashLeads
<1>11. QED BY <1>3, <1>4, <1>5, <1>6, <1>7, <1>8, <1>9, <1>10 DEF HashNext

LEMMA HashStarts ==
    ASSUME HashInit
    PROVE  \E N : HashHolds(table, cursor, valueOf, N, {})
<1>1. PICK kind \in Kinds, load \in Loads :
          table = NewTable(kind, IF kind = "HashMap" THEN MaskBins ELSE FirstBins, load)
    BY DEF HashInit, Kinds
<1>2. PICK N \in Nat \ {0} : N = IF kind = "HashMap" THEN MaskBins ELSE FirstBins
    BY HashAssumption
<1>3. load \in LoadSet
    BY HashAssumption DEF LoadSet
<1>4. Sound(EmptyBins(N), N) /\ KeysIn(EmptyBins(N), N) = {}
    BY EmptyBinsAre
<1>5. PICK g : g = EmptyBins(N)
    OBVIOUS
<1>6. table = [kind |-> kind, bins |-> g, nElements |-> 0, nLockCount |-> 0, load |-> load,
               free |-> 0, nodes |-> 0]
    BY <1>1, <1>2, <1>5 DEF NewTable
<1>7. Stores(table, N, {})
    BY <1>3, <1>4, <1>5, <1>6 DEF Stores, TypedTable, TableFields
<1>8. CountsKeys(table, {})
    <2>1. IsFiniteSet({}) /\ Cardinality({}) = 0
        BY FS_EmptySet
    <2>2. BlockSize \in Nat \ {0}
        BY HashAssumption
    <2>3. QED BY <2>1, <2>2, <1>6 DEF CountsKeys
<1>9. Walks(cursor, table.bins, N) /\ ~cursor.active
    BY IdleWalks DEF HashInit, Idle
<1>10. valueOf \in [HashKeys -> HashValues \cup {0}]
    BY DEF HashInit
<1>11. HashHolds(table, cursor, valueOf, N, {})
    BY <1>6, <1>7, <1>8, <1>9, <1>10 DEF HashHolds
<1>12. QED BY <1>11

LEMMA HashIInvHolds == HashSpec => []HashIInv
<1>1. HashInit => HashIInv
    BY HashStarts, HoldsThenInv DEF HashIInv
<1>2. HashIInv /\ [HashNext]_hashVars => HashIInv'
    <2> SUFFICES ASSUME HashIInv, [HashNext]_hashVars PROVE HashIInv'
        OBVIOUS
    <2>1. PICK N, K : HashHolds(table, cursor, valueOf, N, K)
        BY DEF HashIInv
    <2>2. CASE HashNext
        <3>1. PICK M, L : HashHolds(table', cursor', valueOf', M, L)
            BY <2>1, <2>2, HashStep DEF HashLeads
        <3>2. M = BinCount(table') /\ L = KeysIn(table'.bins, M)
            BY <3>1, HoldsThenInv
        <3>3. QED BY <3>1, <3>2 DEF HashIInv
    <2>3. CASE UNCHANGED hashVars
        BY <2>3 DEF HashIInv, hashVars
    <2>4. QED BY <2>2, <2>3
<1>3. QED BY <1>1, <1>2, PTL DEF HashSpec

\* TableInv: the bins, the counts and the walks of one table agree, whichever
\* keys collide and whenever it is rehashed: a walk under the lock meets every
\* key that was there throughout, and none twice.
THEOREM TableInvHolds == HashSpec => []TableInv
<1>1. HashIInv => TableInv
    <2> SUFFICES ASSUME NEW N, NEW K, HashHolds(table, cursor, valueOf, N, K) PROVE TableInv
        BY DEF HashIInv
    <2>1. /\ Stores(table, N, K) /\ CountsKeys(table, K) /\ Walks(cursor, table.bins, N)
          /\ Sound(table.bins, N) /\ KeysIn(table.bins, N) = K
        BY DEF HashHolds, Stores
    <2>2. N \in Nat \ {0} /\ DOMAIN table.bins = 0..(N - 1) /\ BinCount(table) = N
        BY <2>1, BinsCounted DEF Sound
    <2>3. K \subseteq HashKeys /\ Present = K
        <3>1. K \subseteq HashKeys
            BY <2>1, KeysInAreKeys
        <3>2. QED BY <3>1, <2>1, LookupIs DEF Present
    <2>4. ASSUME NEW b \in DOMAIN table.bins
          PROVE  /\ Seqs!IsInjective(table.bins[b])
                 /\ \A k \in Seqs!ToSet(table.bins[b]) : BinOf(table, k) = b
        <3>1. table.bins[b] \in Seq(HashKeys) /\ DOMAIN table.bins[b] = 1..Len(table.bins[b])
            BY <2>1, <2>2 DEF Sound
        <3>2. \A i \in 1..Len(table.bins[b]) :
                  /\ BinOfKey(table.bins[b][i], N) = b
                  /\ \A j \in 1..Len(table.bins[b]) : table.bins[b][i] = table.bins[b][j] => i = j
            BY <2>1, <2>2 DEF Sound
        <3>3. QED BY <2>2, <3>1, <3>2 DEF Seqs!IsInjective, Seqs!ToSet, BinOf, BinOfKey
    <2>5. TableAccounts
        <3>1. table.free \in Nat /\ BlockSize \in Nat \ {0}
            BY <2>1, HashAssumption DEF CountsKeys
        <3>2. QED BY <2>1, <2>3, <2>4, <3>1 DEF TableAccounts, CountsKeys
    <2>6. WalkComplete
        BY <2>1 DEF WalkComplete, Walks
    <2>7. WalkOnce
        <3>1. CASE cursor.at = HashNULL
            BY <3>1, <2>1, <2>3, HashAssumption DEF WalkOnce, Walks
        <3>2. CASE cursor.at # HashNULL
            <4>1. cursor.at \in HashKeys /\ \A k \in cursor.seen : Precedes(table.bins, N, k, cursor.at)
                BY <3>2, <2>1, <2>3 DEF Walks
            <4>2. ~Precedes(table.bins, N, cursor.at, cursor.at)
                BY <4>1, <2>1, PrecedesOnce
            <4>3. QED BY <4>1, <4>2 DEF WalkOnce
        <3>3. QED BY <3>1, <3>2
    <2>8. QED BY <2>5, <2>6, <2>7 DEF TableInv
<1>2. QED BY <1>1, HashIInvHolds, PTL

LEMMA StoreKept ==
    ASSUME NEW K, NEW L, HashMoves(K, L), Present = K, Present' = L, K \subseteq HashKeys,
           valueOf \in [HashKeys -> HashValues \cup {0}]
    PROVE  TablePromise!Next \/ (L = K /\ hashOp' = hashOp /\ valueOf' = valueOf)
<1> DEFINE items == [k \in Present |-> [key |-> k, value |-> valueOf[k]]]
<1>1. items = [k \in K |-> [key |-> k, value |-> valueOf[k]]]
    OBVIOUS
<1>2. items' = [k \in L |-> [key |-> k, value |-> valueOf'[k]]]
    OBVIOUS
<1>3. DOMAIN items = K
    OBVIOUS
<1> HIDE DEF items
<1>4. ASSUME NEW k \in HashKeys \ K, NEW v, L = K \cup {k}, valueOf' = [valueOf EXCEPT ![k] = v],
             hashOp' = [name |-> "Add", pos |-> k, key |-> k, value |-> v]
      PROVE  TablePromise!Add
    <2>1. hashOp'.name = "Add" /\ hashOp'.pos = k /\ hashOp'.key = k /\ hashOp'.value = v
        BY <1>4
    <2>2. items' = [p \in K \cup {k} |-> IF p = k THEN [key |-> k, value |-> v] ELSE items[p]]
        <3>1. \A p \in L : valueOf'[p] = IF p = k THEN v ELSE valueOf[p]
            BY <1>4
        <3>2. QED BY <3>1, <1>1, <1>2, <1>4
    <2>3. QED BY <2>1, <2>2, <1>3, <1>4 DEF TablePromise!Add, items
<1>5. ASSUME NEW k \in K, NEW v, L = K, valueOf' = [valueOf EXCEPT ![k] = v],
             hashOp' = [name |-> "Store", pos |-> k, key |-> k, value |-> v]
      PROVE  TablePromise!Store
    <2>1. hashOp'.name = "Store" /\ hashOp'.pos = k /\ hashOp'.key = k /\ hashOp'.value = v
        BY <1>5
    <2>2. items[k].key = k
        BY <1>1
    <2>3. items' = [items EXCEPT ![k].value = v]
        <3>1. \A p \in K : valueOf'[p] = IF p = k THEN v ELSE valueOf[p]
            BY <1>5
        <3>2. \A p \in K : [key |-> p, value |-> valueOf'[p]] =
                             IF p = k THEN [items[p] EXCEPT !.value = v] ELSE items[p]
            BY <3>1, <1>1
        <3>3. [items EXCEPT ![k].value = v] = [p \in K |-> IF p = k THEN [items[p] EXCEPT !.value = v] ELSE items[p]]
            BY <1>3
        <3>4. QED BY <3>2, <3>3, <1>2, <1>5
    <2>4. QED BY <2>1, <2>2, <2>3, <1>3 DEF TablePromise!Store, items
<1>6. ASSUME NEW k \in K, L = K \ {k}, valueOf' = valueOf, hashOp' = [name |-> "Remove", pos |-> k]
      PROVE  TablePromise!Remove
    <2>1. hashOp'.name = "Remove" /\ hashOp'.pos = k
        BY <1>6
    <2>2. items' = [p \in K \ {k} |-> items[p]]
        BY <1>1, <1>2, <1>6
    <2>3. QED BY <2>1, <2>2, <1>3 DEF TablePromise!Remove, TablePromise!Keep, items
<1>7. ASSUME L = {}, valueOf' = valueOf, hashOp' = [name |-> "RemoveAll"]
      PROVE  TablePromise!RemoveAll
    <2>1. hashOp'.name = "RemoveAll"
        BY <1>7
    <2>2. items' = [p \in {} |-> items[p]]
        BY <1>2, <1>7
    <2>3. QED BY <2>1, <2>2 DEF TablePromise!RemoveAll, TablePromise!Keep, items
<1>8. QED BY <1>4, <1>5, <1>6, <1>7 DEF HashMoves, TablePromise!Next

\* TableIsStore: no rehash, unlinking or clearing loses a key, brings one back
\* or disturbs another one's value: what Lookup finds is a store of items.
THEOREM TableIsStoreHolds == HashSpec => TableIsStore
<1> DEFINE items == [k \in Present |-> [key |-> k, value |-> valueOf[k]]]
<1>1. HashInit => TablePromise!Init
    <2> SUFFICES ASSUME HashInit PROVE TablePromise!Init
        OBVIOUS
    <2>1. PICK N : Stores(table, N, {})
        BY HashStarts DEF HashHolds
    <2>2. Present = {}
        BY <2>1, LookupIs DEF Present
    <2>3. hashOp = [name |-> "Init"]
        BY DEF HashInit
    <2>4. QED BY <2>2, <2>3 DEF TablePromise!Init
<1>2. HashIInv /\ [HashNext]_hashVars => [TablePromise!Next]_<<items, hashOp>>
    <2> SUFFICES ASSUME HashIInv, [HashNext]_hashVars PROVE [TablePromise!Next]_<<items, hashOp>>
        OBVIOUS
    <2>1. CASE UNCHANGED hashVars
        BY <2>1 DEF hashVars, Present
    <2>2. CASE HashNext
        <3>1. PICK N, K : HashHolds(table, cursor, valueOf, N, K)
            BY DEF HashIInv
        <3>2. PICK M, L : HashHolds(table', cursor', valueOf', M, L) /\ HashMoves(K, L)
            BY <2>2, <3>1, HashStep DEF HashLeads
        <3>3. Present = K /\ K \subseteq HashKeys
            <4>1. Stores(table, N, K) /\ K \subseteq HashKeys
                BY <3>1 DEF HashHolds, Stores, KeysIn
            <4>2. QED BY <4>1, LookupIs DEF Present
        <3>4. Present' = L
            <4>1. Stores(table', M, L) /\ L \subseteq HashKeys
                BY <3>2 DEF HashHolds, Stores, KeysIn
            <4>2. Present' = {k \in HashKeys : Lookup(table', k)}
                BY DEF Present
            <4>3. QED BY <4>1, <4>2, LookupIs
        <3>5. valueOf \in [HashKeys -> HashValues \cup {0}]
            BY <3>1 DEF HashHolds
        <3>6. TablePromise!Next \/ (L = K /\ hashOp' = hashOp /\ valueOf' = valueOf)
            BY <3>2, <3>3, <3>4, <3>5, StoreKept
        <3>7. CASE L = K /\ hashOp' = hashOp /\ valueOf' = valueOf
            BY <3>3, <3>4, <3>7
        <3>8. QED BY <3>6, <3>7
    <2>3. QED BY <2>1, <2>2
<1>3. QED BY <1>1, <1>2, HashIInvHolds, PTL DEF HashSpec, TableIsStore, TablePromise!Spec

\* The hash table of the library is used like any other.
THEOREM LibraryTableHolds ==
    LibrarySpec => []TableInv /\ TableIsStore
<1>1. LibraryInit => HashInit
    BY DEF LibraryInit
<1>2. [LibraryNext]_libraryVars => [HashNext]_hashVars
    BY DEF LibraryNext, libraryVars, UseFifo, UseSet, UseMulti, UseTree, UseHash, UseList, UseArray
<1>3. LibrarySpec => HashSpec
    BY <1>1, <1>2, PTL DEF LibrarySpec, HashSpec
<1>4. QED BY <1>3, TableInvHolds, TableIsStoreHolds

\* The tree of the library is used like any other: what RBMapProofs shows of
\* TreeSpec, TreeInv and TreeIsStore, holds of it.
THEOREM LibraryUsesTree ==
    LibrarySpec => TreeSpec
<1>1. LibraryInit => TreeInit
    BY DEF LibraryInit
<1>2. [LibraryNext]_libraryVars => [TreeNext]_treeVars
    BY DEF LibraryNext, libraryVars, UseFifo, UseSet, UseMulti, UseTree, UseHash, UseList, UseArray
<1>3. QED BY <1>1, <1>2, PTL DEF LibrarySpec, TreeSpec

=============================================================================

------------------------ MODULE RtpStreamObjectProofs ------------------------
(***************************************************************************)
(* Lemmas about the detector object, for every window size, packet set and *)
(* counter width the assumptions of RtpStreamObject allow: the methods keep *)
(* ObjectInv.  The modules that own such objects cite them.                *)
(***************************************************************************)
EXTENDS RtpStreamObject, WellFoundedInduction, SequenceTheorems, FiniteSetTheorems, TLAPS

(***************************************************************************)
(* Facts about windows.                                                    *)
(***************************************************************************)

\* Every nonempty set of natural numbers has a least element; used in place of
\* induction over the positions of a window.
LEMMA LeastNatural ==
    ASSUME NEW T, T \subseteq Nat, T # {}
    PROVE  \E m \in T : \A k \in T : m <= k
<1>1. IsWellFoundedOn(OpToRel(<, Nat), Nat)
    BY NatLessThanWellFounded
<1>2. PICK m \in T : \A k \in T : ~(<<k, m>> \in OpToRel(<, Nat))
    BY <1>1, WFMin
<1>3. \A k \in T : ~(k < m)
    BY <1>2 DEF OpToRel
<1>4. QED
    BY <1>3

\* The elements of a window are packets, their sequence numbers integers.
LEMMA WindowElements ==
    ASSUME NEW w \in Seq(Packet)
    PROVE  /\ Len(w) \in Nat
           /\ \A i \in 1..Len(w) : w[i] \in Packet /\ w[i].seq \in Int
                                   /\ 0 <= w[i].seq /\ w[i].seq <= MaxSeq
<1>1. Len(w) \in Nat /\ \A i \in 1..Len(w) : w[i] \in Packet
    BY LenProperties, ElementOfSeq
<1>2. \A p \in Packet : p.seq \in Int /\ 0 <= p.seq /\ p.seq <= MaxSeq
    BY WidthAssumption DEF Packet, SeqNums
<1>3. QED BY <1>1, <1>2

\* A window whose neighbours agree on the header agrees on it throughout:
\* fastCheckRTP compares each packet with its predecessor only.
LEMMA NeighboursAgree ==
    ASSUME NEW w \in Seq(Packet), HeadersAgree(w)
    PROVE  \A i, j \in 1..Len(w) : Consistent(w[i], w[j])
<1> DEFINE T == {i \in 1..Len(w) : ~Consistent(w[1], w[i])}
<1>1. T = {}
    <2>1. SUFFICES ASSUME T # {} PROVE FALSE
        OBVIOUS
    <2>2. PICK m \in T : \A k \in T : m <= k
        <3>1. T \subseteq Nat
            OBVIOUS
        <3>2. QED BY <2>1, <3>1, LeastNatural
    <2>3. m # 1
        BY DEF Consistent
    <2>4. m - 1 \in 1..Len(w) /\ m - 1 \in 1..(Len(w) - 1)
        BY <2>3
    <2>5. Consistent(w[1], w[m - 1])
        BY <2>2, <2>4
    <2>6. Consistent(w[m - 1], w[(m - 1) + 1])
        BY <2>4 DEF HeadersAgree
    <2>7. QED
        BY <2>5, <2>6 DEF Consistent
<1>2. QED
    BY <1>1 DEF Consistent

\* In a window of strictly increasing sequence numbers the i-th number is at
\* least i - 1 above the first: n packets span at least n numbers.
LEMMA IncreasingSpan ==
    ASSUME NEW w \in Seq(Packet),
           \A i, j \in 1..Len(w) : i < j => w[i].seq < w[j].seq
    PROVE  \A i \in 1..Len(w) : w[1].seq + i - 1 <= w[i].seq
<1> DEFINE T == {i \in 1..Len(w) : ~(w[1].seq + i - 1 <= w[i].seq)}
<1>0. \A i \in 1..Len(w) : w[i].seq \in Int
    BY WindowElements
<1>1. T = {}
    <2>1. SUFFICES ASSUME T # {} PROVE FALSE
        OBVIOUS
    <2>2. PICK m \in T : \A k \in T : m <= k
        <3>1. T \subseteq Nat
            OBVIOUS
        <3>2. QED BY <2>1, <3>1, LeastNatural
    <2>3. m # 1 /\ 1 \in 1..Len(w)
        BY <1>0
    <2>4. m - 1 \in 1..Len(w)
        BY <2>3
    <2>5. w[1].seq + (m - 1) - 1 <= w[m - 1].seq
        BY <2>2, <2>4
    <2>6. w[m - 1].seq < w[m].seq
        BY <2>4
    <2>7. w[1].seq \in Int /\ w[m - 1].seq \in Int /\ w[m].seq \in Int
        BY <1>0, <2>3, <2>4
    <2>8. QED
        BY <2>5, <2>6, <2>7
<1>2. QED
    BY <1>1

\* The least and the greatest number of an increasing window are its ends.
LEMMA WindowEnds ==
    ASSUME NEW w \in Seq(Packet), Len(w) > 0,
           \A i, j \in 1..Len(w) : i < j => w[i].seq < w[j].seq
    PROVE  WindowMin(w) = w[1].seq /\ WindowMax(w) = w[Len(w)].seq
<1>1. \A i \in 1..Len(w) : w[i].seq \in Int
    BY WindowElements
<1>2. 1 \in 1..Len(w) /\ Len(w) \in 1..Len(w)
    BY LenProperties
<1>3. \A i \in 1..Len(w) : w[1].seq <= w[i].seq
    <2>1. TAKE i \in 1..Len(w)
    <2>2. CASE i = 1
        BY <1>1, <2>2
    <2>3. CASE i # 1
        BY <1>1, <1>2, <2>3
    <2>4. QED BY <2>2, <2>3
<1>4. \A i \in 1..Len(w) : w[i].seq <= w[Len(w)].seq
    <2>1. TAKE i \in 1..Len(w)
    <2>2. CASE i = Len(w)
        BY <1>1, <2>2
    <2>3. CASE i # Len(w)
        BY <1>1, <1>2, <2>3
    <2>4. QED BY <2>2, <2>3
<1>5. WindowMin(w) = w[1].seq
    <2> DEFINE S == {w[i].seq : i \in 1..Len(w)}
    <2>1. \A m \in S : (\A i \in 1..Len(w) : m <= w[i].seq) => m = w[1].seq
        BY <1>1, <1>2, <1>3
    <2>2. w[1].seq \in S
        BY <1>2
    <2>3. QED BY <1>3, <2>1, <2>2 DEF WindowMin
<1>6. WindowMax(w) = w[Len(w)].seq
    <2> DEFINE S == {w[i].seq : i \in 1..Len(w)}
    <2>1. \A m \in S : (\A i \in 1..Len(w) : w[i].seq <= m) => m = w[Len(w)].seq
        BY <1>1, <1>2, <1>4
    <2>2. w[Len(w)].seq \in S
        BY <1>2
    <2>3. QED BY <1>4, <2>1, <2>2 DEF WindowMax
<1>7. QED BY <1>5, <1>6

\* What BoundedQueue::push_back leaves: the new element last, the older ones
\* in order, the oldest gone when the queue was full.
LEMMA PushBackIntoQueue ==
    ASSUME NEW S, NEW q \in Seq(S), NEW v \in S, NEW max \in Nat \ {0}, Len(q) <= max
    PROVE  /\ PushBack(q, v, max) \in Seq(S)
           /\ Len(PushBack(q, v, max)) = IF Len(q) < max THEN Len(q) + 1 ELSE max
           /\ \A i \in 1..Len(PushBack(q, v, max)) :
                  PushBack(q, v, max)[i] =
                      IF i = Len(PushBack(q, v, max)) THEN v
                      ELSE IF Len(q) < max THEN q[i] ELSE q[i + 1]
<1> DEFINE a == Append(q, v)
<1>1. /\ a \in Seq(S) /\ a # <<>> /\ Len(a) = Len(q) + 1
      /\ \A i \in 1..Len(q) : a[i] = q[i]
      /\ a[Len(q) + 1] = v
    BY AppendProperties
<1>2. Len(q) \in Nat
    BY LenProperties
<1>3. CASE Len(q) < max
    <2>1. PushBack(q, v, max) = a
        BY <1>3 DEF PushBack
    <2>2. QED
        BY <1>1, <1>2, <1>3, <2>1
<1>4. CASE ~(Len(q) < max)
    <2>1. PushBack(q, v, max) = Tail(a)
        BY <1>4 DEF PushBack
    <2>2. /\ Tail(a) \in Seq(S) /\ Len(Tail(a)) = Len(a) - 1
          /\ \A i \in 1..Len(Tail(a)) : Tail(a)[i] = a[i + 1]
        BY <1>1, HeadTailProperties
    <2>3. Len(q) = max
        BY <1>2, <1>4
    <2>4. QED
        BY <1>1, <1>2, <1>4, <2>1, <2>2, <2>3
<1>5. QED
    BY <1>3, <1>4

LEMMA PushBackProperties ==
    ASSUME NEW q \in Seq(Packet), NEW v \in Packet, NEW max \in Nat \ {0},
           Len(q) <= max
    PROVE  /\ PushBack(q, v, max) \in Seq(Packet)
           /\ Len(PushBack(q, v, max)) = IF Len(q) < max THEN Len(q) + 1 ELSE max
           /\ \A i \in 1..Len(PushBack(q, v, max)) :
                  PushBack(q, v, max)[i] =
                      IF i = Len(PushBack(q, v, max)) THEN v
                      ELSE IF Len(q) < max THEN q[i] ELSE q[i + 1]
    BY PushBackIntoQueue

(***************************************************************************)
(* The methods keep ObjectInv.                                             *)
(***************************************************************************)

\* An increasing stretch stays increasing when the queue takes a packet that
\* advances on its last one, or one with another header.
LEMMA PushKeepsRuns ==
    ASSUME NEW w \in Seq(Packet), NEW p \in Packet, NEW max \in Nat \ {0},
           Len(w) <= max, RunsIncrease(w),
           w # <<>> => (Consistent(Back(w), p) => Back(w).seq < p.seq)
    PROVE  RunsIncrease(PushBack(w, p, max))
<1> DEFINE r == PushBack(w, p, max)
           d == IF Len(w) < max THEN 0 ELSE 1
<1>1. /\ r \in Seq(Packet)
      /\ Len(r) = IF Len(w) < max THEN Len(w) + 1 ELSE max
      /\ \A i \in 1..Len(r) :
             r[i] = IF i = Len(r) THEN p
                    ELSE IF Len(w) < max THEN w[i] ELSE w[i + 1]
    BY PushBackProperties
<1>2. Len(w) \in Nat /\ Len(r) = Len(w) + 1 - d
    BY <1>1, WindowElements
<1>3. \A i \in 1..Len(r) : i # Len(r) => i + d \in 1..Len(w) /\ r[i] = w[i + d]
    BY <1>1, <1>2
<1>4. r[Len(r)] = p /\ Len(r) \in 1..Len(r)
    BY <1>1, <1>2
<1> HIDE DEF r, d
<1>5. SUFFICES ASSUME NEW i \in 1..Len(r), NEW j \in 1..Len(r), i < j,
                      \A k \in i..j : Consistent(r[k], r[j])
               PROVE  r[i].seq < r[j].seq
    BY DEF RunsIncrease, r
<1>6. d \in {0, 1}
    BY DEF d
<1>7. CASE j # Len(r)
    <2>1. /\ i + d \in 1..Len(w) /\ j + d \in 1..Len(w) /\ i + d < j + d
          /\ r[i] = w[i + d] /\ r[j] = w[j + d]
        BY <1>2, <1>3, <1>5, <1>6, <1>7
    <2>2. ASSUME NEW k \in (i + d)..(j + d)
          PROVE  Consistent(w[k], w[j + d])
        <3>1. k - d \in i..j /\ k - d \in 1..Len(r) /\ k - d # Len(r)
              /\ (k - d) + d = k
            BY <1>2, <1>6, <1>7
        <3>2. r[k - d] = w[k]
            BY <1>3, <3>1
        <3>3. QED BY <1>5, <2>1, <3>1, <3>2
    <2>3. QED BY <2>1, <2>2 DEF RunsIncrease
<1>8. CASE j = Len(r)
    <2>1. /\ i + d \in 1..Len(w) /\ r[i] = w[i + d] /\ Len(w) \in 1..Len(w)
          /\ w # <<>>
        BY <1>2, <1>3, <1>5, <1>6, <1>8
    <2>2. \A k \in (i + d)..Len(w) : Consistent(w[k], p)
        <3>1. TAKE k \in (i + d)..Len(w)
        <3>2. /\ k - d \in i..j /\ k - d \in 1..Len(r) /\ k - d # Len(r)
              /\ (k - d) + d = k
            BY <1>2, <1>6, <1>8
        <3>3. r[k - d] = w[k]
            BY <1>3, <3>2
        <3>4. QED BY <1>4, <1>5, <1>8, <3>2, <3>3
    <2>3. w[Len(w)].seq < p.seq
        <3>1. Len(w) \in (i + d)..Len(w)
            BY <2>1
        <3>2. Consistent(Back(w), p)
            BY <2>2, <3>1 DEF Back
        <3>3. QED BY <2>1, <3>2 DEF Back
    <2>4. CASE i + d = Len(w)
        BY <1>4, <1>8, <2>1, <2>3, <2>4
    <2>5. CASE i + d # Len(w)
        <3>1. i + d < Len(w)
            BY <2>1, <2>5
        <3>2. \A k \in (i + d)..Len(w) : Consistent(w[k], w[Len(w)])
            BY <2>1, <2>2 DEF Consistent
        <3>3. w[i + d].seq < w[Len(w)].seq
            BY <2>1, <3>1, <3>2 DEF RunsIncrease
        <3>4. w[i + d].seq \in Int /\ w[Len(w)].seq \in Int /\ p.seq \in Int
            <4>1. p.seq \in Int
                BY WidthAssumption DEF Packet, SeqNums
            <4>2. QED BY <2>1, <4>1, WindowElements
        <3>5. QED BY <1>4, <1>8, <2>1, <2>3, <3>3, <3>4
    <2>6. QED BY <2>4, <2>5
<1>9. QED BY <1>7, <1>8

\* The constructor, and reset(), establish the invariant.
LEMMA NewStreamInv ==
    ASSUME NEW n \in DetectSizes
    PROVE  ObjectInv(NewStream(n))
<1>1. n \in Nat
    BY DetectAssumption
<1>2. <<>> \in Seq(Packet) /\ Len(<<>>) = 0
    BY EmptySeq
<1>3. NewStream(n) \in Stream
    BY <1>1, <1>2, WidthAssumption DEF NewStream, Stream, SeqNums
<1>4. QED
    BY <1>1, <1>2, <1>3 DEF ObjectInv, NewStream, RunsIncrease

\* invalidateStream keeps the window and clears the flag.
LEMMA InvalidatedInv ==
    ASSUME NEW s, ObjectInv(s)
    PROVE  ObjectInv(Invalidated(s)) /\ ~Invalidated(s).valid
<1>0. MaxSeq \in SeqNums /\ 0 \in SeqNums
    BY WidthAssumption DEF SeqNums
<1>1. Invalidated(s) \in Stream
    BY <1>0 DEF ObjectInv, Invalidated, Stream
<1>2. /\ Invalidated(s).window = s.window
      /\ Invalidated(s).nlast = s.nlast
      /\ Invalidated(s).valid = FALSE
    BY DEF ObjectInv, Invalidated, Stream
<1>3. QED
    BY <1>1, <1>2 DEF ObjectInv

\* A noise packet counts or invalidates; the figures stay.
LEMMA AfterNoiseInv ==
    ASSUME NEW s, ObjectInv(s)
    PROVE  ObjectInv(AfterNoise(s))
<1>1. CASE ~s.valid
    BY <1>1 DEF AfterNoise, ObjectInv, Stream
<1>2. CASE s.valid /\ NoiseStops(s)
    BY <1>2, InvalidatedInv DEF AfterNoise, ObjectInv, Stream
<1>3. CASE s.valid /\ ~NoiseStops(s)
    <2> DEFINE t == [s EXCEPT !.noise = @ + 1]
    <2>1. AfterNoise(s) = t
        BY <1>3 DEF AfterNoise, ObjectInv, Stream
    <2>2. s.noise + 1 \in Nat
        BY DEF ObjectInv, Stream
    <2>3. t \in Stream
        BY <2>2 DEF ObjectInv, Stream
    <2>4. /\ t.window = s.window /\ t.nlast = s.nlast /\ t.valid = s.valid
          /\ t.received = s.received
          /\ t.minSeq = s.minSeq /\ t.maxSeq = s.maxSeq
        BY DEF ObjectInv, Stream
    <2>5. QED BY <2>1, <2>3, <2>4 DEF ObjectInv, FiguresAgree, Span
<1>4. QED BY <1>1, <1>2, <1>3 DEF ObjectInv, Stream

\* The fields of an object that has accepted a packet.
LEMMA AcceptedFields ==
    ASSUME NEW s, ObjectInv(s), NEW p \in Packet
    PROVE  LET t == Accepted(s, p)
               w == PushBack(s.window, p, s.nlast)
           IN  /\ t \in Stream
               /\ t.nlast = s.nlast /\ t.valid = s.valid /\ t.window = w
               /\ t.received = (s.received + 1) % CountMod
               /\ t.minSeq = MinOf(s.minSeq, p.seq)
               /\ t.maxSeq = MaxOf(s.maxSeq, p.seq)
<1> DEFINE w == PushBack(s.window, p, s.nlast)
           t == Accepted(s, p)
<1>1. s \in Stream /\ s.nlast \in Nat \ {0}
    BY DetectAssumption DEF ObjectInv, Stream
<1>2. w \in Seq(Packet)
    <2>1. s.window \in Seq(Packet) /\ Len(s.window) <= s.nlast
        BY DEF ObjectInv, Stream
    <2>2. QED BY <1>1, <2>1, PushBackProperties
<1>3. (s.received + 1) % CountMod \in 0..(CountMod - 1)
    <2>1. s.received \in Nat /\ CountMod \in Nat \ {0}
        BY <1>1, WidthAssumption DEF Stream
    <2>2. QED BY <2>1
<1>4. /\ MinOf(s.minSeq, p.seq) \in SeqNums
      /\ MaxOf(s.maxSeq, p.seq) \in SeqNums
    BY <1>1 DEF MinOf, MaxOf, Stream, Packet
<1>5. 0 \in Nat
    OBVIOUS
<1>6. t = [s EXCEPT !.noise = 0, !.window = w,
                    !.minSeq = MinOf(s.minSeq, p.seq),
                    !.maxSeq = MaxOf(s.maxSeq, p.seq),
                    !.received = (s.received + 1) % CountMod]
    BY DEF Accepted
<1> HIDE DEF w, t
<1>7. t \in Stream
    BY <1>1, <1>2, <1>3, <1>4, <1>5, <1>6 DEF Stream
<1>8. /\ t.nlast = s.nlast /\ t.valid = s.valid /\ t.window = w
      /\ t.received = (s.received + 1) % CountMod
      /\ t.minSeq = MinOf(s.minSeq, p.seq)
      /\ t.maxSeq = MaxOf(s.maxSeq, p.seq)
    BY <1>1, <1>6 DEF Stream
<1>9. QED BY <1>7, <1>8 DEF w, t

\* What a valid stream accepts carries its header and tops its range.
LEMMA AcceptsOnTop ==
    ASSUME NEW s, ObjectInv(s), s.valid, NEW p \in Packet,
           ~IsNoise(s, p), ~IsDuplicate(s, p)
    PROVE  /\ Consistent(Back(s.window), p)
           /\ s.minSeq \in Nat /\ s.maxSeq \in Nat /\ p.seq \in Nat
           /\ s.minSeq <= s.maxSeq /\ s.maxSeq < p.seq
<1>1. /\ s \in Stream /\ s.window \in Seq(Packet) /\ Len(s.window) \in Nat
      /\ s.nlast \in Nat \ {0, 1} /\ Len(s.window) = s.nlast
      /\ OneStream(s.window) /\ FiguresAgree(s)
    BY DetectAssumption, WindowElements DEF ObjectInv, Stream
<1>2. s.window # <<>> /\ 1 \in 1..Len(s.window) /\ Len(s.window) \in 1..Len(s.window)
    BY <1>1, EmptySeq
<1>3. /\ s.minSeq \in Nat /\ s.maxSeq \in Nat /\ p.seq \in Nat
      /\ s.window[1].seq \in Int /\ Back(s.window).seq \in Int
    <2>1. s.minSeq \in Nat /\ s.maxSeq \in Nat
        BY <1>1 DEF Stream, SeqNums
    <2>2. p.seq \in Nat
        BY DEF Packet, SeqNums
    <2>3. s.window[1].seq \in Int /\ Back(s.window).seq \in Int
        BY <1>1, <1>2, WindowElements DEF Back
    <2>4. QED BY <2>1, <2>2, <2>3
<1>4. Consistent(Back(s.window), p)
    BY <1>2 DEF IsNoise
<1>5. Back(s.window).seq < p.seq
    BY <1>2, <1>3, <1>4 DEF IsDuplicate
<1>6. s.window[1].seq < s.window[Len(s.window)].seq
    BY <1>1, <1>2 DEF OneStream
<1>7. s.minSeq <= Back(s.window).seq
    BY <1>1, <1>3, <1>6 DEF FiguresAgree, Back
<1>8. QED
    BY <1>1, <1>3, <1>4, <1>5, <1>7 DEF FiguresAgree

\* It then counts one more packet, and the range grows to that packet.
LEMMA AcceptedFigures ==
    ASSUME NEW s, ObjectInv(s), s.valid, NEW p \in Packet,
           ~IsNoise(s, p), ~IsDuplicate(s, p)
    PROVE  /\ Accepted(s, p).maxSeq = p.seq
           /\ Accepted(s, p).minSeq = s.minSeq
           /\ Accepted(s, p).received = s.received + 1
<1> DEFINE t == Accepted(s, p)
<1>1. /\ t.received = (s.received + 1) % CountMod
      /\ t.minSeq = MinOf(s.minSeq, p.seq)
      /\ t.maxSeq = MaxOf(s.maxSeq, p.seq)
    BY AcceptedFields
<1>2. /\ s.minSeq \in Nat /\ s.maxSeq \in Nat /\ p.seq \in Nat
      /\ s.minSeq <= s.maxSeq /\ s.maxSeq < p.seq
    BY AcceptsOnTop
<1>3. s.received \in Nat /\ s.received <= s.maxSeq - s.minSeq + 1
    BY WidthAssumption DEF ObjectInv, Stream, FiguresAgree, Span
<1>4. t.maxSeq = p.seq /\ t.minSeq = s.minSeq
    BY <1>1, <1>2 DEF MinOf, MaxOf
<1>5. p.seq <= MaxSeq
    BY WidthAssumption DEF Packet, SeqNums
<1>6. s.received + 1 < CountMod /\ CountMod \in Nat \ {0}
    BY <1>2, <1>3, <1>5, WidthAssumption
<1>7. (s.received + 1) % CountMod = s.received + 1
    BY <1>3, <1>6
<1>8. QED BY <1>1, <1>4, <1>7

\* Accepting a packet keeps the runs increasing; in a valid stream it extends
\* the one header and counts one more number at the top of the range.
LEMMA AcceptedInv ==
    ASSUME NEW s, ObjectInv(s), NEW p \in Packet,
           ~IsNoise(s, p), ~IsDuplicate(s, p)
    PROVE  ObjectInv(Accepted(s, p))
<1> DEFINE t == Accepted(s, p)
           w == PushBack(s.window, p, s.nlast)
<1>1. /\ t \in Stream
      /\ t.nlast = s.nlast /\ t.valid = s.valid /\ t.window = w
      /\ t.received = (s.received + 1) % CountMod
      /\ t.minSeq = MinOf(s.minSeq, p.seq)
      /\ t.maxSeq = MaxOf(s.maxSeq, p.seq)
    BY AcceptedFields
<1>2. /\ s.window \in Seq(Packet) /\ Len(s.window) <= s.nlast
      /\ s.nlast \in Nat \ {0, 1}
      /\ Len(s.window) \in Nat
    BY DetectAssumption, WindowElements DEF ObjectInv, Stream
<1>3. /\ w \in Seq(Packet)
      /\ Len(w) = IF Len(s.window) < s.nlast THEN Len(s.window) + 1 ELSE s.nlast
      /\ \A i \in 1..Len(w) :
             w[i] = IF i = Len(w) THEN p
                    ELSE IF Len(s.window) < s.nlast
                         THEN s.window[i] ELSE s.window[i + 1]
    <2>1. ASSUME NEW q \in Seq(Packet), NEW n \in Nat \ {0}, Len(q) <= n
          PROVE  LET r == PushBack(q, p, n)
                 IN  /\ r \in Seq(Packet)
                     /\ Len(r) = IF Len(q) < n THEN Len(q) + 1 ELSE n
                     /\ \A i \in 1..Len(r) :
                            r[i] = IF i = Len(r) THEN p
                                   ELSE IF Len(q) < n THEN q[i] ELSE q[i + 1]
        BY <2>1, PushBackProperties
    <2>2. s.window \in Seq(Packet) /\ s.nlast \in Nat \ {0}
          /\ Len(s.window) <= s.nlast
        BY <1>2
    <2>3. QED BY <2>1, <2>2, Zenon
<1>4. s.window # <<>> =>
          (Consistent(Back(s.window), p) => Back(s.window).seq < p.seq)
    <2>1. SUFFICES ASSUME s.window # <<>>, Consistent(Back(s.window), p)
                   PROVE  Back(s.window).seq < p.seq
        OBVIOUS
    <2>2. ~(Back(s.window).seq >= p.seq)
        BY <2>1 DEF IsDuplicate
    <2>3. Len(s.window) \in 1..Len(s.window)
        BY <1>2, <2>1, EmptySeq
    <2>4. Back(s.window).seq \in Int
        BY <1>2, <2>3, WindowElements DEF Back
    <2>5. p.seq \in Int
        BY WidthAssumption DEF Packet, SeqNums
    <2>6. QED BY <2>2, <2>4, <2>5
<1>5. RunsIncrease(w)
    <2>1. RunsIncrease(s.window) /\ s.nlast \in Nat \ {0}
        BY <1>2 DEF ObjectInv
    <2>2. QED BY <1>2, <1>4, <2>1, PushKeepsRuns
<1> HIDE DEF t, w
<1>6. ASSUME s.valid
      PROVE  Len(w) = s.nlast /\ OneStream(w) /\ FiguresAgree(t)
    <2>1. /\ Len(s.window) = s.nlast /\ OneStream(s.window) /\ FiguresAgree(s)
          /\ s.nlast \in 1..Len(s.window) /\ 1 \in 1..Len(s.window)
          /\ 2 \in 1..Len(s.window)
        BY <1>2, <1>6 DEF ObjectInv
    <2>2. Len(w) = s.nlast
        BY <1>3, <2>1
    <2>3. Consistent(Back(s.window), p) /\ s.maxSeq < p.seq
        BY <1>6, AcceptsOnTop
    <2>4. \A i \in 1..Len(w) :
              w[i] = IF i = Len(w) THEN p ELSE s.window[i + 1]
        BY <1>3, <2>1, <2>2
    <2>5. \A i \in 1..Len(w) : Consistent(w[i], p)
        <3>1. TAKE i \in 1..Len(w)
        <3>2. CASE i = Len(w)
            BY <2>4, <3>2 DEF Consistent
        <3>3. CASE i # Len(w)
            <4>1. i + 1 \in 1..Len(s.window)
                BY <1>2, <2>1, <2>2, <3>3
            <4>2. Consistent(s.window[i + 1], Back(s.window))
                BY <2>1, <4>1 DEF OneStream, Back
            <4>3. w[i] = s.window[i + 1]
                BY <2>4, <3>3
            <4>4. QED BY <2>3, <4>2, <4>3 DEF Consistent
        <3>4. QED BY <3>2, <3>3
    <2>6. OneStream(w)
        <3>1. \A i, j \in 1..Len(w) : Consistent(w[i], w[j])
            BY <2>5 DEF Consistent
        <3>2. ASSUME NEW i \in 1..Len(w), NEW j \in 1..Len(w), i < j
              PROVE  w[i].seq < w[j].seq
            <4>1. \A k \in i..j : Consistent(w[k], w[j])
                <5>1. \A k \in i..j : k \in 1..Len(w)
                    BY <1>2, <2>2
                <5>2. QED BY <3>1, <5>1
            <4>2. QED BY <1>5, <3>2, <4>1 DEF RunsIncrease
        <3>3. QED BY <3>1, <3>2 DEF OneStream
    <2>7. /\ s.minSeq <= s.window[1].seq
          /\ s.received <= s.maxSeq - s.minSeq + 1
        BY <2>1 DEF FiguresAgree, Span
    <2>8. /\ t.maxSeq = p.seq /\ t.minSeq = s.minSeq
          /\ t.received = s.received + 1
        BY <1>6, AcceptedFigures DEF t
    <2>9. /\ s.minSeq \in Int /\ s.maxSeq \in Int /\ p.seq \in Int
          /\ s.received \in Int
          /\ s.window[1].seq \in Int /\ s.window[2].seq \in Int
        <3>1. s.window[1].seq \in Int /\ s.window[2].seq \in Int
            BY <1>2, <2>1, WindowElements
        <3>2. s.received \in Int
            BY DEF ObjectInv, Stream
        <3>3. QED BY <1>6, <3>1, <3>2, AcceptsOnTop
    <2>10. s.window[1].seq < s.window[2].seq
        BY <2>1 DEF OneStream
    <2>11. /\ w[Len(w)] = p
           /\ w[1] = s.window[2]
        <3>1. Len(w) \in 1..Len(w) /\ 1 \in 1..Len(w) /\ Len(w) # 1
            BY <1>2, <2>2
        <3>2. w[Len(w)] = p
            BY <2>4, <3>1
        <3>3. w[1] = s.window[1 + 1]
            BY <2>4, <3>1
        <3>4. QED BY <3>2, <3>3
    <2>12. FiguresAgree(t)
        <3>1. t.received <= t.maxSeq - t.minSeq + 1
            BY <2>3, <2>7, <2>8, <2>9
        <3>2. t.maxSeq = Back(t.window).seq
            BY <1>1, <2>8, <2>11 DEF Back
        <3>3. t.minSeq <= t.window[1].seq
            BY <1>1, <2>7, <2>8, <2>9, <2>10, <2>11
        <3>4. QED BY <3>1, <3>2, <3>3 DEF FiguresAgree, Span
    <2>13. QED BY <2>2, <2>6, <2>12
<1>7. Len(w) <= s.nlast
    BY <1>2, <1>3
<1>8. QED
    BY <1>1, <1>5, <1>6, <1>7 DEF ObjectInv, t

\* The invariant survives a packet of any kind.
LEMMA IndicateInv ==
    ASSUME NEW s, ObjectInv(s), NEW p \in Packet \cup {NotRtp}
    PROVE  ObjectInv(AfterIndicate(s, p))
<1>1. CASE IsNoise(s, p)
    BY <1>1, AfterNoiseInv DEF AfterIndicate
<1>2. CASE ~IsNoise(s, p) /\ IsDuplicate(s, p)
    BY <1>2 DEF AfterIndicate
<1>3. CASE ~IsNoise(s, p) /\ ~IsDuplicate(s, p)
    <2>1. p \in Packet
        BY <1>3 DEF IsNoise
    <2>2. AfterIndicate(s, p) = Accepted(s, p)
        BY <1>3 DEF AfterIndicate
    <2>3. QED BY <1>3, <2>1, <2>2, AcceptedInv
<1>4. QED BY <1>1, <1>2, <1>3

\* Timestamps subtracted as UINT32 are never negative, so the sign test can
\* only tell that sequence numbers go back.
LEMMA SignTest ==
    ASSUME NEW p \in Packet, NEW q \in Packet, p.seq < q.seq
    PROVE  ~SignsDiffer(p, q)
<1>1. p.seq \in Int /\ q.seq \in Int /\ p.ts \in Int /\ q.ts \in Int
    <2>1. SeqNums \subseteq Int
        BY DEF SeqNums
    <2>2. Times \subseteq Int
        BY PacketAssumption
    <2>3. QED BY <2>1, <2>2 DEF Packet
<1>2. TimeMod \in Nat \ {0}
    BY WidthAssumption
<1> DEFINE d == q.ts - p.ts
<1>3. d \in Int
    BY <1>1
<1> HIDE DEF d
<1>4. d % TimeMod \in 0..(TimeMod - 1)
    BY <1>2, <1>3
<1>5. ~(d % TimeMod < 0)
    BY <1>2, <1>4
<1>6. ~(q.seq - p.seq < 0)
    BY <1>1
<1>7. QED BY <1>5, <1>6 DEF SignsDiffer, d

\* A full window whose neighbours agree is one increasing stream, and the
\* sign test and the span test pass.
LEMMA FullAgreeingWindow ==
    ASSUME NEW s, ObjectInv(s), Full(s), HeadersAgree(s.window)
    PROVE  /\ Detects(s)
           /\ Len(s.window) = s.nlast
           /\ OneStream(s.window)
           /\ WindowMin(s.window) = s.window[1].seq
           /\ WindowMax(s.window) = Back(s.window).seq
           /\ s.nlast <= Back(s.window).seq - s.window[1].seq + 1
<1> DEFINE w == s.window
<1>1. /\ w \in Seq(Packet) /\ Len(w) \in Nat /\ Len(w) = s.nlast
      /\ s.nlast \in Nat \ {0, 1}
    <2>1. w \in Seq(Packet) /\ s.nlast \in Nat \ {0, 1} /\ Len(w) <= s.nlast
        BY DetectAssumption DEF ObjectInv, Stream
    <2>2. Len(w) \in Nat
        BY <2>1, WindowElements
    <2>3. Len(w) >= s.nlast
        BY DEF Full
    <2>4. QED BY <2>1, <2>2, <2>3
<1>2. \A i, j \in 1..Len(w) : Consistent(w[i], w[j])
    BY <1>1, NeighboursAgree
<1>3. \A i, j \in 1..Len(w) : i < j => w[i].seq < w[j].seq
    <2>1. SUFFICES ASSUME NEW i \in 1..Len(w), NEW j \in 1..Len(w), i < j
                   PROVE  w[i].seq < w[j].seq
        OBVIOUS
    <2>2. \A k \in i..j : k \in 1..Len(w)
        BY <1>1
    <2>3. \A k \in i..j : Consistent(w[k], w[j])
        BY <1>2, <2>2
    <2>4. QED BY <2>1, <2>3 DEF ObjectInv, RunsIncrease
<1>4. OneStream(w)
    BY <1>2, <1>3 DEF OneStream
<1>5. WindowMin(w) = w[1].seq /\ WindowMax(w) = w[Len(w)].seq
    BY <1>1, <1>3, WindowEnds
<1>6. w[1].seq + Len(w) - 1 <= w[Len(w)].seq
    <2>1. Len(w) \in 1..Len(w)
        BY <1>1
    <2>2. QED BY <1>1, <1>3, <2>1, IncreasingSpan
<1>7. w[1].seq \in Int /\ w[Len(w)].seq \in Int
    BY <1>1, WindowElements
<1>8. \A i \in 1..(Len(w) - 1) : ~SignsDiffer(w[i], w[i + 1])
    <2>1. TAKE i \in 1..(Len(w) - 1)
    <2>2. i \in 1..Len(w) /\ i + 1 \in 1..Len(w) /\ i < i + 1
        BY <1>1
    <2>3. w[i] \in Packet /\ w[i + 1] \in Packet /\ w[i].seq < w[i + 1].seq
        BY <1>1, <1>3, <2>2, WindowElements
    <2>4. QED BY <2>3, SignTest
<1>9. WindowMin(w) + s.nlast - 2 <= WindowMax(w)
    <2> DEFINE a == w[1].seq
               b == w[Len(w)].seq
               n == s.nlast
    <2>1. a \in Int /\ b \in Int /\ n \in Int /\ a + n - 1 <= b
        BY <1>1, <1>6, <1>7
    <2> HIDE DEF a, b, n
    <2>2. a + n - 2 <= b
        BY <2>1
    <2>3. QED BY <1>5, <2>2 DEF a, b, n
<1>10. Detects(s)
    BY <1>8, <1>9 DEF Detects
<1>11. s.nlast <= Back(w).seq - w[1].seq + 1
    BY <1>1, <1>6, <1>7 DEF Back
<1>12. QED
    BY <1>1, <1>4, <1>5, <1>10, <1>11 DEF Back

\* DetectStream succeeds exactly on a full window with one header.
LEMMA DetectsExactly ==
    ASSUME NEW s, ObjectInv(s)
    PROVE  Detects(s) <=> Full(s) /\ HeadersAgree(s.window)
<1>1. Detects(s) => Full(s) /\ HeadersAgree(s.window)
    BY DEF Detects
<1>2. Full(s) /\ HeadersAgree(s.window) => Detects(s)
    BY FullAgreeingWindow
<1>3. QED BY <1>1, <1>2

\* Detection sets the flag only over a window that is one stream, with the
\* figures of that window; failed detection invalidates.
LEMMA DetectInv ==
    ASSUME NEW s, ObjectInv(s)
    PROVE  ObjectInv(AfterDetect(s))
<1>1. CASE ~Detects(s)
    BY <1>1, InvalidatedInv DEF AfterDetect
<1>2. CASE Detects(s)
    <2> DEFINE w == s.window
               t == Detected(s)
    <2>1. /\ Len(w) = s.nlast /\ OneStream(w)
          /\ WindowMin(w) = w[1].seq /\ WindowMax(w) = Back(w).seq
          /\ s.nlast <= Back(w).seq - w[1].seq + 1
        BY <1>2, FullAgreeingWindow DEF Detects
    <2>2. /\ w \in Seq(Packet) /\ Len(w) \in Nat
          /\ s.nlast \in Nat \ {0, 1} /\ s \in Stream
        BY DetectAssumption, WindowElements DEF ObjectInv, Stream
    <2>3. 1 \in 1..Len(w) /\ Len(w) \in 1..Len(w) /\ Len(w) - 1 \in 1..Len(w)
        BY <2>1, <2>2
    <2>4. /\ w[1].seq \in SeqNums /\ Back(w).seq \in SeqNums
          /\ w[Len(w) - 1] \in Packet
        <3>1. \A i \in 1..Len(w) : w[i] \in Packet
            BY <2>2, WindowElements
        <3>2. \A p \in Packet : p.seq \in SeqNums
            BY DEF Packet
        <3>3. QED BY <2>3, <3>1, <3>2 DEF Back
    <2>5. /\ w[Len(w) - 1].pt \in 0..127 /\ w[Len(w) - 1].ssrc \in Nat
        BY <2>4, PacketAssumption DEF Packet
    <2>6. /\ s.nlast % CountMod = s.nlast
          /\ s.nlast % CountMod \in 0..(CountMod - 1)
        <3>1. s.nlast <= MaxSeq + 1
            BY <2>1, <2>2, <2>4, WidthAssumption DEF SeqNums
        <3>2. s.nlast < CountMod /\ CountMod \in Nat \ {0}
            BY <2>2, <3>1, WidthAssumption
        <3>3. s.nlast % CountMod = s.nlast
            BY <2>2, <3>2
        <3>4. QED BY <2>2, <3>2, <3>3
    <2>7. t = [s EXCEPT !.valid = TRUE,
                        !.minSeq = WindowMin(w),
                        !.maxSeq = WindowMax(w),
                        !.received = s.nlast % CountMod,
                        !.codec = w[Len(w) - 1].pt,
                        !.ssrc = w[Len(w) - 1].ssrc]
        BY DEF Detected
    <2>8. WindowMin(w) \in SeqNums /\ WindowMax(w) \in SeqNums
        BY <2>1, <2>4
    <2> HIDE DEF t
    <2>9. t \in Stream
        BY <2>2, <2>5, <2>6, <2>7, <2>8 DEF Stream
    <2>10. /\ t.window = s.window /\ t.nlast = s.nlast /\ t.valid
           /\ t.received = s.nlast
           /\ t.minSeq = s.window[1].seq /\ t.maxSeq = Back(s.window).seq
        BY <2>1, <2>2, <2>6, <2>7 DEF Stream
    <2>11. FiguresAgree(t)
        <3>1. t.received <= t.maxSeq - t.minSeq + 1
            BY <2>1, <2>10
        <3>2. t.minSeq <= t.window[1].seq
            BY <2>4, <2>10, WidthAssumption DEF SeqNums
        <3>3. QED BY <2>10, <3>1, <3>2 DEF FiguresAgree, Span
    <2>12. ObjectInv(t)
        <3>1. Len(t.window) = t.nlast /\ OneStream(t.window)
            BY <2>1, <2>10
        <3>2. RunsIncrease(t.window) /\ Len(t.window) <= t.nlast
            BY <2>10 DEF ObjectInv
        <3>3. QED BY <2>9, <2>11, <3>1, <3>2 DEF ObjectInv
    <2>13. QED BY <1>2, <2>12 DEF AfterDetect, t
<1>3. QED BY <1>1, <1>2

\* Overriding the codec touches nothing the invariant speaks of.
LEMMA CodecInv ==
    ASSUME NEW s, ObjectInv(s), NEW c \in Payloads
    PROVE  ObjectInv([s EXCEPT !.codec = c])
<1> DEFINE t == [s EXCEPT !.codec = c]
<1>1. c \in 0..127
    BY PacketAssumption
<1>2. t \in Stream
    BY <1>1 DEF ObjectInv, Stream
<1>3. /\ t.window = s.window /\ t.nlast = s.nlast /\ t.valid = s.valid
      /\ t.received = s.received
      /\ t.minSeq = s.minSeq /\ t.maxSeq = s.maxSeq
    BY DEF ObjectInv, Stream
<1>4. QED BY <1>2, <1>3 DEF ObjectInv, FiguresAgree, Span
=============================================================================

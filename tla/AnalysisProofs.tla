----------------------------- MODULE AnalysisProofs -----------------------------
(***************************************************************************)
(* Proofs about the parts of Analysis: the arithmetic of times, the test   *)
(* driver, the RTCP half of a detector, the analyzer, and the RTP half.    *)
(***************************************************************************)
EXTENDS Analysis, RtpStreamObjectProofs, SequenceTheorems, FiniteSetTheorems, TLAPS

(***************************************************************************)
(* TimeRegister: the arithmetic of times, for every width of the sub-      *)
(* seconds and every sequence of operations.                               *)
(*                                                                         *)
(* A time is not normalised: its sub-seconds may have the other sign than  *)
(* its seconds, or be as many as a second.  That it still compares like    *)
(* the number it stands for rests on Told, which every operation restores. *)
(***************************************************************************)

TimeRecord == [sec: Int, nsec: Int]

\* The sub-seconds never outweigh the seconds.
Told(x) ==
    /\ -SubSec <= x.nsec /\ x.nsec <= SubSec
    /\ x.sec < 0 => x.nsec < SubSec
    /\ x.sec > 0 => -SubSec < x.nsec

TimeIInv ==
    /\ time \in TimeRecord /\ exact \in Int
    /\ Count(time) = exact
    /\ Told(time)

-----------------------------------------------------------------------------

\* Seconds in sub-seconds.
LEMMA Products ==
    \A a, b \in Int : /\ a * SubSec \in Int
                      /\ (a + b) * SubSec = a * SubSec + b * SubSec
                      /\ (a - b) * SubSec = a * SubSec - b * SubSec
                      /\ (-a) * SubSec = -(a * SubSec)
                      /\ SubSec * a = a * SubSec
  BY SubSecAssumption

\* Division of natural numbers, the only one the code does.
LEMMA Division ==
    \A b \in Nat : /\ b \div SubSec \in Nat
                   /\ SubSec * (b \div SubSec) <= b
                   /\ b < SubSec * (b \div SubSec) + SubSec
  BY SubSecAssumption

\* Division towards zero leaves less than a second on either side.
LEMMA TruncatedDivision ==
    \A a \in Int : /\ Quotient(a) \in Int /\ Remainder(a) \in Int
                   /\ -SubSec < Remainder(a) /\ Remainder(a) < SubSec
                   /\ a = Quotient(a) * SubSec + Remainder(a)
<1> SUFFICES ASSUME NEW a \in Int
             PROVE  /\ Quotient(a) \in Int /\ Remainder(a) \in Int
                    /\ -SubSec < Remainder(a) /\ Remainder(a) < SubSec
                    /\ a = Quotient(a) * SubSec + Remainder(a)
  OBVIOUS
<1>1. CASE a >= 0
  <2>1. Quotient(a) = a \div SubSec  BY <1>1 DEF Quotient
  <2>2. a \in Nat  BY <1>1
  <2> QED  BY <2>1, <2>2, Division, SubSecAssumption DEF Remainder
<1>2. CASE ~(a >= 0)
  <2>1. Quotient(a) = -((-a) \div SubSec)  BY <1>2 DEF Quotient
  <2>2. -a \in Nat  BY <1>2
  <2> DEFINE q == (-a) \div SubSec
  <2>3. q \in Nat /\ SubSec * q <= -a /\ -a < SubSec * q + SubSec  BY <2>2, Division
  <2>4. Remainder(a) = a - SubSec * (-q)  BY <2>1 DEF Remainder
  <2> HIDE DEF q
  <2>5. SubSec * (-q) = -(SubSec * q) /\ SubSec * q \in Int  BY <2>3, SubSecAssumption
  <2>6. (-q) * SubSec = -(SubSec * q)  BY <2>3, SubSecAssumption
  <2>7. Quotient(a) = -q  BY <2>1 DEF q
  <2> QED  BY <2>3, <2>4, <2>5, <2>6, <2>7, SubSecAssumption
<1> QED  BY <1>1, <1>2

\* A time that Told holds of compares with zero as its count does.
LEMMA ToldCompares ==
    \A x \in TimeRecord :
        Told(x) => /\ Before(x, Zero) <=> Count(x) < 0
                   /\ Before(Zero, x) <=> Count(x) > 0
<1> SUFFICES ASSUME NEW x \in TimeRecord, Told(x)
             PROVE  /\ Before(x, Zero) <=> Count(x) < 0
                    /\ Before(Zero, x) <=> Count(x) > 0
  OBVIOUS
<1>1. x.sec \in Int /\ x.nsec \in Int  BY DEF TimeRecord
<1>2. CASE x.sec = 0
  BY <1>1, <1>2, SubSecAssumption DEF Before, Zero, Count
<1>3. CASE x.sec < 0
  <2>1. x.sec * SubSec <= -SubSec  BY <1>1, <1>3, SubSecAssumption
  <2>2. x.sec * SubSec \in Int  BY <1>1, SubSecAssumption
  <2>3. Count(x) < 0  BY <1>1, <1>3, <2>1, <2>2, SubSecAssumption DEF Told, Count
  <2> QED  BY <1>1, <1>3, <2>2, <2>3, SubSecAssumption DEF Before, Zero, Count
<1>4. CASE x.sec > 0
  <2>1. x.sec * SubSec >= SubSec  BY <1>1, <1>4, SubSecAssumption
  <2>2. x.sec * SubSec \in Int  BY <1>1, SubSecAssumption
  <2>3. Count(x) > 0  BY <1>1, <1>4, <2>1, <2>2, SubSecAssumption DEF Told, Count
  <2> QED  BY <1>1, <1>4, <2>2, <2>3, SubSecAssumption DEF Before, Zero, Count
<1> QED  BY <1>1, <1>2, <1>3, <1>4

-----------------------------------------------------------------------------

\* Each operation gives a time of the right count, of which Told holds.
LEMMA OfCountExact ==
    \A a \in Int : OfCount(a) \in TimeRecord /\ Count(OfCount(a)) = a /\ Told(OfCount(a))
  BY TruncatedDivision, SubSecAssumption DEF OfCount, Count, TimeRecord, Told

\* The sign turns, and a form that Told holds of stays one.
LEMMA NegatedExact ==
    \A x \in TimeRecord :
        /\ Negated(x) \in TimeRecord /\ Count(Negated(x)) = -Count(x)
        /\ Told(x) => Told(Negated(x))
<1> SUFFICES ASSUME NEW x \in TimeRecord
             PROVE  /\ Negated(x) \in TimeRecord /\ Count(Negated(x)) = -Count(x)
                    /\ Told(x) => Told(Negated(x))
  OBVIOUS
<1>1. x.sec \in Int /\ x.nsec \in Int  BY DEF TimeRecord
<1>2. (-x.sec) * SubSec = -(x.sec * SubSec) /\ x.sec * SubSec \in Int
  BY <1>1, SubSecAssumption
<1>3. Negated(x) \in TimeRecord /\ Negated(x).sec = -x.sec /\ Negated(x).nsec = -x.nsec
  BY <1>1 DEF Negated, TimeRecord
<1>4. Count(Negated(x)) = -Count(x)  BY <1>1, <1>2, <1>3 DEF Count
<1>5. Told(x) => Told(Negated(x))  BY <1>1, <1>3, SubSecAssumption DEF Told
<1> QED  BY <1>3, <1>4, <1>5

\* The sum carries exactly, whatever the forms of the two.
LEMMA PlusExact ==
    \A x, y \in TimeRecord :
        /\ Plus(x, y) \in TimeRecord /\ Count(Plus(x, y)) = Count(x) + Count(y)
        /\ Told(Plus(x, y))
<1> SUFFICES ASSUME NEW x \in TimeRecord, NEW y \in TimeRecord
             PROVE  /\ Plus(x, y) \in TimeRecord /\ Count(Plus(x, y)) = Count(x) + Count(y)
                    /\ Told(Plus(x, y))
  OBVIOUS
<1> DEFINE n == x.nsec + y.nsec
           s == Quotient(n)
           r == IF s # 0 THEN Remainder(n) ELSE n
<1>1. /\ x.sec \in Int /\ x.nsec \in Int /\ y.sec \in Int /\ y.nsec \in Int
      /\ n \in Int
  BY DEF TimeRecord
<1>2. s \in Int /\ Remainder(n) \in Int /\ n = s * SubSec + Remainder(n)
      /\ -SubSec < Remainder(n) /\ Remainder(n) < SubSec
  BY <1>1, TruncatedDivision
<1>3. s = 0 => n = Remainder(n)  BY <1>1, <1>2, SubSecAssumption
<1>4. r = Remainder(n)  BY <1>3
<1>5. Plus(x, y) = [sec |-> x.sec + y.sec + s, nsec |-> r]  BY DEF Plus
<1> HIDE DEF s, r
<1>6. Plus(x, y) \in TimeRecord /\ Plus(x, y).sec = x.sec + y.sec + s /\ Plus(x, y).nsec = Remainder(n)
  BY <1>1, <1>2, <1>4, <1>5 DEF TimeRecord
<1>7. (x.sec + y.sec + s) * SubSec = x.sec * SubSec + y.sec * SubSec + s * SubSec
      /\ x.sec * SubSec \in Int /\ y.sec * SubSec \in Int /\ s * SubSec \in Int
  <2> DEFINE a == x.sec + y.sec
             p == x.sec
             q == y.sec
  <2>2. a \in Int /\ a * SubSec = x.sec * SubSec + y.sec * SubSec
    <3>1. p \in Int /\ q \in Int  BY <1>1
    <3> HIDE DEF p, q
    <3>2. (p + q) * SubSec = p * SubSec + q * SubSec  BY <3>1, Products
    <3> QED  BY <1>1, <3>2 DEF p, q
  <2>3. a + s = x.sec + y.sec + s  OBVIOUS
  <2> HIDE DEF a
  <2>4. (a + s) * SubSec = a * SubSec + s * SubSec  BY <1>2, <2>2, Products
  <2>1. (x.sec + y.sec + s) * SubSec = a * SubSec + s * SubSec  BY <2>3, <2>4
  <2> QED  BY <1>1, <1>2, <2>1, <2>2, Products
<1>8. Count(Plus(x, y)) = Count(x) + Count(y)
  <2>1. Count(Plus(x, y)) = (x.sec + y.sec + s) * SubSec + Remainder(n)  BY <1>6 DEF Count
  <2>2. s * SubSec + Remainder(n) = x.nsec + y.nsec  BY <1>2
  <2> QED  BY <1>1, <1>2, <1>7, <2>1, <2>2 DEF Count
<1>9. Told(Plus(x, y))
  BY <1>1, <1>2, <1>6, SubSecAssumption DEF Told
<1> QED  BY <1>6, <1>8, <1>9

\* The distance that diff returns is not negative in either part, and is the
\* difference or its opposite.
LEMMA DiffExact ==
    \A x, y \in TimeRecord :
        LET t == Diff(x, y).time
        IN  /\ t \in TimeRecord /\ t.sec >= 0 /\ 0 <= t.nsec /\ t.nsec <= SubSec
            /\ Count(t) = IF Diff(x, y).negative THEN Count(y) - Count(x) ELSE Count(x) - Count(y)
<1> SUFFICES ASSUME NEW x \in TimeRecord, NEW y \in TimeRecord
             PROVE  LET t == Diff(x, y).time
                    IN  /\ t \in TimeRecord /\ t.sec >= 0 /\ 0 <= t.nsec /\ t.nsec <= SubSec
                        /\ Count(t) = IF Diff(x, y).negative THEN Count(y) - Count(x)
                                      ELSE Count(x) - Count(y)
  OBVIOUS
<1> DEFINE lend == IF x.nsec < y.nsec THEN (y.nsec - x.nsec) \div SubSec + 1 ELSE 0
           gap  == x.nsec - y.nsec + SubSec * lend
           back == IF gap > SubSec THEN gap \div SubSec ELSE 0
           sec  == x.sec - (y.sec + lend - back)
           nsec == gap - SubSec * back
           t    == IF sec < 0 THEN [sec |-> -sec - 1, nsec |-> SubSec - nsec]
                   ELSE [sec |-> sec, nsec |-> nsec]
           neg  == sec < 0
<1>1. x.sec \in Int /\ x.nsec \in Int /\ y.sec \in Int /\ y.nsec \in Int
  BY DEF TimeRecord
<1>2. lend \in Int /\ gap \in Nat
  <2>1. CASE x.nsec < y.nsec
    <3> DEFINE m == y.nsec - x.nsec
               q == m \div SubSec
    <3>1. m \in Nat  BY <1>1, <2>1
    <3>2. q \in Nat /\ m < SubSec * q + SubSec  BY <3>1, Division
    <3>3. lend = q + 1  BY <2>1
    <3> HIDE DEF q, lend
    <3>4. SubSec * lend = SubSec * q + SubSec  BY <3>2, <3>3, SubSecAssumption
    <3>5. SubSec * lend \in Int  BY <3>2, <3>3, SubSecAssumption
    <3> QED  BY <1>1, <3>1, <3>2, <3>3, <3>4, <3>5
  <2>2. CASE ~(x.nsec < y.nsec)
    <3>1. lend = 0  BY <2>2
    <3> HIDE DEF lend
    <3> QED  BY <1>1, <2>2, <3>1, SubSecAssumption
  <2> QED  BY <2>1, <2>2
<1> HIDE DEF lend
<1>3. back \in Int /\ nsec \in Int /\ 0 <= nsec /\ nsec <= SubSec
  <2> HIDE DEF gap
  <2>1. CASE gap > SubSec
    <3>1. back = gap \div SubSec  BY <2>1
    <3>2. back \in Nat /\ SubSec * back <= gap /\ gap < SubSec * back + SubSec
      BY <1>2, <3>1, Division
    <3> HIDE DEF back
    <3>3. SubSec * back \in Int  BY <3>2, SubSecAssumption
    <3> QED  BY <1>2, <3>2, <3>3, SubSecAssumption
  <2>2. CASE ~(gap > SubSec)
    <3>1. back = 0  BY <2>2
    <3> HIDE DEF back
    <3> QED  BY <1>2, <2>2, <3>1, SubSecAssumption
  <2> QED  BY <2>1, <2>2
<1>4. nsec = gap - SubSec * back /\ gap = x.nsec - y.nsec + SubSec * lend  OBVIOUS
<1>5. sec = x.sec - (y.sec + lend - back)  OBVIOUS
<1>6. Diff(x, y) = [time |-> t, negative |-> neg]  BY DEF Diff, lend
<1> HIDE DEF gap, back, nsec, sec
<1>7. sec \in Int  BY <1>1, <1>2, <1>3, <1>5
<1>8. sec * SubSec = x.sec * SubSec - y.sec * SubSec - SubSec * lend + SubSec * back
      /\ sec * SubSec \in Int /\ x.sec * SubSec \in Int /\ y.sec * SubSec \in Int
      /\ SubSec * lend \in Int /\ SubSec * back \in Int
  <2> DEFINE a == x.sec - y.sec
             b == lend - back
             p == x.sec
             q == y.sec
  <2>3. a \in Int /\ a * SubSec = x.sec * SubSec - y.sec * SubSec
    <3>1. p \in Int /\ q \in Int  BY <1>1
    <3> HIDE DEF p, q
    <3>2. (p - q) * SubSec = p * SubSec - q * SubSec  BY <3>1, Products
    <3> QED  BY <1>1, <3>2 DEF p, q
  <2>4. b \in Int /\ b * SubSec = SubSec * lend - SubSec * back  BY <1>2, <1>3, Products
  <2>1. sec = a - b  BY <1>1, <1>2, <1>3, <1>5
  <2> HIDE DEF a, b
  <2>2. sec * SubSec = a * SubSec - b * SubSec  BY <2>1, <2>3, <2>4, Products
  <2>5. /\ x.sec * SubSec \in Int /\ y.sec * SubSec \in Int
        /\ SubSec * lend \in Int /\ SubSec * back \in Int
    BY <1>1, <1>2, <1>3, Products
  <2> QED  BY <2>2, <2>3, <2>4, <2>5
<1>9. sec * SubSec + nsec = Count(x) - Count(y)
  BY <1>1, <1>3, <1>4, <1>8 DEF Count
<1>10. Diff(x, y).time = t /\ Diff(x, y).negative = neg
  <2>1. neg \in BOOLEAN  OBVIOUS
  <2> HIDE DEF t, neg
  <2>2. Diff(x, y).time = t  BY <1>6
  <2>3. Diff(x, y).negative = neg  BY <1>6, <2>1
  <2> QED  BY <2>2, <2>3, Zenon
<1>11. Count(x) \in Int /\ Count(y) \in Int  BY <1>1, <1>8 DEF Count
<1>12. CASE sec < 0
  <2>1. t = [sec |-> -sec - 1, nsec |-> SubSec - nsec]  BY <1>12
  <2>2. (-sec - 1) * SubSec = -(sec * SubSec) - SubSec  BY <1>7, SubSecAssumption
  <2>3. Count(t) = -(sec * SubSec + nsec)
    BY <1>3, <1>8, <2>1, <2>2, SubSecAssumption DEF Count
  <2>4. Count(t) = Count(y) - Count(x)  BY <1>3, <1>8, <1>9, <1>11, <2>3
  <2>5. t \in TimeRecord /\ t.sec >= 0 /\ 0 <= t.nsec /\ t.nsec <= SubSec
    BY <1>3, <1>7, <1>12, <2>1, SubSecAssumption DEF TimeRecord
  <2> HIDE DEF t
  <2> QED  BY <1>12, <1>10, <2>4, <2>5
<1>13. CASE ~(sec < 0)
  <2>1. t = [sec |-> sec, nsec |-> nsec]  BY <1>13
  <2>2. Count(t) = sec * SubSec + nsec  BY <2>1 DEF Count
  <2>3. t \in TimeRecord /\ t.sec >= 0 /\ 0 <= t.nsec /\ t.nsec <= SubSec
    BY <1>3, <1>7, <1>13, <2>1 DEF TimeRecord
  <2> HIDE DEF t
  <2> QED  BY <1>9, <1>13, <1>10, <2>2, <2>3
<1> QED  BY <1>12, <1>13

\* operator-= gives the exact difference of any two times, normalised or not,
\* in a form that Told holds of.
THEOREM MinusExact ==
    \A x, y \in TimeRecord :
        /\ Minus(x, y) \in TimeRecord /\ Count(Minus(x, y)) = Count(x) - Count(y)
        /\ Told(Minus(x, y))
<1> DEFINE Good(m, c) == m \in TimeRecord /\ Count(m) = c /\ Told(m)
<1>1. ASSUME NEW x \in TimeRecord  PROVE Count(x) \in Int
  <2> DEFINE p == x.sec
             q == x.nsec
  <2>1. p \in Int /\ q \in Int  BY DEF TimeRecord
  <2>2. Count(x) = p * SubSec + q  BY DEF Count
  <2> HIDE DEF p, q
  <2> QED  BY <2>1, <2>2, SubSecAssumption
\* The signed difference, whichever of the two is the later.
<1>2. ASSUME NEW x \in TimeRecord, NEW y \in TimeRecord
      PROVE  /\ Diff(x, y).negative => /\ Good(Diff(x, y).time, Count(y) - Count(x))
                                       /\ Good(Negated(Diff(x, y).time), Count(x) - Count(y))
             /\ ~Diff(x, y).negative => /\ Good(Diff(x, y).time, Count(x) - Count(y))
                                        /\ Good(Negated(Diff(x, y).time), Count(y) - Count(x))
  <2> DEFINE t == Diff(x, y).time
  <2>1. /\ t \in TimeRecord /\ t.sec >= 0 /\ 0 <= t.nsec /\ t.nsec <= SubSec
        /\ Count(t) = IF Diff(x, y).negative THEN Count(y) - Count(x) ELSE Count(x) - Count(y)
    BY DiffExact
  <2> HIDE DEF t
  <2>2. t.sec \in Int /\ t.nsec \in Int  BY <2>1 DEF TimeRecord
  <2>3. Told(t)  BY <2>1, <2>2, SubSecAssumption DEF Told
  <2>4. Negated(t) \in TimeRecord /\ Count(Negated(t)) = -Count(t) /\ Told(Negated(t))
    BY <2>1, <2>3, NegatedExact
  <2>5. Count(x) \in Int /\ Count(y) \in Int  BY <1>1
  <2>6. CASE Diff(x, y).negative
    <3>1. Count(t) = Count(y) - Count(x)  BY <2>1, <2>6
    <3>2. Good(t, Count(y) - Count(x)) /\ Good(Negated(t), Count(x) - Count(y))
      BY <2>1, <2>3, <2>4, <2>5, <3>1
    <3> QED  BY <2>6, <3>2 DEF t
  <2>7. CASE ~Diff(x, y).negative
    <3>1. Count(t) = Count(x) - Count(y)  BY <2>1, <2>7
    <3>2. Good(t, Count(x) - Count(y)) /\ Good(Negated(t), Count(y) - Count(x))
      BY <2>1, <2>3, <2>4, <2>5, <3>1
    <3> QED  BY <2>7, <3>2 DEF t
  <2> QED  BY <2>6, <2>7
<1>3. SUFFICES ASSUME NEW x \in TimeRecord, NEW y \in TimeRecord
               PROVE  Good(Minus(x, y), Count(x) - Count(y))
  OBVIOUS
<1>4. /\ Count(x) \in Int /\ Count(y) \in Int
      /\ Negated(x) \in TimeRecord /\ Count(Negated(x)) = -Count(x)
      /\ Negated(y) \in TimeRecord /\ Count(Negated(y)) = -Count(y)
  BY <1>1, NegatedExact
<1>5. CASE Before(x, Zero) # Before(y, Zero)
  <2>1. Before(x, Zero) \in BOOLEAN /\ Before(y, Zero) \in BOOLEAN  BY DEF Before
  <2>2. Minus(x, y) = Plus(x, Negated(y))  BY <1>5, <2>1 DEF Minus
  <2>3. Good(Plus(x, Negated(y)), Count(x) + Count(Negated(y)))  BY <1>4, PlusExact
  <2>4. Count(x) + Count(Negated(y)) = Count(x) - Count(y)  BY <1>4
  <2> QED  BY <2>2, <2>3, <2>4
<1>6. CASE Before(x, Zero) /\ Before(y, Zero)
  <2> DEFINE d == Diff(Negated(x), Negated(y))
  <2>1. Minus(x, y) = IF d.negative THEN d.time ELSE Negated(d.time)  BY <1>6 DEF Minus
  <2>2. /\ d.negative => Good(d.time, Count(Negated(y)) - Count(Negated(x)))
        /\ ~d.negative => Good(Negated(d.time), Count(Negated(y)) - Count(Negated(x)))
    BY <1>2, <1>4
  <2>3. Count(Negated(y)) - Count(Negated(x)) = Count(x) - Count(y)  BY <1>4
  <2> HIDE DEF d
  <2> QED  BY <2>1, <2>2, <2>3
<1>7. CASE Before(x, Zero) = Before(y, Zero) /\ ~(Before(x, Zero) /\ Before(y, Zero))
  <2> DEFINE d == Diff(x, y)
  <2>1. Minus(x, y) = IF d.negative THEN Negated(d.time) ELSE d.time  BY <1>7 DEF Minus
  <2>2. /\ d.negative => Good(Negated(d.time), Count(x) - Count(y))
        /\ ~d.negative => Good(d.time, Count(x) - Count(y))
    BY <1>2
  <2> HIDE DEF d
  <2> QED  BY <2>1, <2>2
<1> QED  BY <1>5, <1>6, <1>7

-----------------------------------------------------------------------------

\* The register starts at zero, and every operation does to the time what it
\* does to the integer.
LEMMA InitExact == TimeInit => TimeIInv
  BY SubSecAssumption DEF TimeInit, TimeIInv, Zero, TimeRecord, Count, Told

LEMMA StepExact == TimeIInv /\ [TimeNext]_timeVars => TimeIInv'
<1> SUFFICES ASSUME TimeIInv, [TimeNext]_timeVars  PROVE TimeIInv'
  OBVIOUS
<1> USE DEF TimeIInv
<1>1. ASSUME NEW a \in Amounts  PROVE a \in Int /\ OfCount(a) \in TimeRecord /\ Count(OfCount(a)) = a
  BY AmountsAssumption, OfCountExact
<1>2. ASSUME NEW a \in Amounts, Add(a)  PROVE TimeIInv'
  <2>1. time' \in TimeRecord /\ Count(time') = Count(time) + Count(OfCount(a)) /\ Told(time')
    BY <1>1, <1>2, PlusExact DEF Add
  <2>2. exact' = exact + a /\ exact' \in Int  BY <1>1, <1>2 DEF Add
  <2>3. Count(time') = exact'  BY <1>1, <2>1, <2>2
  <2> QED  BY <2>1, <2>2, <2>3 DEF Count, Told
<1>3. ASSUME NEW a \in Amounts, Subtract(a)  PROVE TimeIInv'
  <2>1. time' \in TimeRecord /\ Count(time') = Count(time) - Count(OfCount(a)) /\ Told(time')
    BY <1>1, <1>3, MinusExact DEF Subtract
  <2>2. exact' = exact - a /\ exact' \in Int  BY <1>1, <1>3 DEF Subtract
  <2>3. Count(time') = exact'  BY <1>1, <2>1, <2>2
  <2> QED  BY <2>1, <2>2, <2>3 DEF Count, Told
<1>4. ASSUME NEW a \in Amounts, Assign(a)  PROVE TimeIInv'
  <2>1. time' \in TimeRecord /\ Count(time') = a /\ Told(time')
    BY <1>1, <1>4, OfCountExact DEF Assign
  <2>2. exact' = a /\ exact' \in Int  BY <1>1, <1>4 DEF Assign
  <2> QED  BY <2>1, <2>2 DEF Count, Told
<1>5. ASSUME Negate  PROVE TimeIInv'
  <2>1. time' \in TimeRecord /\ Count(time') = -Count(time) /\ Told(time')
    BY <1>5, NegatedExact DEF Negate
  <2>2. exact' = -exact /\ exact' \in Int  BY <1>5 DEF Negate
  <2> QED  BY <2>1, <2>2 DEF Count, Told
<1>6. CASE UNCHANGED timeVars
  BY <1>6 DEF timeVars, Count, Told
<1> QED  BY <1>2, <1>3, <1>4, <1>5, <1>6 DEF TimeNext

\* The inductive invariant of the register.
THEOREM RegisterInvariant == TimeSpec => []TimeIInv
<1> QED  BY InitExact, StepExact, PTL DEF TimeSpec

\* Whatever signs meet in sums, differences and negations of timesec.h, the
\* time is the number of sub-seconds it stands for, and its comparison with
\* zero tells the sign, for every number of sub-seconds in a second.
THEOREM TimeInvHolds == TimeSpec => []TimeInv
<1>1. TimeIInv => TimeInv
  <2> SUFFICES ASSUME TimeIInv  PROVE TimeInv
    OBVIOUS
  <2>1. time \in TimeRecord /\ Told(time) /\ Count(time) = exact  BY DEF TimeIInv
  <2>2. (Before(time, Zero) <=> exact < 0) /\ (Before(Zero, time) <=> exact > 0)
    BY <2>1, ToldCompares
  <2> QED  BY <2>1, <2>2 DEF TimeInv, TimeExact, SignTold
<1> QED  BY <1>1, RegisterInvariant, PTL

-----------------------------------------------------------------------------

(***************************************************************************)
(* StreamDriver: a stream that has stopped is not asked for detection, and *)
(* indicating packets alone does not make a stream valid.                  *)
(***************************************************************************)

DriverIInv == ObjectInv(direct.rtp) /\ ObjectInv(indirect) /\ DirectFollowsInterface

LEMMA IndicateOnly ==
    ASSUME NEW s, ObjectInv(s), ~s.valid, NEW p \in Packet \cup {NotRtp}
    PROVE  ~AfterIndicate(s, p).valid
<1>1. CASE IsNoise(s, p)
    BY <1>1 DEF AfterIndicate, AfterNoise
<1>2. CASE ~IsNoise(s, p) /\ IsDuplicate(s, p)
    BY <1>2 DEF AfterIndicate
<1>3. CASE ~IsNoise(s, p) /\ ~IsDuplicate(s, p)
    <2>1. p \in Packet
        BY <1>3 DEF IsNoise
    <2>2. Accepted(s, p).valid = s.valid
        BY <2>1, AcceptedFields
    <2>3. QED BY <1>3, <2>2 DEF AfterIndicate
<1>4. QED BY <1>1, <1>2, <1>3

LEMMA ThroughInv ==
    ASSUME NEW s, ObjectInv(s), NEW p \in Packet \cup {NotRtp}
    PROVE  ObjectInv(ThroughInterface(s, p)) /\ ObjectInv(AfterIndicate(s, p))
<1>1. ObjectInv(AfterIndicate(s, p))
    BY IndicateInv
<1>2. ObjectInv(AfterDetect(AfterIndicate(s, p)))
    BY <1>1, DetectInv
<1>3. QED BY <1>1, <1>2 DEF ThroughInterface

LEMMA DriverStarts == ASSUME DriverInit PROVE DriverIInv
<1>1. PICK n \in DetectSizes : direct = NewDirection(n) /\ indirect = NewStream(n)
    BY DEF DriverInit
<1>2. ObjectInv(indirect) /\ ~indirect.valid
    BY <1>1, NewStreamInv DEF NewStream
<1>3. direct.rtp = indirect /\ direct.strm = FALSE /\ stopped = FALSE
    BY <1>1 DEF NewDirection, DriverInit
<1>4. QED BY <1>2, <1>3 DEF DriverIInv, DirectFollowsInterface

LEMMA TaskKeeps ==
    ASSUME DriverIInv, NEW p \in RtpPackets \cup {NotRtp}, RunTask(p)
    PROVE  DriverIInv'
<1> DEFINE s == direct.rtp
           t == AfterIndicate(s, p)
           u == ThroughInterface(s, p)
           v == IF direct.strm THEN t ELSE u
           strm == direct.strm \/ (~s.valid /\ v.valid)
<1>1. p \in Packet \cup {NotRtp} /\ ObjectInv(s) /\ ObjectInv(indirect)
    BY RtcpAssumption DEF DriverIInv
<1>2. ObjectInv(t) /\ ObjectInv(u) /\ ObjectInv(indirect')
    BY <1>1, ThroughInv DEF RunTask
<1>3. direct' = [rtp |-> v, strm |-> strm,
                 res |-> IF strm /\ v.valid THEN <<v.received, Span(v)>> ELSE direct.res]
    BY DEF RunTask, AfterTask
<1>4. direct'.rtp = v /\ direct'.strm = strm
      /\ (strm /\ v.valid => direct'.res = <<v.received, Span(v)>>)
    BY <1>3
<1>5. ~s.valid => ~t.valid
    BY <1>1, IndicateOnly
<1>6. t.valid => u = t
    BY DEF ThroughInterface
<1>7. indirect' = ThroughInterface(indirect, p) /\ stopped' = (stopped \/ (s.valid /\ ~v.valid))
    BY <1>4 DEF RunTask
<1>8. /\ ~stopped => s = indirect /\ (direct.strm <=> s.valid)
      /\ stopped => direct.strm /\ ~s.valid
    BY DEF DriverIInv, DirectFollowsInterface
<1> HIDE DEF s, t, u
<1>9. v.valid => strm
    BY <1>5, <1>8
<1>10. CASE stopped
    <2>1. direct'.strm /\ ~direct'.rtp.valid /\ stopped'
        BY <1>4, <1>5, <1>7, <1>8, <1>10
    <2>2. QED BY <1>2, <1>4, <2>1 DEF DriverIInv, DirectFollowsInterface
<1>11. CASE ~stopped /\ s.valid /\ ~v.valid
    <2>1. direct'.strm /\ ~direct'.rtp.valid /\ stopped'
        BY <1>4, <1>7, <1>8, <1>11
    <2>2. QED BY <1>2, <1>4, <2>1 DEF DriverIInv, DirectFollowsInterface
<1>12. CASE ~stopped /\ ~(s.valid /\ ~v.valid)
    <2>1. ~stopped' /\ indirect' = u
        BY <1>7, <1>8, <1>12 DEF u
    <2>2. v = u
        BY <1>6, <1>8, <1>12
    <2>3. direct'.strm <=> direct'.rtp.valid
        BY <1>4, <1>8, <1>12
    <2>4. QED BY <1>2, <1>4, <1>9, <2>1, <2>2, <2>3 DEF DriverIInv, DirectFollowsInterface
<1>13. QED BY <1>10, <1>11, <1>12

\* DriverIInv: both streams are sound, and the driver's is that of the interface
\* until it stops.
THEOREM DriverInvariant == DriverSpec => []DriverIInv
<1>1. DriverIInv /\ [DriverNext]_driverVars => DriverIInv'
    <2> SUFFICES ASSUME DriverIInv, [DriverNext]_driverVars PROVE DriverIInv'
        OBVIOUS
    <2>1. CASE UNCHANGED driverVars
        BY <2>1 DEF driverVars, DriverIInv, DirectFollowsInterface
    <2>2. QED BY <2>1, TaskKeeps DEF DriverNext
<1>2. QED BY <1>1, DriverStarts, PTL DEF DriverSpec

\* DirectFollowsInterface: going around the interface changes nothing until the
\* stream stops, and a stream that stopped is never found again, for every
\* window size and every order of packets.
THEOREM DirectFollowsInterfaceHolds == DriverSpec => []DirectFollowsInterface
<1>1. DriverIInv => DirectFollowsInterface
    BY DEF DriverIInv
<1>2. QED BY <1>1, DriverInvariant, PTL

-----------------------------------------------------------------------------

(***************************************************************************)
(* RtcpStream: what is kept of RTCP reports, and the delay.                *)
(***************************************************************************)

KeptBlock == [ssrc: Nat \ {0}, dlxr: Nat]

RtcpPacket == [ssrc: Nat, sender: Nat, blocks: Seq(KeptBlock) \ {<<>>}, capTime: TimeRecord]

RtcpIInv ==
    /\ ObjectInv(rtp)
    /\ rtcp \in [packets: Seq(RtcpPacket), delay: [sec: Nat, nsec: 0..SubSec]]
    /\ Len(rtcp.packets) <= MaxRtcp
    /\ exactDelay \in Nat /\ Count(rtcp.delay) = exactDelay

\* The blocks taken up to each of the first N.
TakesUpTo(f, r, N) ==
    f = [n \in 0..N |-> IF n = 0 THEN <<>>
                        ELSE IF r.blocks[n].ssrc > 0 THEN Append(f[n - 1], r.blocks[n])
                        ELSE f[n - 1]]

LEMMA TakingWorks ==
    ASSUME NEW r, NEW N \in Nat
    PROVE  \E f : TakesUpTo(f, r, N)
<1> DEFINE Bad == {k \in Nat : ~\E f : TakesUpTo(f, r, k)}
<1>1. SUFFICES ASSUME Bad # {} PROVE FALSE
    OBVIOUS
<1>2. PICK m \in Bad : \A k \in Bad : m <= k
    <2>1. Bad \subseteq Nat
        OBVIOUS
    <2> HIDE DEF Bad
    <2>2. QED BY <1>1, <2>1, LeastNatural
<1>3. m # 0
    <2>1. TakesUpTo([n \in 0..0 |-> <<>>], r, 0)
        BY DEF TakesUpTo
    <2>2. QED BY <2>1
<1>4. m - 1 \in Nat /\ m - 1 \notin Bad
    BY <1>2, <1>3
<1>5. PICK f : TakesUpTo(f, r, m - 1)
    BY <1>4
<1> DEFINE last == IF r.blocks[m].ssrc > 0 THEN Append(f[m - 1], r.blocks[m]) ELSE f[m - 1]
           g == [n \in 0..m |-> IF n = m THEN last ELSE f[n]]
<1>6. TakesUpTo(g, r, m)
    <2>1. /\ 0 \in 0..(m - 1) /\ 0 # m
          /\ \A n \in 0..m : n # m => n \in 0..(m - 1)
          /\ \A n \in 0..m : n # 0 => n - 1 \in 0..m /\ n - 1 # m
        BY <1>3
    <2>2. \A n \in 0..(m - 1) :
              f[n] = IF n = 0 THEN <<>>
                     ELSE IF r.blocks[n].ssrc > 0 THEN Append(f[n - 1], r.blocks[n]) ELSE f[n - 1]
        BY <1>5 DEF TakesUpTo
    <2>3. \A n \in 0..m :
              g[n] = IF n = 0 THEN <<>>
                     ELSE IF r.blocks[n].ssrc > 0 THEN Append(g[n - 1], r.blocks[n]) ELSE g[n - 1]
        <3> TAKE n \in 0..m
        <3>1. CASE n = 0
            BY <3>1, <2>1, <2>2
        <3>2. CASE n # 0
            <4>1. g[n - 1] = f[n - 1]
                BY <3>2, <2>1
            <4>2. QED BY <3>2, <4>1, <2>1, <2>2
        <3>3. QED BY <3>1, <3>2
    <2>4. QED BY <2>3 DEF TakesUpTo
<1>7. QED BY <1>2, <1>6

\* Only blocks about some source are kept.
LEMMA BlocksKept ==
    ASSUME NEW r \in Reports
    PROVE  Blocks(r) \in Seq(KeptBlock)
<1> DEFINE N == Len(r.blocks)
           taken[n \in 0..Len(r.blocks)] ==
               IF n = 0 THEN <<>>
               ELSE IF r.blocks[n].ssrc > 0 THEN Append(taken[n - 1], r.blocks[n]) ELSE taken[n - 1]
<1>1. r.blocks \in Seq(ReportBlock) /\ N \in Nat
    BY RtcpAssumption, LenProperties
<1>2. Blocks(r) = taken[N]
    BY DEF Blocks
<1>3. taken = CHOOSE g : g = [n \in 0..N |-> IF n = 0 THEN <<>>
                                 ELSE IF r.blocks[n].ssrc > 0 THEN Append(g[n - 1], r.blocks[n])
                                 ELSE g[n - 1]]
    BY DEF taken
<1> HIDE DEF taken
<1>4. TakesUpTo(taken, r, N)
    <2>1. PICK f : TakesUpTo(f, r, N)
        BY <1>1, TakingWorks
    <2>2. f = [n \in 0..N |-> IF n = 0 THEN <<>>
                              ELSE IF r.blocks[n].ssrc > 0 THEN Append(f[n - 1], r.blocks[n])
                              ELSE f[n - 1]]
        BY <2>1 DEF TakesUpTo
    <2>3. taken = [n \in 0..N |-> IF n = 0 THEN <<>>
                                  ELSE IF r.blocks[n].ssrc > 0 THEN Append(taken[n - 1], r.blocks[n])
                                  ELSE taken[n - 1]]
        BY <1>3, <2>2
    <2>4. QED BY <2>3 DEF TakesUpTo
<1> DEFINE Bad == {n \in 0..N : taken[n] \notin Seq(KeptBlock)}
<1>5. Bad = {}
    <2>1. SUFFICES ASSUME Bad # {} PROVE FALSE
        OBVIOUS
    <2>2. PICK m \in Bad : \A k \in Bad : m <= k
        <3>1. Bad \subseteq Nat
            BY <1>1
        <3> HIDE DEF Bad
        <3>2. QED BY <2>1, <3>1, LeastNatural
    <2>3. m # 0
        BY <1>1, <1>4 DEF TakesUpTo
    <2>4. m \in 0..N /\ m - 1 \in 0..N /\ m - 1 \notin Bad
        BY <2>2, <2>3, <1>1
    <2>5. taken[m - 1] \in Seq(KeptBlock)
        BY <2>4
    <2>6. taken[m] = IF r.blocks[m].ssrc > 0 THEN Append(taken[m - 1], r.blocks[m]) ELSE taken[m - 1]
        BY <2>3, <2>4, <1>4 DEF TakesUpTo
    <2>7. r.blocks[m] \in ReportBlock
        BY <2>3, <2>4, <1>1, ElementOfSeq
    <2>8. r.blocks[m].ssrc > 0 => r.blocks[m] \in KeptBlock
        BY <2>7 DEF ReportBlock, KeptBlock
    <2>9. taken[m] \in Seq(KeptBlock)
        BY <2>5, <2>6, <2>8, AppendProperties
    <2>10. QED BY <2>2, <2>9
<1>6. QED BY <1>1, <1>2, <1>5

\* A parsed report that is kept has a first block.
LEMMA ParsedTypes ==
    ASSUME NEW r \in Reports
    PROVE  /\ Parsed(r).ssrc \in Nat /\ Parsed(r).sender \in Nat
           /\ Parsed(r).blocks \in Seq(KeptBlock)
<1>1. r.ssrc \in Nat /\ r.sender \in Nat /\ Blocks(r) \in Seq(KeptBlock) /\ <<>> \in Seq(KeptBlock)
    BY RtcpAssumption, BlocksKept, EmptySeq
<1>2. CASE r.type = "SR" /\ r.fits
    BY <1>1, <1>2 DEF Parsed
<1>3. CASE r.type = "RR"
    BY <1>1, <1>3 DEF Parsed
<1>4. CASE ~(r.type = "SR" /\ r.fits) /\ r.type # "RR"
    BY <1>1, <1>4 DEF Parsed
<1>5. QED BY <1>2, <1>3, <1>4

LEMMA FirstBlock ==
    ASSUME NEW bs \in Seq(KeptBlock), bs # <<>>
    PROVE  bs[1] \in KeptBlock
<1>1. Len(bs) \in Nat /\ 1 \in 1..Len(bs)
    BY EmptySeq, LenProperties
<1>2. QED BY <1>1, ElementOfSeq

-----------------------------------------------------------------------------

LEMMA CountType ==
    ASSUME NEW x \in TimeRecord
    PROVE  Count(x) \in Int
<1>1. x.sec \in Int /\ x.nsec \in Int
    BY DEF TimeRecord
<1>2. x.sec * SubSec \in Int
    BY <1>1, Products
<1>3. QED BY <1>1, <1>2 DEF Count

\* A positive time is subtracted from any; what is not negative then has no
\* negative part.
LEMMA DelayParts ==
    ASSUME NEW x \in TimeRecord, Told(x), NEW y \in TimeRecord, Told(y), y.sec >= 0, y.nsec >= 0,
           ~Before(Minus(x, y), Zero)
    PROVE  Minus(x, y) \in [sec: Nat, nsec: 0..SubSec]
<1> DEFINE d == Diff(x, y).time
<1>1. ~Before(y, Zero)
    BY DEF Before, Zero, TimeRecord
<1>2. CASE Before(x, Zero)
    <2>1. Count(x) < 0 /\ Count(y) >= 0
        <3>1. Count(x) \in Int /\ Count(y) \in Int
            BY CountType
        <3>2. Before(x, Zero) <=> Count(x) < 0
            BY ToldCompares
        <3>3. Before(y, Zero) <=> Count(y) < 0
            BY ToldCompares
        <3>4. QED BY <1>1, <1>2, <3>1, <3>2, <3>3
    <2>2. Count(Minus(x, y)) = Count(x) - Count(y) /\ Told(Minus(x, y)) /\ Minus(x, y) \in TimeRecord
        BY MinusExact
    <2>3. Count(x) \in Int /\ Count(y) \in Int
        BY CountType
    <2>4. Count(Minus(x, y)) < 0
        BY <2>1, <2>2, <2>3
    <2>5. QED BY <2>2, <2>4, ToldCompares
<1>3. CASE ~Before(x, Zero)
    <2>1. /\ d \in TimeRecord /\ d.sec >= 0 /\ 0 <= d.nsec /\ d.nsec <= SubSec
        BY DiffExact
    <2>2. Minus(x, y) = IF Diff(x, y).negative THEN Negated(d) ELSE d
        <3>1. ~(Before(x, Zero) # Before(y, Zero)) /\ ~(Before(x, Zero) /\ Before(y, Zero))
            BY <1>1, <1>3 DEF Before
        <3>2. QED BY <3>1 DEF Minus
    <2>3. d \in [sec: Nat, nsec: 0..SubSec]
        BY <2>1, SubSecAssumption DEF TimeRecord
    <2>4. CASE Diff(x, y).negative
        <3>1. Minus(x, y) = [sec |-> -d.sec, nsec |-> -d.nsec]
            BY <2>2, <2>4 DEF Negated
        <3>2. d.sec = 0 /\ d.nsec = 0
            BY <3>1, <2>1 DEF Before, Zero, TimeRecord
        <3>3. QED BY <3>1, <3>2, SubSecAssumption
    <2>5. QED BY <2>2, <2>3, <2>4
<1>4. QED BY <1>2, <1>3

\* calcRtcpDelay in integers.
LEMMA DelayOfReports ==
    ASSUME NEW curr \in RtcpPacket, NEW prev \in RtcpPacket
    PROVE  /\ RtcpDelay(curr, prev) \in [sec: Nat, nsec: 0..SubSec]
           /\ Count(RtcpDelay(curr, prev)) =
                  MaxOf(0, Count(curr.capTime) - Count(prev.capTime)
                               - (curr.blocks[1].dlxr * SubSec) \div DelayUnit)
<1> DEFINE x == Minus(curr.capTime, prev.capTime)
           n == (curr.blocks[1].dlxr * SubSec) \div DelayUnit
           y == OfCount(n)
           d == Minus(x, y)
<1>1. curr.capTime \in TimeRecord /\ prev.capTime \in TimeRecord /\ curr.blocks[1].dlxr \in Nat
    BY FirstBlock DEF RtcpPacket, KeptBlock
<1>2. n \in Nat
    <2>1. PICK m \in Nat : m = curr.blocks[1].dlxr * SubSec
        BY <1>1, SubSecAssumption
    <2>2. m \div DelayUnit \in Nat
        BY RtcpAssumption
    <2>3. QED BY <2>1, <2>2
<1>3. /\ x \in TimeRecord /\ Told(x)
      /\ Count(x) = Count(curr.capTime) - Count(prev.capTime)
    BY <1>1, MinusExact
<1> HIDE DEF n
<1>4. y \in TimeRecord /\ Told(y) /\ Count(y) = n
    BY <1>2, OfCountExact
<1>5. y.sec >= 0 /\ y.nsec >= 0
    <2>1. n \div SubSec \in Nat /\ SubSec * (n \div SubSec) <= n
        BY <1>2, Division
    <2>2. y.sec = n \div SubSec /\ y.nsec = n - SubSec * (n \div SubSec)
        BY <1>2 DEF OfCount, Quotient, Remainder
    <2>3. PICK q \in Nat : q = n \div SubSec
        BY <2>1
    <2>4. SubSec * q \in Int /\ n - SubSec * q >= 0
        BY <2>1, <2>3, <1>2, SubSecAssumption
    <2>5. QED BY <2>2, <2>3, <2>4
<1>6. /\ d \in TimeRecord /\ Told(d) /\ Count(d) = Count(x) - Count(y)
    BY <1>3, <1>4, MinusExact
<1>7. ~Before(d, Zero) => d \in [sec: Nat, nsec: 0..SubSec]
    BY <1>3, <1>4, <1>5, DelayParts
<1>8. Before(d, Zero) <=> Count(d) < 0
    BY <1>6, ToldCompares
<1>9. RtcpDelay(curr, prev) = IF Before(d, Zero) THEN Zero ELSE d
    BY DEF RtcpDelay, DelaySinceReport, n
<1>10. Count(Zero) = 0 /\ Zero \in [sec: Nat, nsec: 0..SubSec]
    BY SubSecAssumption DEF Count, Zero
<1>11. Count(x) \in Int /\ Count(d) \in Int
    BY <1>3, <1>6, CountType
<1>12. Count(RtcpDelay(curr, prev)) = MaxOf(0, Count(d))
    BY <1>8, <1>9, <1>10, <1>11 DEF MaxOf
<1>13. QED BY <1>3, <1>4, <1>6, <1>7, <1>9, <1>10, <1>12 DEF n

LEMMA RtcpStarts == ASSUME RtcpInit PROVE RtcpIInv
<1>1. ObjectInv(rtp)
    BY NewStreamInv DEF RtcpInit
<1>2. rtcp = [packets |-> <<>>, delay |-> [sec |-> 0, nsec |-> 0]] /\ exactDelay = 0
    BY DEF RtcpInit, NewRtcp, Zero
<1>3. <<>> \in Seq(RtcpPacket) /\ Len(<<>>) = 0
    BY EmptySeq
<1>4. QED BY <1>1, <1>2, <1>3, RtcpAssumption, SubSecAssumption DEF RtcpIInv, Count

\* An accepted report as it is kept.
LEMMA KeptReport ==
    ASSUME RtcpIInv, NEW r \in Reports, NEW t \in CaptureTimes, Stores(r)
    PROVE  [ssrc |-> Parsed(r).ssrc, sender |-> Parsed(r).sender, blocks |-> Parsed(r).blocks,
            capTime |-> OfCount(t)] \in RtcpPacket
<1>1. /\ Parsed(r).ssrc \in Nat /\ Parsed(r).sender \in Nat
      /\ Parsed(r).blocks \in Seq(KeptBlock)
    BY ParsedTypes
<1>2. Parsed(r).blocks # <<>>
    BY DEF Stores
<1>3. OfCount(t) \in TimeRecord
    BY RtcpAssumption, OfCountExact
<1>4. QED BY <1>1, <1>2, <1>3 DEF RtcpPacket

LEMMA LastReport ==
    ASSUME RtcpIInv, rtcp.packets # <<>>
    PROVE  Back(rtcp.packets) \in RtcpPacket
<1>1. rtcp.packets \in Seq(RtcpPacket)
    BY DEF RtcpIInv
<1>2. Len(rtcp.packets) \in 1..Len(rtcp.packets)
    BY <1>1, EmptySeq, LenProperties
<1>3. QED BY <1>1, <1>2, ElementOfSeq DEF Back

LEMMA ReportKeeps ==
    ASSUME RtcpIInv, NEW r \in Reports, NEW t \in CaptureTimes, IndicateRtcpPacket(r, t)
    PROVE  RtcpIInv'
<1> DEFINE curr == [ssrc |-> Parsed(r).ssrc, sender |-> Parsed(r).sender, blocks |-> Parsed(r).blocks,
                    capTime |-> OfCount(t)]
           prev == Back(rtcp.packets)
           pushed == PushBack(rtcp.packets, curr, MaxRtcp)
<1>1. curr \in RtcpPacket
    BY KeptReport DEF IndicateRtcpPacket
<1>2. curr.capTime = OfCount(t) /\ Count(OfCount(t)) = t
    BY RtcpAssumption, OfCountExact
<1>3. /\ ObjectInv(rtp) /\ rtcp.packets \in Seq(RtcpPacket) /\ Len(rtcp.packets) <= MaxRtcp
      /\ rtcp.delay \in [sec: Nat, nsec: 0..SubSec]
      /\ exactDelay \in Nat /\ Count(rtcp.delay) = exactDelay
    BY DEF RtcpIInv
<1> DEFINE delay == IF Measures(curr) THEN RtcpDelay(curr, prev) ELSE rtcp.delay
           ticks == IF Measures(curr)
                    THEN MaxOf(0, t - Count(prev.capTime) - (curr.blocks[1].dlxr * SubSec) \div DelayUnit)
                    ELSE exactDelay
<1>4. rtcp' = [packets |-> pushed, delay |-> delay] /\ exactDelay' = ticks /\ rtp' = rtp
    BY DEF IndicateRtcpPacket
<1> HIDE DEF curr
<1>5. pushed \in Seq(RtcpPacket) /\ Len(pushed) <= MaxRtcp
    <2>1. MaxRtcp \in Nat \ {0}
        BY RtcpAssumption
    <2>2. /\ pushed \in Seq(RtcpPacket)
          /\ Len(pushed) = IF Len(rtcp.packets) < MaxRtcp THEN Len(rtcp.packets) + 1 ELSE MaxRtcp
        BY <1>1, <1>3, <2>1, PushBackIntoQueue
    <2>3. Len(rtcp.packets) \in Nat
        BY <1>3, LenProperties
    <2>4. QED BY <2>1, <2>2, <2>3
<1>6. delay \in [sec: Nat, nsec: 0..SubSec] /\ Count(delay) = ticks /\ ticks \in Nat
    <2>1. CASE Measures(curr)
        <3>1. prev \in RtcpPacket
            BY <2>1, LastReport DEF Measures
        <3>2. /\ delay \in [sec: Nat, nsec: 0..SubSec]
              /\ Count(delay) = ticks
            BY <1>1, <1>2, <2>1, <3>1, DelayOfReports
        <3>3. Count(delay) \in Nat
            <4>1. delay.sec \in Nat /\ delay.nsec \in Nat
                BY <3>2
            <4>2. PICK s \in Nat : s = delay.sec
                BY <4>1
            <4>3. s * SubSec \in Nat
                BY SubSecAssumption
            <4>4. QED BY <4>1, <4>2, <4>3 DEF Count
        <3>4. QED BY <3>2, <3>3
    <2>2. CASE ~Measures(curr)
        BY <2>2, <1>3
    <2>3. QED BY <2>1, <2>2
<1>7. QED BY <1>3, <1>4, <1>5, <1>6 DEF RtcpIInv

LEMMA RtcpKeeps == ASSUME RtcpIInv, [RtcpNext]_rtcpVars PROVE RtcpIInv'
<1>1. ASSUME NEW r \in Reports, NEW t \in CaptureTimes, IndicateRtcpPacket(r, t) PROVE RtcpIInv'
    BY <1>1, ReportKeeps
<1>2. ASSUME NEW p \in RtpPackets \cup {NotRtp}, IndicateRtp(p) PROVE RtcpIInv'
    <2> DEFINE s == AfterIndicate(rtp, p)
    <2>1. ObjectInv(s)
        BY RtcpAssumption, IndicateInv DEF RtcpIInv
    <2>2. ObjectInv(AfterDetect(s))
        BY <2>1, DetectInv
    <2>3. rtp' = AfterDetect(s) \/ rtp' = s
        BY <1>2 DEF IndicateRtp
    <2>4. ObjectInv(rtp') /\ UNCHANGED <<rtcp, exactDelay>>
        BY <1>2, <2>1, <2>2, <2>3 DEF IndicateRtp
    <2>5. QED BY <2>4 DEF RtcpIInv
<1>3. CASE ResetRtcp
    <2>1. rtp.nlast \in DetectSizes
        BY DEF RtcpIInv, ObjectInv, Stream
    <2>2. ObjectInv(rtp')
        BY <1>3, <2>1, NewStreamInv DEF ResetRtcp
    <2>3. rtcp' = [packets |-> <<>>, delay |-> [sec |-> 0, nsec |-> 0]] /\ exactDelay' = 0
        BY <1>3 DEF ResetRtcp, NewRtcp, Zero
    <2>4. <<>> \in Seq(RtcpPacket) /\ Len(<<>>) = 0
        BY EmptySeq
    <2>5. QED BY <2>2, <2>3, <2>4, RtcpAssumption, SubSecAssumption DEF RtcpIInv, Count
<1>4. CASE UNCHANGED rtcpVars
    BY <1>4 DEF rtcpVars, RtcpIInv
<1>5. QED BY <1>1, <1>2, <1>3, <1>4 DEF RtcpNext

\* RtcpIInv: IndicateRtcpPacket keeps at most the bounded number of reports, each
\* with a list of blocks about a source, and a delay with non-negative parts.
THEOREM RtcpInvariant == RtcpSpec => []RtcpIInv
<1>1. QED BY RtcpStarts, RtcpKeeps, PTL DEF RtcpSpec

\* RtcpInv: every report that is kept has a block to read, and the delay is the
\* exact difference of capture times less the delay at the receiver.
THEOREM RtcpInvHolds == RtcpSpec => []RtcpInv
<1>1. RtcpIInv => RtcpInv
    <2> SUFFICES ASSUME RtcpIInv PROVE RtcpInv
        OBVIOUS
    <2>1. RtcpTypeOK
        BY DEF RtcpIInv, RtcpTypeOK, ObjectInv
    <2>2. BlocksPresent
        <3>1. SUFFICES ASSUME NEW n \in 1..Len(rtcp.packets)
                       PROVE  rtcp.packets[n].blocks # <<>> /\ rtcp.packets[n].blocks[1].ssrc > 0
            BY DEF BlocksPresent
        <3>2. rtcp.packets[n] \in RtcpPacket
            BY ElementOfSeq DEF RtcpIInv
        <3>3. rtcp.packets[n].blocks \in Seq(KeptBlock) /\ rtcp.packets[n].blocks # <<>>
            BY <3>2 DEF RtcpPacket
        <3>4. rtcp.packets[n].blocks[1] \in KeptBlock
            BY <3>3, FirstBlock
        <3>5. QED BY <3>3, <3>4 DEF KeptBlock
    <2>3. DelayExact
        BY DEF RtcpIInv, DelayExact
    <2>4. QED BY <2>1, <2>2, <2>3 DEF RtcpInv
<1>2. QED BY <1>1, RtcpInvariant, PTL

\* The newest report about a stream.
LEMMA NewestReport ==
    ASSUME NEW s, NEW q, Len(q) \in Nat, NEW n \in 1..Len(q), q[n].blocks[1].ssrc = s.ssrc
    PROVE  /\ OwnReport(s, q) \in n..Len(q)
           /\ q[OwnReport(s, q)].blocks[1].ssrc = s.ssrc
<1> DEFINE own == {m \in 1..Len(q) : q[m].blocks[1].ssrc = s.ssrc}
           T == {Len(q) - m : m \in own}
<1>1. n \in own
    OBVIOUS
<1>2. PICK k \in T : \A j \in T : k <= j
    <2>1. T \subseteq Nat /\ T # {}
        BY <1>1
    <2> HIDE DEF T
    <2>2. QED BY <2>1, LeastNatural
<1>3. PICK m \in own : k = Len(q) - m
    BY <1>2
<1>4. \A j \in own : j <= m
    <2> TAKE j \in own
    <2>1. Len(q) - j \in T /\ j \in Int /\ m \in Int
        OBVIOUS
    <2>2. Len(q) - m <= Len(q) - j
        BY <2>1, <1>2, <1>3
    <2>3. QED BY <2>1, <2>2
<1>5. OwnReport(s, q) = CHOOSE x \in own : \A y \in own : y <= x
    BY <1>1 DEF OwnReport
<1> HIDE DEF own, T
<1>6. OwnReport(s, q) \in own /\ n <= OwnReport(s, q)
    BY <1>1, <1>3, <1>4, <1>5
<1> USE DEF own
<1>7. QED BY <1>6

\* LossRateStays: what a stream knows of its loss from RTCP it forgets only by
\* reset, or when newer packets push the report out of a full queue.
THEOREM LossRateStaysHolds == RtcpSpec => LossRateStays
<1> DEFINE Stays == (LossFromRtcp /\ rtp.ssrc = rtp'.ssrc /\ ~LossFromRtcp')
                        => (rtcp' = NewRtcp \/ NextToLeave)
<1>1. ASSUME RtcpIInv, [RtcpNext]_rtcpVars PROVE Stays \/ UNCHANGED rtcpVars
    <2> SUFFICES ASSUME LossFromRtcp, rtp.ssrc = rtp'.ssrc, ~LossFromRtcp',
                        ~UNCHANGED rtcpVars, rtcp' # NewRtcp, ~NextToLeave
                 PROVE  FALSE
        OBVIOUS
    <2> DEFINE q == rtcp.packets
               n == OwnReport(rtp, q)
    <2>1. q \in Seq(RtcpPacket) /\ Len(q) \in Nat /\ Len(q) <= MaxRtcp
        BY <1>1, LenProperties DEF RtcpIInv
    <2>2. n \in 1..Len(q) /\ (n = 1 => Len(q) < MaxRtcp) /\ q[n].blocks[1].ssrc = rtp.ssrc
        <3>1. n # 0
            BY DEF LossFromRtcp
        <3>2. PICK m \in 1..Len(q) : q[m].blocks[1].ssrc = rtp.ssrc
            BY <3>1 DEF OwnReport
        <3>3. n \in m..Len(q) /\ q[n].blocks[1].ssrc = rtp.ssrc
            BY <3>2, <2>1, NewestReport
        <3>4. n = 1 => Len(q) < MaxRtcp
            BY <2>1, RtcpAssumption DEF NextToLeave
        <3>5. QED BY <3>3, <3>4, <2>1
    <2> HIDE DEF n
    <2>3. OwnReport(rtp', rtcp'.packets) = 0
        BY DEF LossFromRtcp
    <2>4. ASSUME NEW r \in Reports, NEW t \in CaptureTimes, IndicateRtcpPacket(r, t) PROVE FALSE
        <3> DEFINE curr == [ssrc |-> Parsed(r).ssrc, sender |-> Parsed(r).sender,
                            blocks |-> Parsed(r).blocks, capTime |-> OfCount(t)]
                   pushed == PushBack(q, curr, MaxRtcp)
        <3>1. curr \in RtcpPacket
            BY <1>1, <2>4, KeptReport DEF IndicateRtcpPacket
        <3>2. rtcp'.packets = pushed
            BY <2>4 DEF IndicateRtcpPacket
        <3> HIDE DEF curr
        <3>3. MaxRtcp \in Nat \ {0}
            BY RtcpAssumption
        <3>4. /\ Len(pushed) = IF Len(q) < MaxRtcp THEN Len(q) + 1 ELSE MaxRtcp
              /\ \A i \in 1..Len(pushed) :
                     pushed[i] = IF i = Len(pushed) THEN curr
                                 ELSE IF Len(q) < MaxRtcp THEN q[i] ELSE q[i + 1]
            <4> HIDE DEF q
            <4>1. q \in Seq(RtcpPacket) /\ Len(q) <= MaxRtcp
                BY <2>1
            <4> DEFINE max == MaxRtcp
            <4> HIDE DEF max
            <4>2. max \in Nat \ {0} /\ Len(q) <= max /\ max = MaxRtcp
                BY <3>3, <4>1 DEF max
            <4>3. QED BY <3>1, <4>1, <4>2, PushBackIntoQueue
        <3> HIDE DEF pushed
        <3> DEFINE m == IF Len(q) < MaxRtcp THEN n ELSE n - 1
        <3>5. m \in 1..Len(pushed) /\ m # Len(pushed) /\ Len(pushed) \in Nat
            <4> HIDE DEF q
            <4>1. Len(pushed) = IF Len(q) < MaxRtcp THEN Len(q) + 1 ELSE MaxRtcp
                BY <3>4
            <4>2. n \in Nat /\ n >= 1 /\ n <= Len(q) /\ (n = 1 => Len(q) < MaxRtcp)
                BY <2>1, <2>2
            <4>3. CASE Len(q) < MaxRtcp
                BY <2>1, <3>3, <4>1, <4>2, <4>3
            <4>4. CASE ~(Len(q) < MaxRtcp)
                BY <2>1, <3>3, <4>1, <4>2, <4>4
            <4>5. QED BY <4>3, <4>4
        <3>6. pushed[m] = q[n]
            BY <2>1, <2>2, <3>3, <3>4, <3>5
        <3>7. pushed[m].blocks[1].ssrc = rtp'.ssrc
            BY <2>2, <3>6
        <3>8. OwnReport(rtp', pushed) \in m..Len(pushed)
            BY <3>5, <3>7, NewestReport
        <3>9. QED BY <2>3, <3>2, <3>5, <3>8
    <2>5. ASSUME NEW p \in RtpPackets \cup {NotRtp}, IndicateRtp(p) PROVE FALSE
        <3>1. rtcp' = rtcp
            BY <2>5 DEF IndicateRtp
        <3>2. OwnReport(rtp', q) \in n..Len(q)
            BY <2>1, <2>2, NewestReport
        <3>3. QED BY <2>1, <2>2, <2>3, <3>1, <3>2
    <2>6. ~ResetRtcp
        BY DEF ResetRtcp
    <2>7. QED BY <1>1, <2>4, <2>5, <2>6 DEF RtcpNext
<1>2. RtcpIInv /\ [RtcpNext]_rtcpVars => [Stays]_rtcpVars
    BY <1>1
<1>3. QED BY <1>2, RtcpInvariant, PTL DEF RtcpSpec, LossRateStays

-----------------------------------------------------------------------------

(***************************************************************************)
(* AnalyzerImpl: where the parser finds the addresses of a frame, and that *)
(* the handler files it where the packet was filed.                        *)
(***************************************************************************)

AllFrames == UNION Traffics

\* One step of the scan over the tags, with what the steps behind it found.
TagStep(A, f, i) ==
    IF i > Len(f) THEN [ids |-> <<>>, next |-> i, ok |-> TRUE]
    ELSE CASE f[i].is = "VLAN" ->
                [A[i + 1] EXCEPT !.ids = TagIds(f[i]) \o @]
           [] f[i].is = "MPLS" /\ LooksIp(f[i + 1]) ->
                [ids |-> TagIds(f[i]), next |-> i + 1, ok |-> TRUE]
           [] f[i].is = "MPLS" /\ ~LooksIp(f[i + 1]) ->
                [A[i + 2] EXCEPT !.ids = TagIds(f[i]) \o @]
           [] f[i].is \in {"PPPOE", "ETHER"} ->
                [ids |-> <<>>, next |-> i + 1, ok |-> TRUE]
           [] OTHER -> [ids |-> <<>>, next |-> i, ok |-> FALSE]

\* The scans of the last n headers.
ScansLast(A, f, n) == A = [i \in (Len(f) + 1 - n)..(Len(f) + 1) |-> TagStep(A, f, i)]

LEMMA TagStepSame ==
    ASSUME NEW f \in AllFrames, NEW i \in 1..(Len(f) + 1), NEW A, NEW B,
           i <= Len(f) => A[i + 1] = B[i + 1],
           i < Len(f) => A[i + 2] = B[i + 2]
    PROVE  TagStep(A, f, i) = TagStep(B, f, i)
<1>1. Len(f) \in Nat /\ DOMAIN f = 1..Len(f)
    BY FrameAssumption DEF AllFrames
<1>2. CASE i > Len(f)
    BY <1>2 DEF TagStep
<1>3. CASE i <= Len(f)
    <2>1. A[i + 1] = B[i + 1] /\ ~(i > Len(f))
        BY <1>1, <1>3
    <2>2. CASE f[i].is = "MPLS"
        <3>1. i < Len(f)
            BY <1>1, <1>3, <2>2, FrameAssumption DEF AllFrames
        <3>2. QED BY <3>1, <2>1 DEF TagStep
    <2>3. CASE f[i].is # "MPLS"
        BY <2>1, <2>3 DEF TagStep
    <2>4. QED BY <2>2, <2>3
<1>4. QED BY <1>1, <1>2, <1>3

LEMMA ScanningWorks ==
    ASSUME NEW f \in AllFrames, NEW N \in 0..Len(f)
    PROVE  \E A : ScansLast(A, f, N)
<1> DEFINE L == Len(f)
           Bad == {k \in 0..L : ~\E A : ScansLast(A, f, k)}
<1>1. L \in Nat
    BY FrameAssumption DEF AllFrames
<1> HIDE DEF L
<1>2. SUFFICES ASSUME Bad # {} PROVE FALSE
    BY DEF L
<1>3. PICK m \in Bad : \A k \in Bad : m <= k
    <2>1. Bad \subseteq Nat
        BY <1>1
    <2> HIDE DEF Bad
    <2>2. QED BY <1>2, <2>1, LeastNatural
<1>4. m \in 0..L /\ ~\E A : ScansLast(A, f, m)
    BY <1>3
<1>5. m # 0
    <2> DEFINE A == [i \in (L + 1 - 0)..(L + 1) |-> TagStep(<<>>, f, i)]
    <2>1. \A i \in (L + 1 - 0)..(L + 1) : TagStep(<<>>, f, i) = TagStep(A, f, i)
        <3> TAKE i \in (L + 1 - 0)..(L + 1)
        <3> HIDE DEF A
        <3>1. i \in 1..(L + 1) /\ ~(i <= L) /\ ~(i < L)
            BY <1>1
        <3>2. QED BY <3>1, TagStepSame DEF L
    <2> DEFINE T(i) == TagStep(<<>>, f, i)
               U(F, i) == TagStep(F, f, i)
    <2>2. A = [i \in (L + 1 - 0)..(L + 1) |-> U(A, i)]
        <3>1. A = [i \in (L + 1 - 0)..(L + 1) |-> T(i)] /\ \A i \in (L + 1 - 0)..(L + 1) : T(i) = U(A, i)
            BY <2>1
        <3> HIDE DEF A, T, U
        <3>2. QED BY <3>1
    <2>3. ScansLast(A, f, 0)
        <3> HIDE DEF A
        <3>1. QED BY <2>2 DEF ScansLast, L
    <2>4. QED BY <2>3, <1>4
<1>6. m - 1 \in 0..L /\ m - 1 \notin Bad
    BY <1>1, <1>3, <1>4, <1>5
<1>7. PICK A : ScansLast(A, f, m - 1)
    BY <1>6
<1> DEFINE lo == L + 1 - m
           U(F, i) == TagStep(F, f, i)
           B == [i \in lo..(L + 1) |-> IF i = lo THEN U(A, i) ELSE A[i]]
<1>8. lo \in 1..L /\ L + 1 - (m - 1) = lo + 1
    BY <1>1, <1>4, <1>5
<1>9. A = [i \in (lo + 1)..(L + 1) |-> U(A, i)]
    BY <1>7, <1>8 DEF ScansLast, L
<1> HIDE DEF lo
<1>10. ASSUME NEW i \in lo..(L + 1) PROVE U(A, i) = U(B, i)
    <2>1. i \in 1..(L + 1) /\ (i <= L => i + 1 \in lo..(L + 1) /\ i + 1 # lo)
          /\ (i < L => i + 2 \in lo..(L + 1) /\ i + 2 # lo)
        BY <1>1, <1>8
    <2>2. (i <= L => B[i + 1] = A[i + 1]) /\ (i < L => B[i + 2] = A[i + 2])
        BY <2>1
    <2> HIDE DEF B
    <2>3. QED BY <2>1, <2>2, TagStepSame DEF L
<1>11. ASSUME NEW i \in lo..(L + 1) PROVE B[i] = U(A, i)
    <2> HIDE DEF U
    <2>1. i # lo => i \in (lo + 1)..(L + 1)
        BY <1>1, <1>8
    <2>2. i # lo => A[i] = U(A, i)
        BY <2>1, <1>9
    <2>3. QED BY <2>2
<1>12. B = [i \in lo..(L + 1) |-> U(B, i)]
    <2>1. B = [i \in lo..(L + 1) |-> B[i]] /\ \A i \in lo..(L + 1) : B[i] = U(B, i)
        BY <1>10, <1>11
    <2> HIDE DEF B, U
    <2>2. QED BY <2>1
<1>13. ScansLast(B, f, m)
    <2> HIDE DEF B
    <2>1. QED BY <1>12 DEF ScansLast, L, lo
<1>14. QED BY <1>4, <1>13

\* The scan that Tags starts at the first header.
LEMMA TagsAre ==
    ASSUME NEW f \in AllFrames
    PROVE  \E scan : ScansLast(scan, f, Len(f)) /\ Tags(f) = scan[1]
<1> DEFINE L == Len(f)
           scan[i \in 1..(Len(f) + 1)] ==
               IF i > Len(f) THEN [ids |-> <<>>, next |-> i, ok |-> TRUE]
               ELSE CASE f[i].is = "VLAN" ->
                           [scan[i + 1] EXCEPT !.ids = TagIds(f[i]) \o @]
                      [] f[i].is = "MPLS" /\ LooksIp(f[i + 1]) ->
                           [ids |-> TagIds(f[i]), next |-> i + 1, ok |-> TRUE]
                      [] f[i].is = "MPLS" /\ ~LooksIp(f[i + 1]) ->
                           [scan[i + 2] EXCEPT !.ids = TagIds(f[i]) \o @]
                      [] f[i].is \in {"PPPOE", "ETHER"} ->
                           [ids |-> <<>>, next |-> i + 1, ok |-> TRUE]
                      [] OTHER -> [ids |-> <<>>, next |-> i, ok |-> FALSE]
<1>1. L \in Nat /\ DOMAIN f = 1..L
    BY FrameAssumption DEF AllFrames
<1>2. Tags(f) = scan[1]
    BY DEF Tags
<1>3. scan = CHOOSE A : A = [i \in 1..(Len(f) + 1) |-> TagStep(A, f, i)]
    BY DEF scan, TagStep
<1> HIDE DEF scan
<1>4. scan = [i \in 1..(L + 1) |-> TagStep(scan, f, i)]
    <2>1. L \in 0..L /\ L + 1 - L = 1
        BY <1>1
    <2>2. PICK A : ScansLast(A, f, L)
        BY <2>1, ScanningWorks
    <2>3. A = [i \in 1..(L + 1) |-> TagStep(A, f, i)]
        BY <2>1, <2>2 DEF ScansLast
    <2>4. QED BY <2>3, <1>3
<1>5. ScansLast(scan, f, Len(f))
    <2>1. L + 1 - L = 1
        BY <1>1
    <2>2. QED BY <2>1, <1>4 DEF ScansLast
<1>6. QED BY <1>2, <1>5

\* Identifiers, each with the flag of its kind.
Id == {"VLAN", "MPLS"} \X Nat

LEMMA TagIdsAre ==
    ASSUME NEW f \in AllFrames, NEW i \in DOMAIN f, f[i].is \in {"VLAN", "MPLS"}
    PROVE  TagIds(f[i]) \in Seq(Id)
<1>1. CASE f[i].is = "VLAN"
    <2>1. f[i].id \in Nat
        BY <1>1, FrameAssumption DEF AllFrames
    <2>2. TagIds(f[i]) = <<<<"VLAN", f[i].id>>>>
        BY <1>1 DEF TagIds
    <2>3. <<"VLAN", f[i].id>> \in Id
        BY <2>1 DEF Id
    <2> HIDE DEF Id
    <2>4. QED BY <2>2, <2>3
<1>2. CASE f[i].is = "MPLS"
    <2>1. f[i].ids \in Seq(Nat)
        BY <1>2, FrameAssumption DEF AllFrames
    <2>2. TagIds(f[i]) = [k \in DOMAIN f[i].ids |-> <<"MPLS", f[i].ids[k]>>]
        BY <1>2 DEF TagIds
    <2>3. Len(f[i].ids) \in Nat /\ DOMAIN f[i].ids = 1..Len(f[i].ids)
          /\ \A k \in DOMAIN f[i].ids : f[i].ids[k] \in Nat
        BY <2>1, LenProperties, ElementOfSeq
    <2>4. \A k \in 1..Len(f[i].ids) : <<"MPLS", f[i].ids[k]>> \in Id
        BY <2>3 DEF Id
    <2> DEFINE n == Len(f[i].ids)
               e(k) == <<"MPLS", f[i].ids[k]>>
    <2>5. n \in Nat /\ (\A k \in 1..n : e(k) \in Id) /\ TagIds(f[i]) = [k \in 1..n |-> e(k)]
        BY <2>2, <2>3, <2>4
    <2> HIDE DEF n, e, Id
    <2>6. QED BY <2>5, IsASeq
<1>3. QED BY <1>1, <1>2

\* What a scan yields: identifiers, and the header or the end behind the tags.
Scanned(scan, f, i) ==
    /\ scan[i] = [ids |-> scan[i].ids, next |-> scan[i].next, ok |-> scan[i].ok]
    /\ scan[i].next \in 1..(Len(f) + 1) /\ scan[i].ids \in Seq(Id)

LEMMA ScansWell ==
    ASSUME NEW f \in AllFrames, NEW scan, ScansLast(scan, f, Len(f))
    PROVE  \A i \in 1..(Len(f) + 1) : Scanned(scan, f, i)
<1> DEFINE L == Len(f)
<1>1. L \in Nat /\ DOMAIN f = 1..L
    BY FrameAssumption DEF AllFrames
<1>4. scan = [i \in 1..(L + 1) |-> TagStep(scan, f, i)]
    <2>1. L + 1 - L = 1
        BY <1>1
    <2>2. QED BY <2>1 DEF ScansLast
<1> DEFINE Shaped(x) == /\ x = [ids |-> x.ids, next |-> x.next, ok |-> x.ok]
                        /\ x.next \in 1..(L + 1) /\ x.ids \in Seq(Id)
           Bad == {k \in 0..L : ~Shaped(scan[L + 1 - k])}
<1>5. Bad = {}
    <2>1. SUFFICES ASSUME Bad # {} PROVE FALSE
        OBVIOUS
    <2>2. PICK m \in Bad : \A k \in Bad : m <= k
        <3>1. Bad \subseteq Nat
            BY <1>1
        <3> HIDE DEF Bad
        <3>2. QED BY <2>1, <3>1, LeastNatural
    <2>3. m \in 0..L /\ ~Shaped(scan[L + 1 - m])
        BY <2>2
    <2> DEFINE i == L + 1 - m
    <2>4. i \in 1..(L + 1) /\ (i <= L => m - 1 \in 0..L /\ L + 1 - (m - 1) = i + 1)
          /\ (i < L => m - 2 \in 0..L /\ L + 1 - (m - 2) = i + 2)
        BY <1>1, <2>3
    <2>5. (i <= L => Shaped(scan[i + 1])) /\ (i < L => Shaped(scan[i + 2]))
        <3>0. m \in Int
            BY <2>3, <1>1
        <3>1. m - 1 \notin Bad /\ m - 2 \notin Bad
            <4> HIDE DEF Bad
            <4>1. QED BY <2>2, <3>0
        <3> HIDE DEF i, Shaped
        <3>2. QED BY <3>1, <2>4
    <2>6. scan[i] = TagStep(scan, f, i)
        BY <2>4, <1>4
    <2> HIDE DEF i
    <2>7. Shaped(TagStep(scan, f, i))
        <3>1. CASE i > L
            <4>1. TagStep(scan, f, i) = [ids |-> <<>>, next |-> i, ok |-> TRUE]
                BY <3>1, <2>4, <1>1 DEF TagStep
            <4>2. QED BY <4>1, <2>4
        <3>2. CASE i <= L
            <4>1. ~(i > Len(f)) /\ i \in 1..(L + 1) /\ i + 1 \in 1..(L + 1)
                BY <3>2, <1>1, <2>4
            <4>0. i \in DOMAIN f
                BY <3>2, <2>4, <1>1
            <4>2. CASE f[i].is = "VLAN"
                <5>1. Shaped(scan[i + 1])
                    BY <2>5, <3>2
                <5>2. TagStep(scan, f, i) = [scan[i + 1] EXCEPT !.ids = TagIds(f[i]) \o @]
                    BY <4>1, <4>2 DEF TagStep
                <5>3. TagIds(f[i]) \in Seq(Id)
                    BY <4>0, <4>2, TagIdsAre
                <5>4. TagIds(f[i]) \o scan[i + 1].ids \in Seq(Id)
                    BY <5>1, <5>3
                <5>5. QED BY <5>1, <5>2, <5>4
            <4>3. CASE f[i].is = "MPLS" /\ ~LooksIp(f[i + 1])
                <5>1. i < L
                    BY <4>3, <3>2, <2>4, <1>1, FrameAssumption DEF AllFrames
                <5>2. Shaped(scan[i + 2])
                    BY <2>5, <5>1
                <5>3. TagStep(scan, f, i) = [scan[i + 2] EXCEPT !.ids = TagIds(f[i]) \o @]
                    BY <4>1, <4>3 DEF TagStep
                <5>4. TagIds(f[i]) \in Seq(Id)
                    BY <4>0, <4>3, TagIdsAre
                <5>5. TagIds(f[i]) \o scan[i + 2].ids \in Seq(Id)
                    BY <5>2, <5>4
                <5>6. QED BY <5>2, <5>3, <5>5
            <4>4. CASE f[i].is # "VLAN" /\ ~(f[i].is = "MPLS" /\ ~LooksIp(f[i + 1]))
                <5>1. \/ f[i].is = "MPLS" /\ TagStep(scan, f, i) = [ids |-> TagIds(f[i]), next |-> i + 1, ok |-> TRUE]
                      \/ TagStep(scan, f, i) = [ids |-> <<>>, next |-> i + 1, ok |-> TRUE]
                      \/ TagStep(scan, f, i) = [ids |-> <<>>, next |-> i, ok |-> FALSE]
                    BY <4>1, <4>4 DEF TagStep
                <5>2. f[i].is = "MPLS" => TagIds(f[i]) \in Seq(Id)
                    BY <4>0, TagIdsAre
                <5>3. <<>> \in Seq(Id)
                    OBVIOUS
                <5>4. CASE f[i].is = "MPLS" /\ TagStep(scan, f, i) = [ids |-> TagIds(f[i]), next |-> i + 1, ok |-> TRUE]
                    BY <5>2, <5>4, <4>1
                <5>5. CASE TagStep(scan, f, i) = [ids |-> <<>>, next |-> i + 1, ok |-> TRUE]
                    BY <5>3, <5>5, <4>1
                <5>6. CASE TagStep(scan, f, i) = [ids |-> <<>>, next |-> i, ok |-> FALSE]
                    BY <5>3, <5>6, <4>1
                <5>7. QED BY <5>1, <5>4, <5>5, <5>6
            <4>5. QED BY <4>2, <4>3, <4>4
        <3>3. QED BY <3>1, <3>2, <1>1, <2>4
    <2>8. QED BY <2>3, <2>6, <2>7 DEF i
<1>6. ASSUME NEW i \in 1..(L + 1) PROVE Scanned(scan, f, i)
    <2>1. L + 1 - i \in 0..L /\ L + 1 - (L + 1 - i) = i
        BY <1>1
    <2>2. Shaped(scan[L + 1 - (L + 1 - i)])
        BY <2>1, <1>5
    <2>3. Shaped(scan[i])
        <3> HIDE DEF Shaped
        <3>1. QED BY <2>1, <2>2
    <2>4. QED BY <2>3 DEF Scanned
<1>7. QED BY <1>6

\* The tags end at a header of the frame or behind the last one.
LEMMA TagsEnd ==
    ASSUME NEW f \in AllFrames
    PROVE  Tags(f).next \in 1..(Len(f) + 1) /\ Tags(f).ids \in Seq(Id)
<1>1. PICK scan : ScansLast(scan, f, Len(f)) /\ Tags(f) = scan[1]
    BY TagsAre
<1>2. 1 \in 1..(Len(f) + 1)
    BY FrameAssumption DEF AllFrames
<1>3. Scanned(scan, f, 1)
    BY <1>1, <1>2, ScansWell
<1>4. QED BY <1>1, <1>3 DEF Scanned

\* The identifiers kept fill a key at most.
LEMMA KeptFit == ASSUME NEW ids \in Seq(Id) PROVE Len(Kept(ids)) \in 0..MaxIds
<1>1. Len(ids) \in Nat /\ MaxIds \in Nat
    BY LenProperties, IdsAssumption
<1> DEFINE n == IF Len(ids) < MaxIds THEN Len(ids) ELSE MaxIds
<1>2. n \in 0..MaxIds /\ n <= Len(ids)
    BY <1>1
<1> HIDE DEF n
<1>3. Len(SubSeq(ids, 1, n)) = n
    BY <1>1, <1>2
<1>4. QED BY <1>2, <1>3 DEF Kept, n

\* What every parse has: the lower addresses are those of an IP header, or
\* there are none, there is one of three tunnels, and no more identifiers than
\* a key takes.
ParsedWell(p, f) ==
    /\ Len(p.labels) \in 0..MaxIds
    /\ p.lower.ip # 0 => p.lower.ip \in 1..Len(f) /\ LooksIp(f[p.lower.ip])
    /\ p.tunnel \in {"NONE", "GTP", "GRE"}

LEMMA ParsesWell ==
    ASSUME NEW f \in AllFrames
    PROVE  ParsedWell(ParseFrame(f), f)
<1> DEFINE next == Tags(f).next
           labels == Kept(Tags(f).ids)
           none == [NoParse EXCEPT !.labels = labels]
           lower == Info(f, next)
           some == [none EXCEPT !.lower = lower]
<1>1. next \in 1..(Len(f) + 1) /\ Len(f) \in Nat
    BY TagsEnd, FrameAssumption DEF AllFrames
<1>4. ParseFrame(f) = IF ~Tags(f).ok \/ ~IpAccepted(f, next) THEN none ELSE ParseTrans(some, f, next)
    BY DEF ParseFrame
<1>2. Len(labels) \in 0..MaxIds
    BY TagsEnd, KeptFit
<1> HIDE DEF labels
<1>5. ParsedWell(none, f)
    BY <1>2 DEF ParsedWell, NoParse, NoInfo
<1>6. ASSUME IpAccepted(f, next) PROVE ParsedWell(ParseTrans(some, f, next), f)
    <2>1. lower.ip = next /\ next \in 1..Len(f) /\ LooksIp(f[next])
        BY <1>1, <1>6 DEF IpAccepted, Info
    <2> HIDE DEF lower
    <2>3. ASSUME NEW q, q.lower = lower, q.labels = labels, q.tunnel \in {"NONE", "GTP", "GRE"}
          PROVE  ParsedWell(q, f)
        BY <1>2, <2>1, <2>3 DEF ParsedWell
    <2>4. \A i : ParsedWell(ParseGTP(some, f, i), f)
        <3> TAKE i
        <3>1. ParseGTP(some, f, i).lower = lower /\ ParseGTP(some, f, i).labels = labels /\ ParseGTP(some, f, i).tunnel = "GTP"
            BY DEF ParseGTP, NoParse
        <3>2. QED BY <3>1, <2>3
    <2>5. \A i : ParsedWell(ParseGRE(some, f, i), f)
        <3> TAKE i
        <3>1. ParseGRE(some, f, i).lower = lower /\ ParseGRE(some, f, i).labels = labels /\ ParseGRE(some, f, i).tunnel = "GRE"
            BY DEF ParseGRE, NoParse
        <3>2. QED BY <3>1, <2>3
    <2>6. \A b : [some EXCEPT !.ok = b].lower = lower /\ [some EXCEPT !.ok = b].labels = labels /\ [some EXCEPT !.ok = b].tunnel = "NONE"
        BY DEF NoParse
    <2>7. \A b : ParsedWell([some EXCEPT !.ok = b], f)
        BY <2>3, <2>6
    <2> HIDE DEF some
    <2>8. QED BY <2>4, <2>5, <2>7 DEF ParseTrans
<1>7. QED BY <1>4, <1>5, <1>6

\* The handler finds what the packet was filed under.
LEMMA HandlerAgrees ==
    ASSUME NEW f \in AllFrames
    PROVE  LET p == ParseFrame(f) IN
           /\ HandlerKey(f, p) = KeyOf(f, p)
           /\ HandlerIdx(f, p) = FlowIdx(f, p)
           /\ FlowIdx(f, p) \in {1, 2}
           /\ KeyOf(f, p).table \in {"NONE", "GTP", "GRE"}
           /\ Len(KeyOf(f, p).entry[1]) \in 0..MaxIds
<1> DEFINE p == ParseFrame(f)
           a == Addresses(f, p.lower)
           x == a[1]
           y == a[2]
<1>1. ParsedWell(p, f)
    BY ParsesWell
<1> HIDE DEF p
<1>2. Len(f) \in Nat /\ DOMAIN f = 1..Len(f)
    BY FrameAssumption DEF AllFrames
<1>3. a = <<x, y>> /\ x \in Nat /\ y \in Nat
    <2>1. CASE p.lower.ip # 0 /\ InOctet(f, p.lower.ip)
        <3>1. f[p.lower.ip].src \in Nat /\ f[p.lower.ip].dst \in Nat
            BY <1>1, <1>2, <2>1, FrameAssumption DEF ParsedWell, AllFrames
        <3>2. a = <<f[p.lower.ip].src, f[p.lower.ip].dst>>
            BY <2>1 DEF Addresses
        <3>3. QED BY <3>1, <3>2
    <2>2. CASE ~(p.lower.ip # 0 /\ InOctet(f, p.lower.ip))
        <3>1. a = <<JunkAddress, JunkAddress>>
            BY <2>2 DEF Addresses
        <3>2. QED BY <3>1, FrameAssumption
    <2>3. QED BY <2>1, <2>2
<1>4. SortedPair(a)[1] = (IF x > y THEN y ELSE x)
    <2> HIDE DEF a
    <2>1. SortedPair(a) = IF x > y THEN <<y, x>> ELSE a
        BY DEF SortedPair
    <2>2. QED BY <2>1
<1>5. (x = SortedPair(a)[1]) <=> ~(x > y)
    <2> HIDE DEF a, x, y
    <2>1. QED BY <1>3, <1>4
<1>6. HandlerKey(f, p) = KeyOf(f, p)
    <2>1. CASE p.tunnel # "NONE"
        BY <2>1 DEF HandlerKey, KeyOf
    <2>2. CASE p.tunnel = "NONE"
        <3>1. ConnSubEntryKey(a, p.lower) =
                  <<p.lower.ports[IF x = SortedPair(a)[1] THEN 1 ELSE 2],
                    p.lower.ports[IF x = SortedPair(a)[1] THEN 2 ELSE 1], p.lower.proto>>
            BY <1>5 DEF ConnSubEntryKey
        <3>2. QED BY <2>2, <3>1 DEF HandlerKey, KeyOf, ConnKey
    <2>3. QED BY <2>1, <2>2
<1>7. HandlerIdx(f, p) = FlowIdx(f, p) /\ FlowIdx(f, p) \in {1, 2}
    BY DEF HandlerIdx, FlowIdx
<1>8. KeyOf(f, p).table \in {"NONE", "GTP", "GRE"}
    <2>1. KeyOf(f, p).table = p.tunnel
        BY DEF KeyOf, ConnKey, TunnelKey
    <2>2. QED BY <2>1, <1>1 DEF ParsedWell
<1>9. Len(KeyOf(f, p).entry[1]) \in 0..MaxIds
    <2>1. KeyOf(f, p).entry[1] = p.labels
        BY DEF KeyOf, ConnKey, TunnelKey
    <2>2. QED BY <2>1, <1>1 DEF ParsedWell
<1>10. QED BY <1>6, <1>7, <1>8, <1>9 DEF p

-----------------------------------------------------------------------------

(***************************************************************************)
(* AnalyzerImpl: when outputs are due.                                     *)
(***************************************************************************)

\* Times whose parts are within their range.
Normal == [sec: Nat, nsec: 0..(SubSec - 1)]

LEMMA Dividing ==
    ASSUME NEW a \in Nat, NEW d \in Nat \ {0}
    PROVE  /\ a \div d \in Nat /\ d * (a \div d) <= a /\ a < d * (a \div d) + d
           /\ a % d \in 0..(d - 1) /\ a = d * (a \div d) + (a % d)
<1>1. a \div d \in Nat /\ d * (a \div d) <= a /\ a < d * (a \div d) + d
    OBVIOUS
<1>2. a % d \in 0..(d - 1)
    OBVIOUS
<1>3. a = d * (a \div d) + (a % d)
    OBVIOUS
<1>4. QED BY <1>1, <1>2, <1>3

\* Quotients by comparison.
LEMMA QuotientBelow ==
    ASSUME NEW a \in Nat, NEW d \in Nat \ {0}, NEW q \in Nat, a < d * q + d
    PROVE  a \div d <= q
<1>1. a \div d \in Nat /\ d * (a \div d) <= a
    BY Dividing
<1>2. a \div d >= q + 1 => d * (a \div d) >= d * (q + 1)
    BY <1>1
<1>3. d * (q + 1) = d * q + d /\ d * q \in Nat /\ d * (a \div d) \in Nat
    BY <1>1
<1>4. QED BY <1>1, <1>2, <1>3

LEMMA QuotientAbove ==
    ASSUME NEW a \in Nat, NEW d \in Nat \ {0}, NEW q \in Nat, d * q <= a
    PROVE  q <= a \div d
<1>1. a \div d \in Nat /\ a < d * (a \div d) + d
    BY Dividing
<1>2. a \div d <= q - 1 => d * (a \div d) <= d * (q - 1)
    BY <1>1
<1>3. d * (q - 1) = d * q - d /\ d * q \in Nat /\ d * (a \div d) \in Nat
    BY <1>1
<1>4. QED BY <1>1, <1>2, <1>3

\* The sub-seconds of a number of microseconds less than a second's.
SubSeconds(r) == (r * MicroSec) \div SubSec

LEMMA SubSecondsIn ==
    ASSUME NEW r \in 0..(MicroSec - 1)
    PROVE  SubSeconds(r) \in 0..(SubSec - 1) /\ SubSeconds(0) = 0
<1>1. MicroSec \in Nat /\ MicroSec >= 1 /\ SubSec \in Nat \ {0} /\ MicroSec <= SubSec
    BY SubSecAssumption, AnalyzerAssumption
<1>2. r \in Nat /\ r * MicroSec \in Nat /\ r <= SubSec - 1 /\ SubSec * r \in Nat
    BY <1>1
<1>3. r * MicroSec <= r * SubSec /\ r * SubSec = SubSec * r
    BY <1>1, <1>2
<1>4. r * MicroSec < SubSec * r + SubSec
    BY <1>1, <1>2, <1>3
<1>5. SubSeconds(r) <= r
    BY <1>1, <1>2, <1>4, QuotientBelow DEF SubSeconds
<1>6. SubSeconds(r) \in Nat
    BY <1>1, <1>2, Dividing DEF SubSeconds
<1>7. SubSeconds(0) = 0
    BY <1>1 DEF SubSeconds
<1>8. QED BY <1>1, <1>2, <1>5, <1>6, <1>7

\* They tell two times apart when these differ by more than a sub-second, and
\* never confuse their order.
LEMMA SubSecondsOrder ==
    ASSUME NEW r \in 0..(MicroSec - 1), NEW s \in 0..(MicroSec - 1)
    PROVE  /\ SubSeconds(r) > SubSeconds(s) => r > s
           /\ r - s > SubSec \div MicroSec => SubSeconds(r) > SubSeconds(s)
<1> DEFINE rm == r * MicroSec
           sm == s * MicroSec
           q == SubSec \div MicroSec
           x == SubSeconds(r)
           y == SubSeconds(s)
<1>1. /\ MicroSec \in Nat \ {0} /\ SubSec \in Nat \ {0} /\ r \in Nat /\ s \in Nat
      /\ rm \in Nat /\ sm \in Nat
    BY SubSecAssumption
<1>2. y \in Nat /\ x \in Nat /\ SubSec * y <= sm /\ sm < SubSec * y + SubSec
      /\ SubSec * y \in Nat
    <2> HIDE DEF rm, sm
    <2>1. (rm \div SubSec) \in Nat /\ (sm \div SubSec) \in Nat
          /\ SubSec * (sm \div SubSec) <= sm /\ sm < SubSec * (sm \div SubSec) + SubSec
        BY <1>1, Dividing
    <2>2. x = rm \div SubSec /\ y = sm \div SubSec
        BY DEF SubSeconds, rm, sm
    <2> HIDE DEF x, y
    <2>3. QED BY <2>1, <2>2, <1>1
<1>3. r <= s => x <= y
    <2> SUFFICES ASSUME r <= s PROVE x <= y
        OBVIOUS
    <2>1. rm <= sm
        BY <1>1
    <2> HIDE DEF rm, sm
    <2>2. x = rm \div SubSec
        BY DEF SubSeconds, rm
    <2> HIDE DEF x, y
    <2>3. rm < SubSec * y + SubSec
        BY <1>1, <1>2, <2>1
    <2>4. QED BY <1>1, <1>2, <2>2, <2>3, QuotientBelow
<1>4. r - s > q => x > y
    <2> SUFFICES ASSUME r - s > q PROVE x > y
        OBVIOUS
    <2>1. q \in Nat /\ SubSec < MicroSec * q + MicroSec
        BY <1>1, Dividing
    <2> HIDE DEF q
    <2>2. (r - s) * MicroSec >= (q + 1) * MicroSec
        BY <1>1, <2>1
    <2>3. (r - s) * MicroSec = rm - sm /\ (q + 1) * MicroSec = MicroSec * q + MicroSec
        BY <1>1, <2>1
    <2>4. MicroSec * q \in Nat
        BY <1>1, <2>1
    <2> HIDE DEF rm, sm
    <2>5. rm > sm + SubSec
        BY <1>1, <2>1, <2>2, <2>3, <2>4
    <2>6. x = rm \div SubSec
        BY DEF SubSeconds, rm
    <2> HIDE DEF x, y
    <2>7. SubSec * (y + 1) = SubSec * y + SubSec
        BY <1>1, <1>2
    <2>8. SubSec * (y + 1) <= rm
        BY <1>1, <1>2, <2>5, <2>7
    <2>9. y + 1 <= x
        BY <1>1, <1>2, <2>6, <2>8, QuotientAbove
    <2>10. QED BY <2>9, <1>2
<1> HIDE DEF x, y, q
<1>5. QED BY <1>1, <1>2, <1>3, <1>4 DEF x, y, q

LEMMA TimevalIs ==
    ASSUME NEW m \in Nat
    PROVE  /\ OfTimeval(m) = [sec |-> m \div MicroSec, nsec |-> SubSeconds(m % MicroSec)]
           /\ m \div MicroSec \in Nat /\ m % MicroSec \in 0..(MicroSec - 1)
           /\ m = MicroSec * (m \div MicroSec) + (m % MicroSec)
           /\ OfTimeval(m) \in Normal
<1>1. MicroSec \in Nat \ {0}
    BY SubSecAssumption
<1>2. /\ m \div MicroSec \in Nat /\ m % MicroSec \in 0..(MicroSec - 1)
      /\ m = MicroSec * (m \div MicroSec) + (m % MicroSec)
    BY <1>1, Dividing
<1>3. SubSeconds(m % MicroSec) \in 0..(SubSec - 1)
    BY <1>2, SubSecondsIn
<1>4. OfTimeval(m) = [sec |-> m \div MicroSec, nsec |-> SubSeconds(m % MicroSec)]
    BY DEF OfTimeval, SubSeconds
<1>5. QED BY <1>2, <1>3, <1>4 DEF Normal

\* A sum of two such times carries at most once and is one.
LEMMA PlusNormal ==
    ASSUME NEW x \in Normal, NEW y \in Normal
    PROVE  /\ Plus(x, y) \in Normal /\ Count(Plus(x, y)) = Count(x) + Count(y)
           /\ Count(x) \in Nat /\ (y.nsec = 0 => Plus(x, y) = [sec |-> x.sec + y.sec, nsec |-> x.nsec])
<1> DEFINE n == x.nsec + y.nsec
           s == Quotient(n)
<1>1. SubSec \in Nat \ {0}
    BY SubSecAssumption
<1>2. x.sec \in Nat /\ y.sec \in Nat /\ x.nsec \in 0..(SubSec - 1) /\ y.nsec \in 0..(SubSec - 1)
    BY DEF Normal
<1>3. n \in Nat
    BY <1>1, <1>2
<1>4. s \in Nat /\ Remainder(n) \in 0..(SubSec - 1) /\ (n < SubSec => s = 0) /\ (s = 0 => n = Remainder(n))
    <2> HIDE DEF n
    <2>1. s = n \div SubSec
        BY <1>3 DEF Quotient
    <2>2. n \div SubSec \in Nat /\ SubSec * (n \div SubSec) <= n /\ n < SubSec * (n \div SubSec) + SubSec
        BY <1>1, <1>3, Dividing
    <2>3. Remainder(n) = n - SubSec * s
        BY DEF Remainder
    <2>4. n < SubSec => n \div SubSec <= 0
        <3>1. n < SubSec => n < SubSec * 0 + SubSec
            BY <1>1, <1>3
        <3>2. 0 \in Nat
            OBVIOUS
        <3>3. QED BY <1>1, <1>3, <3>1, <3>2, QuotientBelow
    <2>5. SubSec * s \in Nat
        BY <1>1, <2>1, <2>2
    <2> HIDE DEF s
    <2>6. s = 0 => SubSec * s = 0
        BY <1>1
    <2>7. QED BY <1>1, <1>3, <2>1, <2>2, <2>3, <2>4, <2>5, <2>6
<1>5. Plus(x, y) = [sec |-> x.sec + y.sec + s, nsec |-> IF s # 0 THEN Remainder(n) ELSE n]
    BY DEF Plus
<1> HIDE DEF n, s
<1>6. Plus(x, y) \in Normal
    BY <1>2, <1>4, <1>5 DEF Normal
<1>7. Count(Plus(x, y)) = Count(x) + Count(y)
    <2>1. x \in TimeRecord /\ y \in TimeRecord
        BY <1>1 DEF Normal, TimeRecord
    <2>2. QED BY <2>1, PlusExact
<1>8. Count(x) \in Nat
    <2>1. x.sec * SubSec \in Nat
        BY <1>1, <1>2
    <2>2. QED BY <2>1, <1>1, <1>2 DEF Count
<1>9. y.nsec = 0 => Plus(x, y) = [sec |-> x.sec + y.sec, nsec |-> x.nsec]
    <2> SUFFICES ASSUME y.nsec = 0 PROVE Plus(x, y) = [sec |-> x.sec + y.sec, nsec |-> x.nsec]
        OBVIOUS
    <2>1. n = x.nsec /\ n < SubSec
        BY <1>1, <1>2 DEF n
    <2>2. x.sec + y.sec + s = x.sec + y.sec /\ s = 0
        BY <2>1, <1>2, <1>4
    <2>3. QED BY <2>1, <2>2, <1>5
<1>10. QED BY <1>6, <1>7, <1>8, <1>9

\* An output that ends a sample of whole seconds comes more than the interval
\* behind its start; and it does come once the difference can be told.
LEMMA DueBeyond ==
    ASSUME NEW b \in Nat, NEW s \in Nat, NEW t \in Nat, s % MicroSec = 0
    PROVE  /\ Before(Plus(OfTimeval(b), OfTimeval(s)), OfTimeval(t)) => t - b > s
           /\ t - b > s + SubSec \div MicroSec =>
                  Before(Plus(OfTimeval(b), OfTimeval(s)), OfTimeval(t))
<1> DEFINE bq == b \div MicroSec
           br == b % MicroSec
           sq == s \div MicroSec
           tq == t \div MicroSec
           tr == t % MicroSec
           x == SubSeconds(br)
           y == SubSeconds(tr)
           u == SubSec \div MicroSec
<1>1. MicroSec \in Nat \ {0} /\ SubSec \in Nat \ {0}
    BY SubSecAssumption
<1>2. /\ OfTimeval(b) = [sec |-> bq, nsec |-> x] /\ OfTimeval(b) \in Normal
      /\ bq \in Nat /\ br \in 0..(MicroSec - 1) /\ b = MicroSec * bq + br
    BY TimevalIs
<1>3. /\ OfTimeval(t) = [sec |-> tq, nsec |-> y]
      /\ tq \in Nat /\ tr \in 0..(MicroSec - 1) /\ t = MicroSec * tq + tr
    BY TimevalIs
<1>4. OfTimeval(s) = [sec |-> sq, nsec |-> 0] /\ OfTimeval(s) \in Normal
      /\ sq \in Nat /\ s = MicroSec * sq
    <2>1. 0 \in 0..(MicroSec - 1)
        BY <1>1
    <2>2. SubSeconds(s % MicroSec) = 0
        BY <2>1, SubSecondsIn
    <2>3. /\ OfTimeval(s) = [sec |-> sq, nsec |-> SubSeconds(s % MicroSec)] /\ OfTimeval(s) \in Normal
          /\ sq \in Nat /\ s = MicroSec * sq + (s % MicroSec)
        BY TimevalIs
    <2>4. MicroSec * sq \in Nat
        BY <1>1, <2>3
    <2> HIDE DEF sq
    <2>5. QED BY <2>2, <2>3, <2>4
<1>5. u \in Nat
    BY <1>1, Dividing
<1>6. x \in Nat /\ y \in Nat
    BY <1>1, <1>2, <1>3, SubSecondsIn
<1>7. (y > x => tr > br) /\ (tr - br > u => y > x)
    BY <1>2, <1>3, SubSecondsOrder
<1> HIDE DEF bq, br, sq, tq, tr, x, y, u
<1>8. Plus(OfTimeval(b), OfTimeval(s)) = [sec |-> bq + sq, nsec |-> x]
    <2>1. OfTimeval(s).nsec = 0
        BY <1>4
    <2>2. Plus(OfTimeval(b), OfTimeval(s)) =
              [sec |-> OfTimeval(b).sec + OfTimeval(s).sec, nsec |-> OfTimeval(b).nsec]
        BY <2>1, <1>2, <1>4, PlusNormal
    <2>3. QED BY <2>2, <1>2, <1>4
<1>9. Before(Plus(OfTimeval(b), OfTimeval(s)), OfTimeval(t)) <=>
          bq + sq < tq \/ (bq + sq = tq /\ x < y)
    BY <1>3, <1>8 DEF Before
<1> DEFINE g == tq - bq - sq
<1>10. t - b - s = MicroSec * g + tr - br /\ g \in Int /\ MicroSec * g \in Int
    <2>1. MicroSec * g = MicroSec * tq - MicroSec * bq - MicroSec * sq
        BY <1>1, <1>2, <1>3, <1>4
    <2>2. MicroSec * tq \in Nat /\ MicroSec * bq \in Nat /\ MicroSec * sq \in Nat
        BY <1>1, <1>2, <1>3, <1>4
    <2> HIDE DEF g
    <2>3. QED BY <2>1, <2>2, <1>1, <1>2, <1>3, <1>4 DEF g
<1>11. (bq + sq < tq <=> g >= 1) /\ (bq + sq = tq <=> g = 0)
    BY <1>2, <1>3, <1>4
<1> HIDE DEF g
<1>12. (g >= 1 => MicroSec * g >= MicroSec) /\ (g = 0 => MicroSec * g = 0)
       /\ (g <= -1 => MicroSec * g <= -MicroSec)
    BY <1>1, <1>10
<1> DEFINE mg == MicroSec * g
<1>13. mg \in Int
    BY <1>10
<1> HIDE DEF mg
<1>14. t - b - s = mg + tr - br /\ (g >= 1 => mg >= MicroSec) /\ (g = 0 => mg = 0) /\ (g <= -1 => mg <= -MicroSec)
    BY <1>10, <1>12 DEF mg
<1>15. Before(Plus(OfTimeval(b), OfTimeval(s)), OfTimeval(t)) => t - b > s
    <2>1. g >= 1 => t - b - s > 0
        BY <1>1, <1>2, <1>3, <1>13, <1>14
    <2>2. g = 0 /\ x < y => t - b - s > 0
        BY <1>2, <1>3, <1>6, <1>7, <1>13, <1>14
    <2>3. QED BY <2>1, <2>2, <1>9, <1>11
<1>16. t - b > s + u => Before(Plus(OfTimeval(b), OfTimeval(s)), OfTimeval(t))
    <2> SUFFICES ASSUME t - b > s + u PROVE Before(Plus(OfTimeval(b), OfTimeval(s)), OfTimeval(t))
        OBVIOUS
    <2>1. mg + tr - br > u
        BY <1>5, <1>13, <1>14, <1>2, <1>3
    <2>2. g >= 0
        <3>1. ~(g <= -1)
            BY <2>1, <1>1, <1>2, <1>3, <1>5, <1>13, <1>14
        <3>2. QED BY <3>1, <1>10
    <2>3. g = 0 => x < y
        BY <2>1, <1>2, <1>3, <1>5, <1>6, <1>7, <1>14
    <2>4. QED BY <2>2, <2>3, <1>9, <1>10, <1>11
<1>17. QED BY <1>15, <1>16 DEF u

Armed == [at: Timestamps \cup {0}, span: Intervals \cup {0}]

\* The sample ends an interval behind the time it was set.
ClockInv ==
    /\ interval \in Intervals \cup {0} /\ sampleEnd \in Normal /\ armed \in Armed
    /\ IF armed = NotArmed THEN sampleEnd = Zero
       ELSE /\ sampleEnd = Plus(OfTimeval(armed.at), OfTimeval(armed.span))
            /\ Count(OfTimeval(armed.span)) > 0
            /\ interval \in Intervals

\* An end that was set is told from none.
LEMMA SampledOnce ==
    ASSUME ClockInv, armed # NotArmed
    PROVE  ~NeverSampled(sampleEnd)
<1>1. armed.at \in Nat /\ armed.span \in Nat
    BY AnalyzerAssumption DEF ClockInv, Armed
<1>2. Count(sampleEnd) = Count(OfTimeval(armed.at)) + Count(OfTimeval(armed.span))
      /\ Count(OfTimeval(armed.at)) \in Nat /\ Count(OfTimeval(armed.span)) \in Nat
    BY <1>1, TimevalIs, PlusNormal DEF ClockInv
<1>3. QED BY <1>2 DEF ClockInv, NeverSampled

LEMMA ClockKeeps ==
    ASSUME ClockInv, NEW t \in Timestamps, NEW threw, PassTime(t, threw)
    PROVE  ClockInv'
<1> DEFINE s == OfTimeval(interval)
           due == Due(sampleEnd, s, OfTimeval(t))
           sets == Count(s) > 0 /\ (NeverSampled(sampleEnd) \/ Before(sampleEnd, OfTimeval(t)))
<1>1. t \in Nat /\ interval \in Nat /\ interval \in Intervals \cup {0}
    BY AnalyzerAssumption DEF ClockInv
<1>2. /\ sampleEnd' = IF sets THEN Plus(OfTimeval(t), s) ELSE sampleEnd
      /\ armed' = IF due \/ (Count(s) > 0 /\ NeverSampled(sampleEnd))
                  THEN [at |-> t, span |-> interval] ELSE armed
      /\ interval' = interval
    BY DEF PassTime, SampleEnd
<1>3. due \/ (Count(s) > 0 /\ NeverSampled(sampleEnd)) <=> sets
    BY DEF Due
<1>4. CASE sets
    <2>1. sampleEnd' = Plus(OfTimeval(t), s) /\ armed' = [at |-> t, span |-> interval]
        BY <1>2, <1>3, <1>4
    <2>2. sampleEnd' \in Normal
        BY <2>1, <1>1, TimevalIs, PlusNormal
    <2>3. Count(OfTimeval(0)) = 0
        <3>1. OfTimeval(0) = [sec |-> 0, nsec |-> 0]
            <4>1. MicroSec \in Nat \ {0} /\ SubSec \in Nat \ {0} /\ 0 \div MicroSec = 0 /\ 0 % MicroSec = 0
                BY SubSecAssumption
            <4>2. SubSeconds(0) = 0
                BY <4>1, SubSecondsIn
            <4>3. 0 \in Nat
                OBVIOUS
            <4>4. QED BY <4>1, <4>2, <4>3, TimevalIs
        <3>2. QED BY <3>1, SubSecAssumption DEF Count
    <2>4. interval # 0
        BY <1>4, <2>3
    <2>5. armed' # NotArmed /\ interval \in Intervals /\ armed' \in Armed
        BY <2>1, <2>4, <1>1 DEF NotArmed, Armed
    <2>6. armed'.at = t /\ armed'.span = interval
        BY <2>1
    <2>7. sampleEnd' = Plus(OfTimeval(armed'.at), OfTimeval(armed'.span)) /\ Count(OfTimeval(armed'.span)) > 0
        BY <2>1, <2>6, <1>4
    <2>8. QED BY <2>2, <2>5, <2>7, <1>1, <1>2 DEF ClockInv
<1>5. CASE ~sets
    <2>1. sampleEnd' = sampleEnd /\ armed' = armed
        BY <1>2, <1>3, <1>5
    <2>2. QED BY <2>1, <1>2 DEF ClockInv
<1>6. QED BY <1>4, <1>5

LEMMA ClockStays ==
    ASSUME ClockInv, UNCHANGED clockVars
    PROVE  ClockInv'
    BY DEF ClockInv, clockVars

LEMMA IntervalKeeps ==
    ASSUME ClockInv, NEW i \in Intervals, SetResultOutputCallback(i)
    PROVE  ClockInv'
    BY DEF ClockInv, SetResultOutputCallback

-----------------------------------------------------------------------------

(***************************************************************************)
(* AnalyzerImpl: whose MQmon it is, and which flows become active.         *)
(***************************************************************************)

Started == {a \in Analyzers : phase[a] = "STARTED"}

Phases == {"NEW", "STARTED", "STOPPED", "RELEASED"}

\* MQmon is up as long as the count is not used up, whoever used it.
LifeInv ==
    /\ phase \in [Analyzers -> Phases]
    /\ overcounted \subseteq {a \in Analyzers : phase[a] = "RELEASED"}
    /\ nInstances = Cardinality(Started) - Cardinality(overcounted)
    /\ up \in BOOLEAN /\ (up <=> nInstances >= 1)

Sub == {"ABSENT", "IDLE", "ACTIVE"}

Tables == {"NONE", "GTP", "GRE"}

\* Entries as the analyzer keeps them: finitely many, each of one table, with
\* no more identifiers than a key takes.
Typed(e) ==
    /\ IsFiniteSet(DOMAIN e)
    /\ \A k \in DOMAIN e : k.table \in Tables /\ e[k] \in Sub \X Sub /\ Len(k.entry[1]) \in 0..MaxIds

\* Every direction of an entry that is not absent was fed.
FedEntries(e, F) ==
    \A k \in DOMAIN e, i \in {1, 2} :
        e[k][i] # "ABSENT" => \E f \in F : KeyOf(f, ParseFrame(f)) = k /\ FlowIdx(f, ParseFrame(f)) = i

FlowsInv ==
    /\ traffic \in Traffics /\ fed \subseteq traffic
    /\ fault = FALSE /\ Typed(entries) /\ FedEntries(entries, fed)
    /\ asserting \in BOOLEAN /\ aborted \in BOOLEAN
    /\ asserting => \A k \in DOMAIN entries : entries[k] = NewSubEntry

AnalyzerIInv == LifeInv /\ ClockInv /\ FlowsInv

LEMMA StartedFinite ==
    /\ IsFiniteSet(Started) /\ Started \subseteq Analyzers
    /\ Cardinality(Started) \in Nat
    /\ Cardinality(Started) = 0 <=> Started = {}
<1>1. IsFiniteSet(Analyzers) /\ Started \in SUBSET Analyzers
    BY AnalyzerAssumption DEF Started
<1>2. IsFiniteSet(Started)
    BY <1>1, FS_Subset
<1>3. QED BY <1>1, <1>2, FS_CardinalityType, FS_EmptySet

LEMMA OvercountedFinite ==
    ASSUME LifeInv
    PROVE  IsFiniteSet(overcounted) /\ Cardinality(overcounted) \in Nat
<1>1. IsFiniteSet(Analyzers) /\ overcounted \in SUBSET Analyzers
    BY AnalyzerAssumption DEF LifeInv
<1>2. QED BY <1>1, FS_Subset, FS_CardinalityType

LEMMA LifeKeeps ==
    ASSUME LifeInv, NEW a \in Analyzers, Start(a) \/ Stop(a) \/ Release(a)
    PROVE  LifeInv'
<1>1. IsFiniteSet(Started) /\ Cardinality(Started) \in Nat
    BY StartedFinite
<1>2. IsFiniteSet(overcounted) /\ Cardinality(overcounted) \in Nat
    BY OvercountedFinite
<1>3. /\ phase \in [Analyzers -> Phases]
      /\ overcounted \subseteq {b \in Analyzers : phase[b] = "RELEASED"}
      /\ nInstances = Cardinality(Started) - Cardinality(overcounted)
      /\ up \in BOOLEAN /\ (up <=> nInstances >= 1)
    BY DEF LifeInv
<1>0. nInstances \in Int
    BY <1>1, <1>2, <1>3
<1>4. CASE Start(a)
    <2>1. phase' = [phase EXCEPT ![a] = "STARTED"] /\ phase[a] = "NEW" /\ nInstances' = nInstances + 1
          /\ up' = (up \/ nInstances = 0) /\ overcounted' = overcounted
        BY <1>4 DEF Start
    <2>2. Started' = Started \cup {a} /\ a \notin Started
        BY <2>1, <1>3 DEF Started
    <2>3. Cardinality(Started') = Cardinality(Started) + 1
        BY <2>2, <1>1, FS_AddElement
    <2>4. up' \in BOOLEAN /\ (up' <=> nInstances' >= 1)
        <3>1. nInstances' >= 1 <=> (nInstances >= 1 \/ nInstances = 0)
            BY <2>1, <1>0
        <3>2. QED BY <3>1, <2>1, <1>3, Zenon
    <2>5. phase' \in [Analyzers -> Phases]
          /\ overcounted' \subseteq {b \in Analyzers : phase'[b] = "RELEASED"}
        BY <2>1, <1>3 DEF Phases
    <2>6. nInstances' = Cardinality(Started') - Cardinality(overcounted')
        BY <2>1, <2>3, <1>1, <1>2, <1>3
    <2>7. QED BY <2>4, <2>5, <2>6 DEF LifeInv
<1>5. ASSUME NEW then \in {"STOPPED", "RELEASED"}, CountDown(a, then),
             phase[a] # "RELEASED", phase[a] # "STARTED" => then = "RELEASED"
      PROVE  LifeInv'
    <2>1. phase' = [phase EXCEPT ![a] = then] /\ nInstances' = nInstances - 1
          /\ up' = (up /\ ~(nInstances = 1))
          /\ overcounted' = IF phase[a] = "STARTED" THEN overcounted ELSE overcounted \cup {a}
        BY <1>5 DEF CountDown, LastInstance
    <2>2. phase' \in [Analyzers -> Phases]
        BY <2>1, <1>3 DEF Phases
    <2>3. up' \in BOOLEAN /\ (up' <=> nInstances' >= 1)
        <3>1. nInstances' >= 1 <=> (nInstances >= 1 /\ ~(nInstances = 1))
            BY <2>1, <1>0
        <3>2. QED BY <3>1, <2>1, <1>3, Zenon
    <2>4. overcounted' \subseteq {b \in Analyzers : phase'[b] = "RELEASED"}
        BY <2>1, <1>3, <1>5
    <2>5. nInstances' = Cardinality(Started') - Cardinality(overcounted')
        <3>1. CASE phase[a] = "STARTED"
            <4>1. Started' = Started \ {a} /\ a \in Started /\ overcounted' = overcounted
                BY <2>1, <1>3, <3>1 DEF Started
            <4>2. Cardinality(Started') = Cardinality(Started) - 1
                BY <4>1, <1>1, FS_RemoveElement
            <4>3. nInstances' = nInstances - 1
                BY <2>1
            <4>4. nInstances = Cardinality(Started) - Cardinality(overcounted)
                BY <1>3
            <4>5. QED BY <4>1, <4>2, <4>3, <4>4, <1>1, <1>2
        <3>2. CASE phase[a] # "STARTED"
            <4>1. Started' = Started /\ a \notin overcounted /\ overcounted' = overcounted \cup {a}
                BY <2>1, <1>3, <1>5, <3>2 DEF Started
            <4>2. Cardinality(overcounted') = Cardinality(overcounted) + 1
                BY <4>1, <1>2, FS_AddElement
            <4>3. nInstances' = nInstances - 1
                BY <2>1
            <4>4. nInstances = Cardinality(Started) - Cardinality(overcounted)
                BY <1>3
            <4>5. QED BY <4>1, <4>2, <4>3, <4>4, <1>1, <1>2
        <3>3. QED BY <3>1, <3>2
    <2>6. QED BY <2>2, <2>3, <2>4, <2>5 DEF LifeInv
<1>6. CASE Stop(a)
    <2>1. CountDown(a, "STOPPED") /\ phase[a] = "STARTED"
        BY <1>6 DEF Stop
    <2>2. QED BY <2>1, <1>5
<1>7. CASE Release(a)
    <2>1. CountDown(a, "RELEASED") /\ phase[a] # "RELEASED"
        BY <1>7 DEF Release
    <2>2. QED BY <2>1, <1>5
<1>8. QED BY <1>4, <1>6, <1>7

LEMMA LifeStays ==
    ASSUME LifeInv, UNCHANGED lifeVars
    PROVE  LifeInv'
    BY DEF LifeInv, lifeVars, Started

LEMMA PairEdited ==
    ASSUME NEW S, NEW x \in S \X S, NEW i \in {1, 2}, NEW v \in S
    PROVE  /\ [x EXCEPT ![i] = v] \in S \X S
           /\ \A j \in {1, 2} : [x EXCEPT ![i] = v][j] = IF j = i THEN v ELSE x[j]
    OBVIOUS

\* A direction of an entry changes: it was fed, or was not absent before.
LEMMA FedEntriesEdited ==
    ASSUME NEW e, NEW F, Typed(e), FedEntries(e, F), NEW k \in DOMAIN e, NEW i \in {1, 2}, NEW v \in Sub,
           \/ e[k][i] # "ABSENT"
           \/ \E f \in F : KeyOf(f, ParseFrame(f)) = k /\ FlowIdx(f, ParseFrame(f)) = i
    PROVE  Typed([e EXCEPT ![k][i] = v]) /\ FedEntries([e EXCEPT ![k][i] = v], F)
<1> DEFINE d == [e EXCEPT ![k][i] = v]
           pair == [e[k] EXCEPT ![i] = v]
<1>1. DOMAIN d = DOMAIN e /\ \A m \in DOMAIN e : d[m] = IF m = k THEN pair ELSE e[m]
    OBVIOUS
<1>2. e[k] \in Sub \X Sub
    BY DEF Typed
<1>3. pair \in Sub \X Sub /\ \A j \in {1, 2} : pair[j] = IF j = i THEN v ELSE e[k][j]
    BY <1>2, PairEdited
<1> HIDE DEF d, pair
<1>4. ASSUME NEW m \in DOMAIN d, m # k, NEW j \in {1, 2}, d[m][j] # "ABSENT"
      PROVE  \E f \in F : KeyOf(f, ParseFrame(f)) = m /\ FlowIdx(f, ParseFrame(f)) = j
    BY <1>1, <1>4 DEF FedEntries
<1>5. Typed(d)
    BY <1>1, <1>3 DEF Typed
<1>6. ASSUME NEW j \in {1, 2}, d[k][j] # "ABSENT"
      PROVE  \E f \in F : KeyOf(f, ParseFrame(f)) = k /\ FlowIdx(f, ParseFrame(f)) = j
    <2>1. CASE j = i /\ e[k][i] = "ABSENT"
        BY <2>1
    <2>2. CASE j # i \/ e[k][i] # "ABSENT"
        <3>1. e[k][j] # "ABSENT"
            BY <2>2, <1>1, <1>3, <1>6
        <3>2. QED BY <3>1 DEF FedEntries
    <2>3. QED BY <2>1, <2>2
<1>7. FedEntries(d, F)
    BY <1>4, <1>6 DEF FedEntries
<1>8. QED BY <1>5, <1>7 DEF d

LEMMA FeedKeeps ==
    ASSUME FlowsInv, NEW frame \in traffic, IndicatePacket(frame, ParseFrame(frame)),
           UNCHANGED <<traffic, asserting>>
    PROVE  FlowsInv'
<1> DEFINE p == ParseFrame(frame)
           key == KeyOf(frame, p)
           idx == FlowIdx(frame, p)
           e == WithEntry(entries, key)
           F == fed \cup {frame}
<1>1. frame \in AllFrames /\ traffic \in Traffics /\ F \subseteq traffic
    BY DEF FlowsInv, AllFrames
<1>2. /\ HandlerKey(frame, p) = key /\ HandlerIdx(frame, p) = idx
      /\ idx \in {1, 2} /\ key.table \in {"NONE", "GTP", "GRE"} /\ Len(key.entry[1]) \in 0..MaxIds
    BY <1>1, HandlerAgrees
<1>3. frame \in F /\ KeyOf(frame, ParseFrame(frame)) = key /\ FlowIdx(frame, ParseFrame(frame)) = idx
    OBVIOUS
<1>4. /\ fed' = F
      /\ \/ entries' = e /\ fault' = fault /\ aborted' = aborted
         \/ Activate(e, HandlerKey(frame, p), HandlerIdx(frame, p))
    BY DEF IndicatePacket
<1>5. Typed(entries) /\ FedEntries(entries, F)
    BY DEF FlowsInv, FedEntries
<1> HIDE DEF p, key, idx, F
<1>6. key \in DOMAIN e /\ Typed(e) /\ FedEntries(e, F)
      /\ (asserting => \A k \in DOMAIN e : e[k] = NewSubEntry)
    <2>1. CASE key \in DOMAIN entries
        BY <2>1, <1>5 DEF WithEntry, FlowsInv
    <2>2. CASE key \notin DOMAIN entries
        <3>1. DOMAIN e = DOMAIN entries \cup {key} /\ e[key] = NewSubEntry
              /\ \A k \in DOMAIN entries : e[k] = entries[k]
            BY <2>2 DEF WithEntry
        <3>2. NewSubEntry \in Sub \X Sub /\ \A i \in {1, 2} : NewSubEntry[i] = "ABSENT"
            BY DEF NewSubEntry, Sub
        <3>3. IsFiniteSet(DOMAIN entries \cup {key})
            BY <1>5, FS_AddElement DEF Typed
        <3> HIDE DEF e
        <3>4. Typed(e)
            BY <3>1, <3>2, <3>3, <1>2, <1>5 DEF Typed, Tables
        <3>5. FedEntries(e, F)
            BY <3>1, <3>2, <1>5 DEF FedEntries
        <3>6. QED BY <3>1, <3>4, <3>5 DEF FlowsInv
    <2>3. QED BY <2>1, <2>2
<1> HIDE DEF e
<1>7. CASE entries' = e /\ fault' = fault /\ aborted' = aborted
    BY <1>1, <1>4, <1>6, <1>7 DEF FlowsInv
<1>8. CASE Activate(e, HandlerKey(frame, p), HandlerIdx(frame, p))
    <2>1. fault' = FALSE /\ aborted' = (e[key][idx] = "ABSENT" /\ asserting)
          /\ entries' = IF e[key][idx] = "ABSENT" /\ asserting THEN e ELSE [e EXCEPT ![key][idx] = "ACTIVE"]
        BY <1>2, <1>6, <1>8 DEF Activate, FlowsInv
    <2>2. CASE asserting
        <3>1. e[key][idx] = "ABSENT"
            BY <2>2, <1>2, <1>6 DEF NewSubEntry
        <3>2. QED BY <3>1, <2>1, <2>2, <1>1, <1>4, <1>6 DEF FlowsInv
    <2>3. CASE ~asserting
        <3>1. "ACTIVE" \in Sub
            BY DEF Sub
        <3>2. Typed([e EXCEPT ![key][idx] = "ACTIVE"]) /\ FedEntries([e EXCEPT ![key][idx] = "ACTIVE"], F)
            BY <3>1, <1>2, <1>3, <1>6, FedEntriesEdited
        <3>3. QED BY <3>2, <2>1, <2>3, <1>1, <1>4 DEF FlowsInv
    <2>4. QED BY <2>2, <2>3
<1>9. QED BY <1>4, <1>7, <1>8

LEMMA FlowsStay ==
    ASSUME FlowsInv, UNCHANGED <<entries, fault, traffic, fed>>, UNCHANGED buildVars
    PROVE  FlowsInv'
    BY DEF FlowsInv, buildVars

LEMMA DeactivateKeeps ==
    ASSUME FlowsInv, NEW key \in DOMAIN entries, NEW idx \in {1, 2}, Deactivate(key, idx)
    PROVE  FlowsInv'
<1>1. entries[key][idx] # "ABSENT" /\ entries' = [entries EXCEPT ![key][idx] = "IDLE"]
      /\ fed' = fed /\ traffic' = traffic /\ fault' = fault
      /\ asserting' = asserting /\ aborted' = aborted /\ entries[key][idx] = "ACTIVE"
    BY DEF Deactivate, buildVars
<1>2. Typed([entries EXCEPT ![key][idx] = "IDLE"]) /\ FedEntries([entries EXCEPT ![key][idx] = "IDLE"], fed)
    <2>1. "IDLE" \in Sub
        BY DEF Sub
    <2>2. QED BY <2>1, <1>1, FedEntriesEdited DEF FlowsInv
<1>3. ~asserting
    BY <1>1 DEF FlowsInv, NewSubEntry
<1>4. QED BY <1>1, <1>2, <1>3 DEF FlowsInv

-----------------------------------------------------------------------------

LEMMA AnalyzerStarts == ASSUME AnalyzerInit PROVE AnalyzerIInv
<1>1. LifeInv
    <2>1. Started = {}
        BY DEF AnalyzerInit, Started
    <2>2. nInstances = 0 /\ up = FALSE /\ overcounted = {} /\ Cardinality({}) = 0
        BY FS_EmptySet DEF AnalyzerInit
    <2>3. phase \in [Analyzers -> Phases]
        BY DEF AnalyzerInit, Phases
    <2>4. up \in BOOLEAN /\ (up <=> nInstances >= 1)
        <3>1. ~(nInstances >= 1)
            BY <2>2
        <3>2. QED BY <3>1, <2>2, Zenon
    <2>5. nInstances = Cardinality(Started) - Cardinality(overcounted)
        BY <2>1, <2>2
    <2>6. QED BY <2>2, <2>3, <2>4, <2>5 DEF LifeInv
<1>2. ClockInv
    BY SubSecAssumption DEF AnalyzerInit, ClockInv, Armed, NotArmed, Normal, Zero
<1>3. FlowsInv
    <2>1. DOMAIN entries = {} /\ IsFiniteSet({})
        BY FS_EmptySet DEF AnalyzerInit
    <2>2. Typed(entries) /\ FedEntries(entries, fed)
        BY <2>1 DEF FedEntries, Typed
    <2>3. QED BY <2>1, <2>2 DEF AnalyzerInit, FlowsInv
<1>4. QED BY <1>1, <1>2, <1>3 DEF AnalyzerIInv

LEMMA AnalyzerKeeps == ASSUME AnalyzerIInv, [AnalyzerNext]_analyzerVars PROVE AnalyzerIInv'
<1>1. LifeInv /\ ClockInv /\ FlowsInv
    BY DEF AnalyzerIInv
<1>2. ASSUME NEW a \in Analyzers, Start(a) \/ Stop(a) \/ Release(a) PROVE AnalyzerIInv'
    <2>1. UNCHANGED clockVars /\ UNCHANGED <<entries, fault, traffic, fed>> /\ UNCHANGED buildVars
        BY <1>2 DEF Start, Stop, Release, CountDown
    <2>2. QED BY <1>1, <1>2, <2>1, LifeKeeps, ClockStays, FlowsStay DEF AnalyzerIInv
<1>3. ASSUME NEW i \in Intervals, SetResultOutputCallback(i) PROVE AnalyzerIInv'
    <2>1. UNCHANGED lifeVars /\ UNCHANGED <<entries, fault, traffic, fed>> /\ UNCHANGED buildVars
        BY <1>3 DEF SetResultOutputCallback
    <2>2. QED BY <1>1, <1>3, <2>1, LifeStays, IntervalKeeps, FlowsStay DEF AnalyzerIInv
<1>4. ASSUME NEW t \in Timestamps, ProcessTime(t) PROVE AnalyzerIInv'
    <2>1. UNCHANGED lifeVars /\ UNCHANGED <<entries, fault, traffic, fed>> /\ UNCHANGED buildVars
        BY <1>4 DEF ProcessTime
    <2>2. ClockInv'
        BY <1>1, <1>4, ClockKeeps DEF ProcessTime
    <2>3. QED BY <1>1, <2>1, <2>2, LifeStays, FlowsStay DEF AnalyzerIInv
<1>5. ASSUME NEW t \in Timestamps, NEW frame \in traffic, FeedPacket(frame, t) PROVE AnalyzerIInv'
    <2>1. UNCHANGED lifeVars /\ UNCHANGED <<traffic, asserting>>
        BY <1>5 DEF FeedPacket
    <2>2. ClockInv'
        BY <1>1, <1>5, ClockKeeps DEF FeedPacket
    <2>3. \/ UNCHANGED <<entries, fault, fed, aborted>>
          \/ IndicatePacket(frame, ParseFrame(frame))
        BY <1>5 DEF FeedPacket
    <2>4. FlowsInv'
        BY <1>1, <2>1, <2>3, FlowsStay, FeedKeeps DEF buildVars
    <2>5. QED BY <1>1, <2>1, <2>2, <2>4, LifeStays DEF AnalyzerIInv
<1>6. ASSUME NEW key \in DOMAIN entries, NEW idx \in {1, 2}, Deactivate(key, idx) PROVE AnalyzerIInv'
    <2>1. UNCHANGED lifeVars /\ UNCHANGED clockVars
        BY <1>6 DEF Deactivate
    <2>2. QED BY <1>1, <1>6, <2>1, LifeStays, ClockStays, DeactivateKeeps DEF AnalyzerIInv
<1>7. CASE UNCHANGED analyzerVars
    <2>1. UNCHANGED lifeVars /\ UNCHANGED clockVars /\ UNCHANGED <<entries, fault, traffic, fed>>
          /\ UNCHANGED buildVars
        BY <1>7 DEF analyzerVars
    <2>2. QED BY <1>1, <2>1, LifeStays, ClockStays, FlowsStay DEF AnalyzerIInv
<1>8. QED BY <1>2, <1>3, <1>4, <1>5, <1>6, <1>7 DEF AnalyzerNext

\* The life of MQmon, the clock of the outputs and the flows of the tables, at
\* every step of the analyzers.
THEOREM AnalyzerInvariant == AnalyzerSpec => []AnalyzerIInv
<1>1. AnalyzerInit => AnalyzerIInv
    BY AnalyzerStarts
<1>2. AnalyzerIInv /\ [AnalyzerNext]_analyzerVars => AnalyzerIInv'
    BY AnalyzerKeeps
<1>3. QED BY <1>1, <1>2, PTL DEF AnalyzerSpec

\* AnalyzerInv: the count of the instances is what starts, stops and releases
\* make it, MQmon is up just while an analyzer works until one is counted down
\* twice, and the handler finds the flow of every packet that activates a
\* stream, which a build with assertions never completes.
THEOREM AnalyzerInvHolds == AnalyzerSpec => []AnalyzerInv
<1>1. AnalyzerIInv => AnalyzerInv
    <2> SUFFICES ASSUME AnalyzerIInv PROVE AnalyzerInv
        OBVIOUS
    <2>1. LifeInv /\ ClockInv /\ FlowsInv
        BY DEF AnalyzerIInv
    <2>2. InstancesCounted /\ UpWhileWorking
        <3>1. nInstances = Cardinality(Started) - Cardinality(overcounted) /\ (up <=> nInstances >= 1)
            BY <2>1 DEF LifeInv
        <3>2. Started # {} <=> \E a \in Analyzers : phase[a] = "STARTED"
            BY DEF Started
        <3>3. Cardinality(Started) \in Nat /\ (Cardinality(Started) = 0 <=> Started = {})
              /\ Cardinality(overcounted) \in Nat /\ (overcounted = {} => Cardinality(overcounted) = 0)
            BY <2>1, StartedFinite, OvercountedFinite, FS_EmptySet
        <3>4. UpWhileWorking
            BY <3>1, <3>2, <3>3 DEF UpWhileWorking
        <3>5. QED BY <3>1, <3>4 DEF InstancesCounted, Started
    <2>3. ActivationFindsFlow
        BY <2>1 DEF FlowsInv, FedEntries, ActivationFindsFlow
    <2>4. AnalyzerTypeOK
        <3>1. nInstances \in Int /\ overcounted \subseteq Analyzers
            BY <2>1, StartedFinite, OvercountedFinite DEF LifeInv
        <3>2. sampleEnd \in [sec: Nat, nsec: 0..(SubSec - 1)]
              /\ interval \in Intervals \cup {0}
              /\ armed \in [at: Timestamps \cup {0}, span: Intervals \cup {0}]
            BY <2>1 DEF ClockInv, Normal, Armed
        <3>3. \A k \in DOMAIN entries : k.table \in {"NONE", "GTP", "GRE"} /\
                  entries[k] \in {"ABSENT", "IDLE", "ACTIVE"} \X {"ABSENT", "IDLE", "ACTIVE"}
            BY <2>1 DEF FlowsInv, Typed, Tables, Sub
        <3>4. phase \in [Analyzers -> {"NEW", "STARTED", "STOPPED", "RELEASED"}] /\ up \in BOOLEAN
            BY <2>1 DEF LifeInv, Phases
        <3>5. fault \in BOOLEAN /\ fed \subseteq traffic /\ asserting \in BOOLEAN /\ aborted \in BOOLEAN
            BY <2>1 DEF FlowsInv
        <3>6. QED BY <3>1, <3>2, <3>3, <3>4, <3>5 DEF AnalyzerTypeOK
    <2>5. QED BY <2>2, <2>3, <2>4 DEF AnalyzerInv
<1>2. QED BY <1>1, AnalyzerInvariant, PTL

-----------------------------------------------------------------------------

(***************************************************************************)
(* The analyzer's conversations: what the parser takes for identifiers,    *)
(* addresses and ports is what the headers say, and the keys made of it    *)
(* tell two frames apart as their headers do.                              *)
(***************************************************************************)

\* What a header adds to the identifiers.
Own(h) ==
    CASE h.is = "VLAN" -> <<<<"VLAN", h.id>>>>
      [] h.is = "MPLS" -> [k \in DOMAIN h.ids |-> <<"MPLS", h.ids[k]>>]
      [] OTHER -> <<>>

LEMMA OwnIds ==
    ASSUME NEW f \in AllFrames, NEW n \in 1..Len(f)
    PROVE  /\ Own(f[n]) \in Seq(Id) /\ (f[n].is \notin {"VLAN", "MPLS"} => Own(f[n]) = <<>>)
           /\ f[n].is \in {"VLAN", "MPLS"} => Own(f[n]) = TagIds(f[n])
<1>1. n \in DOMAIN f
    BY FrameAssumption DEF AllFrames
<1>2. f[n].is \in {"VLAN", "MPLS"} => Own(f[n]) = TagIds(f[n])
    BY DEF Own, TagIds
<1>3. CASE f[n].is \in {"VLAN", "MPLS"}
    <2>1. TagIds(f[n]) \in Seq(Id)
        BY <1>1, <1>3, TagIdsAre
    <2>2. QED BY <1>2, <1>3, <2>1
<1>4. CASE f[n].is \notin {"VLAN", "MPLS"}
    <2>1. Own(f[n]) = <<>>
        BY <1>4 DEF Own
    <2>2. QED BY <2>1, <1>4
<1>5. QED BY <1>3, <1>4

\* The identifiers of the first headers.
IdsUpTo(A, f, N) ==
    A = [n \in 0..N |-> IF n = 0 THEN <<>>
                        ELSE A[n - 1] \o (CASE f[n].is = "VLAN" -> <<<<"VLAN", f[n].id>>>>
                                            [] f[n].is = "MPLS" -> [k \in DOMAIN f[n].ids |-> <<"MPLS", f[n].ids[k]>>]
                                            [] OTHER -> <<>>)]

LEMMA IdsAre ==
    ASSUME NEW A, NEW f, NEW N \in Nat, IdsUpTo(A, f, N)
    PROVE  /\ A[0] = <<>>
           /\ \A n \in 1..N : A[n] = A[n - 1] \o Own(f[n])
<1>1. A[0] = <<>>
    BY DEF IdsUpTo
<1>2. ASSUME NEW n \in 1..N PROVE A[n] = A[n - 1] \o Own(f[n])
    <2>1. n \in 0..N /\ n # 0
        OBVIOUS
    <2>2. QED BY <2>1 DEF IdsUpTo, Own
<1>3. QED BY <1>1, <1>2

LEMMA IdsExist ==
    ASSUME NEW f, NEW N \in Nat
    PROVE  \E A : IdsUpTo(A, f, N)
<1> DEFINE Bad == {k \in Nat : ~\E A : IdsUpTo(A, f, k)}
<1>1. SUFFICES ASSUME Bad # {} PROVE FALSE
    OBVIOUS
<1>2. PICK m \in Bad : \A k \in Bad : m <= k
    <2>1. Bad \subseteq Nat
        OBVIOUS
    <2> HIDE DEF Bad
    <2>2. QED BY <1>1, <2>1, LeastNatural
<1>3. m # 0
    <2>1. IdsUpTo([n \in 0..0 |-> <<>>], f, 0)
        BY DEF IdsUpTo
    <2>2. QED BY <2>1
<1>4. m \in Nat /\ m - 1 \in Nat /\ m - 1 \notin Bad
    BY <1>2, <1>3
<1>5. PICK A : IdsUpTo(A, f, m - 1)
    BY <1>4
<1> DEFINE Next1(F, n) == IF n = 0 THEN <<>>
                          ELSE F[n - 1] \o (CASE f[n].is = "VLAN" -> <<<<"VLAN", f[n].id>>>>
                                              [] f[n].is = "MPLS" -> [k \in DOMAIN f[n].ids |-> <<"MPLS", f[n].ids[k]>>]
                                              [] OTHER -> <<>>)
           B == [n \in 0..m |-> IF n = m THEN Next1(A, m) ELSE A[n]]
<1>6. A = [n \in 0..(m - 1) |-> Next1(A, n)]
    BY <1>5 DEF IdsUpTo
<1>7. \A n \in 0..m : B[n] = Next1(B, n)
    <2> TAKE n \in 0..m
    <2>1. n # 0 => n - 1 \in 0..m /\ n - 1 # m
        BY <1>4
    <2>2. n # 0 => B[n - 1] = A[n - 1]
        BY <2>1
    <2>3. Next1(B, n) = Next1(A, n)
        <3> HIDE DEF B
        <3>1. QED BY <2>2
    <2> HIDE DEF Next1
    <2>4. CASE n = m
        BY <2>3, <2>4
    <2>5. CASE n # m
        <3>1. n \in 0..(m - 1)
            BY <2>5, <1>4
        <3>2. QED BY <2>3, <2>5, <3>1, <1>6
    <2>6. QED BY <2>4, <2>5
<1>8. B = [n \in 0..m |-> Next1(B, n)]
    <2>1. B = [n \in 0..m |-> B[n]]
        OBVIOUS
    <2> HIDE DEF B, Next1
    <2>2. QED BY <2>1, <1>7
<1>9. IdsUpTo(B, f, m)
    <2> HIDE DEF B
    <2>1. QED BY <1>8 DEF IdsUpTo
<1>10. QED BY <1>2, <1>9

LEMMA IdsAreTagged ==
    ASSUME NEW f \in AllFrames, NEW N \in 0..Len(f), NEW A, IdsUpTo(A, f, N)
    PROVE  \A n \in 0..N : A[n] \in Seq(Id)
<1> DEFINE Bad == {n \in 0..N : A[n] \notin Seq(Id)}
<1>1. Len(f) \in Nat /\ N \in Nat
    BY FrameAssumption DEF AllFrames
<1>2. SUFFICES ASSUME Bad # {} PROVE FALSE
    OBVIOUS
<1>3. PICK m \in Bad : \A k \in Bad : m <= k
    <2>1. Bad \subseteq Nat
        BY <1>1
    <2> HIDE DEF Bad
    <2>2. QED BY <1>2, <2>1, LeastNatural
<1>4. A[0] = <<>> /\ \A n \in 1..N : A[n] = A[n - 1] \o Own(f[n])
    BY <1>1, IdsAre
<1>5. m # 0
    <2>1. <<>> \in Seq(Id)
        OBVIOUS
    <2>2. QED BY <2>1, <1>3, <1>4
<1>6. m \in 1..N /\ m \in 1..Len(f) /\ m - 1 \in 0..N /\ ~(m <= m - 1)
    BY <1>1, <1>3, <1>5
<1>7. A[m - 1] \in Seq(Id)
    BY <1>3, <1>6
<1>8. Own(f[m]) \in Seq(Id)
    BY <1>6, OwnIds
<1>9. A[m] \in Seq(Id)
    <2>1. \A s, t \in Seq(Id) : s \o t \in Seq(Id)
        OBVIOUS
    <2>2. A[m] = A[m - 1] \o Own(f[m])
        BY <1>4, <1>6
    <2>3. QED BY ONLY <2>1, <2>2, <1>7, <1>8
<1>10. QED BY <1>3, <1>9

LEMMA IdentifiersAre ==
    ASSUME NEW f, FirstIp(f) \in Nat
    PROVE  \E A : IdsUpTo(A, f, FirstIp(f)) /\ Identifiers(f) = A[FirstIp(f)]
<1> DEFINE N == FirstIp(f)
           ids[n \in 0..FirstIp(f)] ==
            IF n = 0 THEN <<>>
            ELSE ids[n - 1] \o (CASE f[n].is = "VLAN" -> <<<<"VLAN", f[n].id>>>>
                                  [] f[n].is = "MPLS" -> [k \in DOMAIN f[n].ids |-> <<"MPLS", f[n].ids[k]>>]
                                  [] OTHER -> <<>>)
<1>1. Identifiers(f) = ids[N]
    BY DEF Identifiers
<1>2. ids = CHOOSE A : A = [n \in 0..N |->
            IF n = 0 THEN <<>>
            ELSE A[n - 1] \o (CASE f[n].is = "VLAN" -> <<<<"VLAN", f[n].id>>>>
                                [] f[n].is = "MPLS" -> [k \in DOMAIN f[n].ids |-> <<"MPLS", f[n].ids[k]>>]
                                [] OTHER -> <<>>)]
    BY DEF ids
<1>3. N \in Nat
    OBVIOUS
<1> HIDE DEF ids, N
<1>4. IdsUpTo(ids, f, N)
    <2>1. PICK A : IdsUpTo(A, f, N)
        BY <1>3, IdsExist
    <2>2. A = [n \in 0..N |->
            IF n = 0 THEN <<>>
            ELSE A[n - 1] \o (CASE f[n].is = "VLAN" -> <<<<"VLAN", f[n].id>>>>
                                [] f[n].is = "MPLS" -> [k \in DOMAIN f[n].ids |-> <<"MPLS", f[n].ids[k]>>]
                                [] OTHER -> <<>>)]
        BY <2>1 DEF IdsUpTo
    <2>3. ids = [n \in 0..N |->
            IF n = 0 THEN <<>>
            ELSE ids[n - 1] \o (CASE f[n].is = "VLAN" -> <<<<"VLAN", f[n].id>>>>
                                  [] f[n].is = "MPLS" -> [k \in DOMAIN f[n].ids |-> <<"MPLS", f[n].ids[k]>>]
                                  [] OTHER -> <<>>)]
        BY <2>2, <1>2
    <2>4. QED BY <2>3 DEF IdsUpTo
<1>5. QED BY <1>1, <1>4 DEF N

LEMMA FirstIpIs ==
    ASSUME NEW f \in AllFrames, NEW n \in 1..Len(f), IsIp(f[n]), \A j \in 1..(n - 1) : ~IsIp(f[j])
    PROVE  FirstIp(f) = n
<1>1. Len(f) \in Nat /\ DOMAIN f = 1..Len(f)
    BY FrameAssumption DEF AllFrames
<1> DEFINE First(i) == IsIp(f[i]) /\ \A j \in 1..(i - 1) : ~IsIp(f[j])
<1>2. FirstIp(f) = CHOOSE i \in DOMAIN f : First(i)
    BY DEF FirstIp
<1>3. n \in DOMAIN f /\ First(n)
    BY <1>1
<1>4. ASSUME NEW i \in DOMAIN f, First(i) PROVE i = n
    <2>1. ~(i \in 1..(n - 1)) /\ ~(n \in 1..(i - 1))
        BY <1>3, <1>4
    <2>2. QED BY <2>1, <1>1
<1> HIDE DEF First
<1>5. QED BY <1>2, <1>3, <1>4

\* A scan that ends at the first IP header has found the identifiers in front
\* of it, and no IP header on the way.
Ends(scan, i, N) == scan[i].ok /\ scan[i].next = N

Found(A, f, scan, N, i) ==
    Ends(scan, i, N) =>
        /\ i <= N /\ A[N] = A[i - 1] \o scan[i].ids
        /\ \A j \in i..(N - 1) : ~IsIp(f[j])

LEMMA ScanFinds ==
    ASSUME NEW f \in AllFrames, NEW scan, ScansLast(scan, f, Len(f)),
           \A i \in 1..(Len(f) + 1) : Scanned(scan, f, i),
           \A i \in DOMAIN f : LooksIp(f[i]) <=> IsIp(f[i]),
           NEW N \in 1..Len(f), IsIp(f[N]), NEW A, IdsUpTo(A, f, N)
    PROVE  \A i \in 1..(Len(f) + 1) : Found(A, f, scan, N, i)
<1> DEFINE L == Len(f)
           Bad == {k \in 0..L : ~Found(A, f, scan, N, L + 1 - k)}
<1>1. L \in Nat /\ DOMAIN f = 1..L /\ N \in 1..L /\ N \in Nat /\ N \in 0..L
    BY FrameAssumption DEF AllFrames
<1>2. /\ A[0] = <<>> /\ \A n \in 1..N : A[n] = A[n - 1] \o Own(f[n])
      /\ \A n \in 0..N : A[n] \in Seq(Id)
    BY <1>1, IdsAre, IdsAreTagged
<1>3. scan = [i \in 1..(L + 1) |-> TagStep(scan, f, i)]
    BY <1>1 DEF ScansLast
<1>4. f[N].is \notin {"VLAN", "MPLS"} /\ Own(f[N]) = <<>>
    BY <1>1, OwnIds DEF IsIp
<1>5. \A s \in Seq(Id) : s \o <<>> = s /\ <<>> \o s = s
    OBVIOUS
<1>6. ASSUME NEW s \in Seq(Id), NEW t \in Seq(Id), NEW u \in Seq(Id)
      PROVE  (s \o t) \o u = s \o (t \o u)
    BY ONLY ConcatAssociative, SMTT(20)
<1>7. ASSUME NEW i \in 1..(L + 1), i <= L => Found(A, f, scan, N, i + 1), i < L => Found(A, f, scan, N, i + 2)
      PROVE  Found(A, f, scan, N, i)
    <2> SUFFICES ASSUME scan[i].ok, scan[i].next = N
                 PROVE  /\ i <= N /\ A[N] = A[i - 1] \o scan[i].ids
                        /\ \A j \in i..(N - 1) : ~IsIp(f[j])
        BY DEF Found, Ends
    <2>0. scan[i] = TagStep(scan, f, i)
        BY <1>3
    <2>1. i <= L
        <3> SUFFICES ASSUME ~(i <= L) PROVE FALSE
            OBVIOUS
        <3>1. i > L /\ i # N
            BY <1>1
        <3>2. scan[i] = [ids |-> <<>>, next |-> i, ok |-> TRUE]
            BY <2>0, <3>1 DEF TagStep
        <3>3. QED BY <3>1, <3>2
    <2>2. ~(i > L) /\ i \in 1..L /\ i \in DOMAIN f
        BY <1>1, <2>1
    <2>3. CASE f[i].is = "VLAN"
        <3>1. Scanned(scan, f, i + 1) /\ Found(A, f, scan, N, i + 1)
            BY <1>1, <1>7, <2>1
        <3>2. scan[i] = [scan[i + 1] EXCEPT !.ids = TagIds(f[i]) \o @]
            BY <2>0, <2>2, <2>3 DEF TagStep
        <3>3. scan[i].ok = scan[i + 1].ok /\ scan[i].next = scan[i + 1].next
              /\ scan[i].ids = Own(f[i]) \o scan[i + 1].ids
            BY <3>1, <3>2, <2>2, <2>3, OwnIds DEF Scanned
        <3>4. i + 1 <= N /\ A[N] = A[i + 1 - 1] \o scan[i + 1].ids /\ \A j \in (i + 1)..(N - 1) : ~IsIp(f[j])
            <4>1. PICK k : k = i + 1 /\ k - 1 = i + 1 - 1
                BY <1>1
            <4>2. Ends(scan, k, N)
                BY <3>3, <4>1 DEF Ends
            <4>3. Found(A, f, scan, N, k)
                BY <3>1, <4>1
            <4>4. k <= N /\ A[N] = A[k - 1] \o scan[k].ids /\ \A j \in k..(N - 1) : ~IsIp(f[j])
                BY ONLY <4>2, <4>3 DEF Found
            <4>5. A[N] = A[i + 1 - 1] \o scan[i + 1].ids
                BY ONLY <4>1, <4>4
            <4>6. QED BY <4>1, <4>4, <4>5
        <3>5. i \in 1..N /\ i - 1 \in 0..N /\ i + 1 - 1 = i
            BY <1>1, <2>2, <3>4
        <3>6. A[N] = (A[i - 1] \o Own(f[i])) \o scan[i + 1].ids
            BY <1>2, <3>4, <3>5
        <3>7. A[i - 1] \in Seq(Id) /\ Own(f[i]) \in Seq(Id) /\ scan[i + 1].ids \in Seq(Id)
            BY <1>2, <2>2, <3>1, <3>5, OwnIds DEF Scanned
        <3>8. A[N] = A[i - 1] \o scan[i].ids
            <4>1. (A[i - 1] \o Own(f[i])) \o scan[i + 1].ids = A[i - 1] \o (Own(f[i]) \o scan[i + 1].ids)
                BY <1>6, <3>7, Zenon
            <4>2. QED BY ONLY <3>3, <3>6, <4>1, Zenon
        <3>9. ~IsIp(f[i]) /\ \A j \in i..(N - 1) : j = i \/ j \in (i + 1)..(N - 1)
            BY <2>3, <2>2, <1>1 DEF IsIp
        <3>10. QED BY <3>4, <3>5, <3>8, <3>9
    <2>4. CASE f[i].is = "MPLS" /\ ~LooksIp(f[i + 1])
        <3>0. i < L
            BY <2>4, <2>2, FrameAssumption DEF AllFrames
        <3>1. Scanned(scan, f, i + 2) /\ Found(A, f, scan, N, i + 2) /\ i + 1 \in 1..L
            BY <1>1, <1>7, <3>0
        <3>2. scan[i] = [scan[i + 2] EXCEPT !.ids = TagIds(f[i]) \o @]
            BY <2>0, <2>2, <2>4 DEF TagStep
        <3>3. scan[i].ok = scan[i + 2].ok /\ scan[i].next = scan[i + 2].next
              /\ scan[i].ids = Own(f[i]) \o scan[i + 2].ids
            BY <3>1, <3>2, <2>2, <2>4, OwnIds DEF Scanned
        <3>4. i + 2 <= N /\ A[N] = A[i + 2 - 1] \o scan[i + 2].ids /\ \A j \in (i + 2)..(N - 1) : ~IsIp(f[j])
            <4>1. PICK k : k = i + 2 /\ k - 1 = i + 2 - 1
                BY <1>1
            <4>2. Ends(scan, k, N)
                BY <3>3, <4>1 DEF Ends
            <4>3. Found(A, f, scan, N, k)
                BY <3>1, <4>1
            <4>4. k <= N /\ A[N] = A[k - 1] \o scan[k].ids /\ \A j \in k..(N - 1) : ~IsIp(f[j])
                BY ONLY <4>2, <4>3 DEF Found
            <4>5. A[N] = A[i + 2 - 1] \o scan[i + 2].ids
                BY ONLY <4>1, <4>4
            <4>6. QED BY <4>1, <4>4, <4>5
        <3>5. i \in 1..N /\ i - 1 \in 0..N /\ i + 2 - 1 = i + 1 /\ i + 1 \in 1..N /\ i + 1 - 1 = i
            BY <1>1, <2>2, <3>4
        <3>6. Own(f[i + 1]) = <<>>
            <4>1. f[i + 1].is \notin {"VLAN", "MPLS"}
                BY <2>2, <2>4, GrammarAssumption DEF AllFrames
            <4>2. QED BY <4>1, <3>1, OwnIds
        <3>7. A[i - 1] \in Seq(Id) /\ Own(f[i]) \in Seq(Id) /\ scan[i + 2].ids \in Seq(Id) /\ A[i] \in Seq(Id)
            <4>1. A[i - 1] \in Seq(Id) /\ A[i] \in Seq(Id)
                <5>1. i \in 0..N /\ i - 1 \in 0..N
                    BY <3>5, <1>1
                <5>2. QED BY <1>2, <5>1
            <4>2. scan[i + 2].ids \in Seq(Id)
                BY <3>1 DEF Scanned
            <4>3. QED BY <4>1, <4>2, <2>2, OwnIds
        <3>8. A[i + 1] = A[i] /\ A[i] = A[i - 1] \o Own(f[i])
            <4>1. A[i + 1] = A[i] \o Own(f[i + 1]) /\ A[i] = A[i - 1] \o Own(f[i])
                <5>1. \A n \in 1..N : A[n] = A[n - 1] \o Own(f[n])
                    BY <1>2
                <5>2. A[i + 1] = A[i] \o Own(f[i + 1])
                    <6>1. PICK k \in 1..N : k = i + 1 /\ k - 1 = i
                        BY <3>5
                    <6>2. QED BY ONLY <5>1, <6>1
                <5>3. A[i] = A[i - 1] \o Own(f[i])
                    BY ONLY <5>1, <3>5, Zenon
                <5>4. QED BY ONLY <5>2, <5>3, <3>5, Zenon
            <4>2. A[i] \o <<>> = A[i]
                BY <1>5, <3>7
            <4>3. QED BY ONLY <3>6, <4>1, <4>2, Zenon
        <3>9. A[N] = A[i - 1] \o scan[i].ids
            <4>1. A[N] = (A[i - 1] \o Own(f[i])) \o scan[i + 2].ids
                BY <3>4, <3>5, <3>8
            <4>2. (A[i - 1] \o Own(f[i])) \o scan[i + 2].ids = A[i - 1] \o (Own(f[i]) \o scan[i + 2].ids)
                BY <1>6, <3>7, Zenon
            <4>3. QED BY ONLY <3>3, <4>1, <4>2, Zenon
        <3>10. ~IsIp(f[i]) /\ \A j \in i..(N - 1) : j = i \/ j = i + 1 \/ j \in (i + 2)..(N - 1)
            BY <2>4, <2>2, <1>1 DEF IsIp
        <3>11. ~IsIp(f[i + 1])
            BY <2>4, <3>1, <1>1
        <3>12. QED BY <3>4, <3>5, <3>9, <3>10, <3>11
    <2>5. CASE f[i].is # "VLAN" /\ ~(f[i].is = "MPLS" /\ ~LooksIp(f[i + 1]))
        <3>1. \/ f[i].is = "MPLS" /\ TagStep(scan, f, i) = [ids |-> TagIds(f[i]), next |-> i + 1, ok |-> TRUE]
              \/ f[i].is \in {"PPPOE", "ETHER"} /\ TagStep(scan, f, i) = [ids |-> <<>>, next |-> i + 1, ok |-> TRUE]
              \/ TagStep(scan, f, i) = [ids |-> <<>>, next |-> i, ok |-> FALSE]
            BY <2>2, <2>5 DEF TagStep
        <3>2. /\ i + 1 = N /\ scan[i].ids = Own(f[i])
              /\ f[i].is \in {"MPLS", "PPPOE", "ETHER"}
            <4>1. CASE f[i].is = "MPLS" /\ TagStep(scan, f, i) = [ids |-> TagIds(f[i]), next |-> i + 1, ok |-> TRUE]
                BY <2>0, <2>2, <4>1, OwnIds
            <4>2. CASE f[i].is \in {"PPPOE", "ETHER"} /\ TagStep(scan, f, i) = [ids |-> <<>>, next |-> i + 1, ok |-> TRUE]
                BY <2>0, <4>2 DEF Own
            <4>3. CASE TagStep(scan, f, i) = [ids |-> <<>>, next |-> i, ok |-> FALSE]
                BY <2>0, <4>3
            <4>4. QED BY <3>1, <4>1, <4>2, <4>3
        <3>3. i \in 1..N /\ i - 1 \in 0..N /\ N - 1 = i
            BY <1>1, <2>2, <3>2
        <3>4. A[N] = A[N - 1] \o <<>> /\ A[i] = A[i - 1] \o Own(f[i]) /\ A[i] \in Seq(Id)
            <4>1. N \in 1..N /\ i \in 0..N
                BY <1>1, <3>3
            <4>2. A[N] = A[N - 1] \o Own(f[N]) /\ A[i] = A[i - 1] \o Own(f[i]) /\ A[i] \in Seq(Id)
                BY <1>2, <3>3, <4>1
            <4>3. QED BY <1>4, <4>2
        <3>5. A[N] = A[i - 1] \o scan[i].ids
            BY <1>5, <3>2, <3>3, <3>4
        <3>6. \A j \in i..(N - 1) : j = i
            BY <3>3
        <3>7. QED BY <3>2, <3>3, <3>5, <3>6 DEF IsIp
    <2>6. QED BY <2>3, <2>4, <2>5
<1>8. Bad = {}
    <2>1. SUFFICES ASSUME Bad # {} PROVE FALSE
        OBVIOUS
    <2>2. PICK m \in Bad : \A k \in Bad : m <= k
        <3>1. Bad \subseteq Nat
            BY <1>1
        <3> HIDE DEF Bad
        <3>2. QED BY <2>1, <3>1, LeastNatural
    <2>3. m \in 0..L /\ ~Found(A, f, scan, N, L + 1 - m)
        BY <2>2
    <2> DEFINE i == L + 1 - m
    <2>4. i \in 1..(L + 1) /\ (i <= L => m - 1 \in 0..L /\ L + 1 - (m - 1) = i + 1)
          /\ (i < L => m - 2 \in 0..L /\ L + 1 - (m - 2) = i + 2)
        BY <1>1, <2>3
    <2>5. m - 1 \notin Bad /\ m - 2 \notin Bad
        <3>1. m \in Int
            BY <2>3, <1>1
        <3> HIDE DEF Bad
        <3>2. QED BY <3>1, <2>2
    <2>6. (i <= L => Found(A, f, scan, N, i + 1)) /\ (i < L => Found(A, f, scan, N, i + 2))
        <3> HIDE DEF i
        <3>1. QED BY <2>4, <2>5
    <2>7. Found(A, f, scan, N, i)
        <3> HIDE DEF i
        <3>1. QED BY <1>7, <2>4, <2>6
    <2>8. QED BY <2>3, <2>7
<1>9. ASSUME NEW i \in 1..(L + 1) PROVE Found(A, f, scan, N, i)
    <2>1. L + 1 - i \in 0..L /\ L + 1 - (L + 1 - i) = i
        BY <1>1
    <2>2. QED BY <1>8, <2>1
<1>10. QED BY <1>9

\* What looks like an IP header of a frame that can be told is one.
LEMMA ClearLooks ==
    ASSUME NEW f, Clear(f), NEW i \in DOMAIN f
    PROVE  LooksIp(f[i]) <=> IsIp(f[i])
<1>1. ~(f[i].is = "MAC" /\ LooksIp(f[i]))
    BY DEF Clear
<1>2. CASE f[i].is = "MAC"
    BY <1>1, <1>2 DEF IsIp
<1>3. CASE f[i].is # "MAC"
    BY <1>3 DEF IsIp, LooksIp, Version
<1>4. QED BY <1>2, <1>3

\* Tags that lead to an IP header are those in front of the first one.
LEMMA TagsTell ==
    ASSUME NEW f \in AllFrames, Clear(f), NEW N \in 1..Len(f), Tags(f).next = N, Tags(f).ok, IsIp(f[N])
    PROVE  FirstIp(f) = N /\ Identifiers(f) = Tags(f).ids
<1>1. PICK scan : ScansLast(scan, f, Len(f)) /\ Tags(f) = scan[1]
    BY TagsAre
<1>2. Len(f) \in Nat /\ N \in Nat /\ 1 \in 1..(Len(f) + 1)
    BY FrameAssumption DEF AllFrames
<1>3. \A i \in 1..(Len(f) + 1) : Scanned(scan, f, i)
    BY <1>1, ScansWell
<1>4. Ends(scan, 1, N)
    BY <1>1 DEF Ends
<1>5. ASSUME NEW A, IdsUpTo(A, f, N)
      PROVE  A[N] = A[0] \o scan[1].ids /\ \A j \in 1..(N - 1) : ~IsIp(f[j])
    <2>0. \A i \in DOMAIN f : LooksIp(f[i]) <=> IsIp(f[i])
        BY ClearLooks
    <2>1. Found(A, f, scan, N, 1)
        BY <1>1, <1>2, <1>3, <1>5, <2>0, ScanFinds
    <2>2. A[N] = A[1 - 1] \o scan[1].ids /\ \A j \in 1..(N - 1) : ~IsIp(f[j])
        BY ONLY <2>1, <1>4 DEF Found
    <2>3. 1 - 1 = 0
        OBVIOUS
    <2>4. QED BY ONLY <2>2, <2>3
<1>6. FirstIp(f) = N
    <2>1. PICK A : IdsUpTo(A, f, N)
        BY <1>2, IdsExist
    <2>2. QED BY <2>1, <1>5, FirstIpIs
<1>7. PICK A : IdsUpTo(A, f, N) /\ Identifiers(f) = A[N]
    BY <1>2, <1>6, IdentifiersAre
<1>8. A[0] = <<>> /\ scan[1].ids \in Seq(Id)
    BY <1>2, <1>3, <1>7, IdsAre DEF Scanned
<1>9. A[N] = scan[1].ids
    <2>1. \A s \in Seq(Id) : <<>> \o s = s
        OBVIOUS
    <2>2. A[N] = <<>> \o scan[1].ids
        BY <1>5, <1>7, <1>8
    <2>3. QED BY ONLY <2>1, <2>2, <1>8
<1>10. QED BY <1>1, <1>6, <1>7, <1>9

LEMMA KeptAll ==
    ASSUME NEW ids \in Seq(Id), Len(ids) <= MaxIds
    PROVE  Kept(ids) = ids
<1>1. Len(ids) \in Nat /\ MaxIds \in Nat
    BY LenProperties, IdsAssumption
<1>2. (IF Len(ids) < MaxIds THEN Len(ids) ELSE MaxIds) = Len(ids)
    BY <1>1
<1>3. SubSeq(ids, 1, Len(ids)) = ids
    OBVIOUS
<1>4. QED BY <1>2, <1>3 DEF Kept

Trans == {"UDP", "TCP", "SCTP"}

\* The header in front of the transport header at n of a frame that carries no
\* tunnel, or the first in a tunnel: IPv4, with addresses that are read.
SoundHeads(f, n) ==
    /\ n \in DOMAIN f /\ n + 1 \in DOMAIN f /\ f[n].is = "IP4" /\ InOctet(f, n)
    /\ f[n].src \in Nat /\ f[n].dst \in Nat
    /\ f[n].next \in Trans => f[n + 1].is = f[n].next /\ f[n + 1].ports \in Nat \X Nat

\* An accepted header of a frame that can be told is IPv4, and no fragment but
\* the first.
LEMMA ClearAccepted ==
    ASSUME NEW f \in AllFrames, Clear(f), NEW n \in DOMAIN f, IpAccepted(f, n)
    PROVE  /\ f[n].is = "IP4" /\ IsIp(f[n]) /\ InOctet(f, n) /\ f[n].frag \notin {"middle", "last"}
           /\ TransProto(f[n]) = f[n].next /\ TransFound(f[n])
<1>1. IsIp(f[n])
    BY ClearLooks DEF IpAccepted
<1>2. f[n].frag # "last" /\ InOctet(f, n) /\ (f[n].is = "IP6" => ~ExtensionsEnd(f[n]))
    BY <1>1 DEF Clear
<1>3. f[n].is = "IP4"
    <2>1. f[n].is = "IP6" => Version(f[n]) = 6
        BY DEF Version
    <2>2. f[n].is # "IP6"
        BY <1>2, <2>1 DEF IpAccepted
    <2>3. QED BY <1>1, <2>2 DEF IsIp
<1>4. Version(f[n]) = 4
    BY <1>3 DEF Version
<1>5. QED BY <1>1, <1>2, <1>3, <1>4 DEF IpAccepted, TransProto, TransFound

LEMMA ClearHeads ==
    ASSUME NEW f \in AllFrames, Clear(f), NEW n \in DOMAIN f, IpAccepted(f, n),
           f[n].next \in Trans \cup {"GRE"}
    PROVE  SoundHeads(f, n) /\ f[n + 1].is = f[n].next
<1>1. Len(f) \in Nat /\ DOMAIN f = 1..Len(f)
    BY FrameAssumption DEF AllFrames
<1>2. f[n].is = "IP4" /\ InOctet(f, n) /\ f[n].frag \notin {"middle", "last"} /\ LooksIp(f[n])
    BY ClearAccepted DEF IpAccepted
<1>3. n # Len(f) /\ f[n + 1].is = f[n].next
    BY <1>2, GrammarAssumption DEF AllFrames, Trans
<1>4. n + 1 \in DOMAIN f
    BY <1>1, <1>3
<1>5. f[n].src \in Nat /\ f[n].dst \in Nat
    BY <1>2, FrameAssumption DEF AllFrames
<1>6. f[n].next \in Trans => f[n + 1].ports \in Nat \X Nat
    BY <1>3, <1>4, GrammarAssumption DEF AllFrames, Trans
<1>7. QED BY <1>2, <1>3, <1>4, <1>5, <1>6 DEF SoundHeads

\* What the parser makes of an IP header whose transport header it reads.
LEMMA InfoIs ==
    ASSUME NEW f \in AllFrames, NEW n, SoundHeads(f, n), f[n].next \in Trans
    PROVE  Info(f, n) = [ip |-> n, proto |-> f[n].next, ports |-> f[n + 1].ports]
<1>1. f[n + 1].is \in Trans /\ n < Len(f)
    <2>1. DOMAIN f = 1..Len(f) /\ Len(f) \in Nat
        BY FrameAssumption DEF AllFrames
    <2>2. QED BY <2>1 DEF SoundHeads
<1>2. TransProto(f[n]) = f[n].next /\ TransFound(f[n])
    BY DEF SoundHeads, TransProto, TransFound, Version
<1>3. PortsAt(f, n) = f[n + 1].ports
    BY <1>1, <1>2 DEF PortsAt, Trans
<1>4. QED BY <1>2, <1>3 DEF Info, Trans

LEMMA InnerIpIs ==
    ASSUME NEW f \in AllFrames, FirstIp(f) \in DOMAIN f
    PROVE  /\ (\A i \in DOMAIN f : i > FirstIp(f) => ~IsIp(f[i])) => InnerIp(f) = FirstIp(f)
           /\ \A n \in DOMAIN f :
                 /\ n > FirstIp(f) /\ IsIp(f[n])
                 /\ \A i \in DOMAIN f : IsIp(f[i]) => i <= FirstIp(f) \/ i >= n
                 => InnerIp(f) = n
<1> DEFINE inner == {i \in DOMAIN f : IsIp(f[i]) /\ i > FirstIp(f)}
           Least(i) == \A j \in inner : i <= j
<1>1. Len(f) \in Nat /\ DOMAIN f = 1..Len(f)
    BY FrameAssumption DEF AllFrames
<1>2. InnerIp(f) = IF inner = {} THEN FirstIp(f) ELSE CHOOSE i \in inner : Least(i)
    BY DEF InnerIp
<1>3. (\A i \in DOMAIN f : i > FirstIp(f) => ~IsIp(f[i])) => InnerIp(f) = FirstIp(f)
    BY <1>2
<1>4. ASSUME NEW n \in DOMAIN f, n > FirstIp(f), IsIp(f[n]),
             \A i \in DOMAIN f : IsIp(f[i]) => i <= FirstIp(f) \/ i >= n
      PROVE  InnerIp(f) = n
    <2>1. n \in inner /\ \A j \in inner : n <= j
        BY <1>1, <1>4
    <2>2. \A i \in inner : Least(i) => i = n
        <3>1. ASSUME NEW i \in inner, Least(i) PROVE i = n
            <4>1. i <= n /\ n <= i
                BY <2>1, <3>1
            <4>2. i \in Nat /\ n \in Nat
                BY <1>1, <3>1
            <4>3. QED BY <4>1, <4>2
        <3>2. QED BY <3>1
    <2>3. inner # {} /\ Least(n)
        BY <2>1
    <2> HIDE DEF inner, Least
    <2>4. (CHOOSE i \in inner : Least(i)) = n
        BY <2>1, <2>2, <2>3
    <2>5. QED BY <1>2, <2>3, <2>4
<1>5. QED BY <1>3, <1>4

\* What is known of a frame whose conversation can be told, once it is parsed:
\* the parser took the same headers for it.
Plainly(f, p) ==
    /\ p.tunnel = "NONE" /\ InnerIp(f) = FirstIp(f) /\ f[FirstIp(f)].next \in Trans
    /\ p.lower = [ip |-> FirstIp(f), proto |-> f[FirstIp(f)].next, ports |-> f[FirstIp(f) + 1].ports]

InTunnel(f, p) ==
    /\ InnerIp(f) > FirstIp(f) /\ SoundHeads(f, InnerIp(f)) /\ f[InnerIp(f)].next \in Trans
    /\ p.tunnel \in {"GTP", "GRE"} /\ p.tunnel = f[InnerIp(f) - 1].is
    /\ p.tei = IF f[InnerIp(f) - 1].is = "GRE" /\ ~f[InnerIp(f) - 1].key THEN 0 ELSE f[InnerIp(f) - 1].tei
    /\ p.lower.ip = FirstIp(f)
    /\ p.upper = [ip |-> InnerIp(f), proto |-> f[InnerIp(f)].next, ports |-> f[InnerIp(f) + 1].ports]

Recognised(f, p) ==
    /\ FirstIp(f) \in DOMAIN f /\ SoundHeads(f, FirstIp(f)) /\ p.labels = Identifiers(f)
    /\ Plainly(f, p) \/ InTunnel(f, p)

\* Behind a transport header that is not for GTP there is nothing.
LEMMA NothingBehind ==
    ASSUME NEW f \in AllFrames, NEW n \in DOMAIN f, f[n].is \in Trans,
           f[n].is = "UDP" => {f[n].ports[1], f[n].ports[2]} \cap GtpPorts = {}
    PROVE  n = Len(f)
    BY GrammarAssumption DEF AllFrames, Trans

LEMMA AcceptedAbove ==
    ASSUME NEW f \in AllFrames, Clear(f), NEW n \in DOMAIN f, NEW m, m = n + 1, UpperAccepted(f, m)
    PROVE  /\ m \in DOMAIN f /\ SoundHeads(f, m) /\ f[m].next \in Trans
           /\ Info(f, m) = [ip |-> m, proto |-> f[m].next, ports |-> f[m + 1].ports]
<1>1. m \in DOMAIN f
    BY FrameAssumption DEF AllFrames, UpperAccepted, IpAccepted
<1>2. IpAccepted(f, m) /\ f[m].next \in Trans
    BY <1>1, ClearAccepted DEF UpperAccepted, Trans
<1>3. SoundHeads(f, m)
    BY <1>1, <1>2, ClearHeads
<1>4. QED BY <1>1, <1>2, <1>3, InfoIs

LEMMA ParsedTells ==
    ASSUME NEW f \in AllFrames, Clear(f), ParseFrame(f).ok
    PROVE  Recognised(f, ParseFrame(f))
<1> DEFINE L == Len(f)
           n == Tags(f).next
           labels == Kept(Tags(f).ids)
           none == [NoParse EXCEPT !.labels = labels]
           lower == Info(f, n)
           some == [none EXCEPT !.lower = lower]
           p == ParseFrame(f)
<1>1. L \in Nat /\ DOMAIN f = 1..L /\ n \in 1..(L + 1) /\ Tags(f).ids \in Seq(Id)
    BY TagsEnd, FrameAssumption DEF AllFrames
<1>2. p = IF ~Tags(f).ok \/ ~IpAccepted(f, n) THEN none ELSE ParseTrans(some, f, n)
    BY DEF ParseFrame
<1>3. ~none.ok
    BY DEF NoParse
<1>4. Tags(f).ok /\ IpAccepted(f, n) /\ p = ParseTrans(some, f, n)
    BY <1>2, <1>3
<1>5. n \in DOMAIN f /\ n \in 1..L /\ IsIp(f[n])
    <2>1. n \in DOMAIN f
        BY <1>1, <1>4 DEF IpAccepted
    <2>2. QED BY <2>1, <1>1, <1>4, ClearAccepted
<1>6. FirstIp(f) = n /\ Identifiers(f) = Tags(f).ids
    BY <1>4, <1>5, TagsTell
<1>7. labels = Identifiers(f)
    BY <1>1, <1>6, KeptAll DEF Clear
<1>0. TransProto(f[n]) = f[n].next
    BY <1>4, <1>5, ClearAccepted
<1> HIDE DEF labels, lower
<1>8. some.labels = labels /\ some.lower = lower /\ some.tunnel = "NONE" /\ ~some.ok
    BY DEF NoParse
<1> HIDE DEF some, none, labels, lower, n, p
<1>9. f[n].next \in Trans \cup {"GRE"}
    <2> SUFFICES ASSUME f[n].next \notin Trans \cup {"GRE"} PROVE FALSE
        OBVIOUS
    <2>1. ParseTrans(some, f, n) = [some EXCEPT !.ok = f[n].next \in {"UDP", "TCP", "SCTP"}]
        BY <1>0 DEF ParseTrans, Trans
    <2>2. ~[some EXCEPT !.ok = f[n].next \in {"UDP", "TCP", "SCTP"}].ok
        BY DEF Trans, NoParse, some, none
    <2>3. QED BY <2>1, <2>2, <1>4 DEF p
<1>10. SoundHeads(f, n) /\ f[n + 1].is = f[n].next
    BY <1>4, <1>5, <1>9, ClearHeads
<1>11. n + 1 \in DOMAIN f /\ n \in Nat
    BY <1>1, <1>10 DEF SoundHeads
<1>12. f[n].next \in Trans => lower = [ip |-> n, proto |-> f[n].next, ports |-> f[n + 1].ports]
    BY <1>10, InfoIs DEF lower
<1>13. lower.ip = n
    BY DEF Info, lower
<1> DEFINE gtp == f[n].next = "UDP" /\ {f[n + 1].ports[1], f[n + 1].ports[2]} \cap GtpPorts # {}
<1>14. p = IF gtp THEN ParseGTP(some, f, n + 2)
           ELSE IF f[n].next = "GRE" THEN ParseGRE(some, f, n + 1)
           ELSE [some EXCEPT !.ok = f[n].next \in {"UDP", "TCP", "SCTP"}]
    <2>1. f[n].next = "UDP" => some.lower.ports = f[n + 1].ports
        BY <1>8, <1>12 DEF Trans
    <2>2. QED BY <1>0, <1>4, <2>1 DEF ParseTrans
<1>15. CASE gtp
    <2> DEFINE m == n + 2
               q == [some EXCEPT !.tunnel = "GTP"]
               x == n + 3
    <2>1. /\ m \in DOMAIN f /\ f[m].is \in {"GTP", "DATA"}
          /\ m \in Nat /\ x = m + 1 /\ x - 1 = m
        <3>1. f[n + 1].is = "UDP" /\ n + 1 # L /\ f[n + 1 + 1].is \in {"GTP", "DATA"}
            BY <1>10, <1>11, <1>15, GrammarAssumption DEF AllFrames
        <3>2. n + 1 + 1 = m /\ m \in Nat /\ x = m + 1 /\ x - 1 = m
            BY <1>11
        <3>3. m \in DOMAIN f
            <4>1. n + 1 \in 1..L /\ n + 1 # L /\ L \in Nat /\ n \in Nat
                BY <1>1, <1>11, <3>1
            <4>2. n + 2 \in 1..L
                BY ONLY <4>1
            <4>3. QED BY <4>2, <1>1
        <3>4. QED BY ONLY <3>1, <3>2, <3>3
    <2>2. p = ParseGTP(some, f, m)
        BY <1>14, <1>15
    <2> HIDE DEF gtp, m, x
    <2>3. f[m].is = "GTP" /\ f[m].msg = "GPDU"
        <3> SUFFICES ASSUME ~(f[m].is = "GTP" /\ f[m].msg = "GPDU") PROVE FALSE
            OBVIOUS
        <3>1. m = L
            BY <2>1, GrammarAssumption DEF AllFrames
        <3>2. QED BY <3>1, <2>1 DEF Clear
    <2>4. ~q.ok
        BY DEF NoParse, some, none
    <2>5. UpperAccepted(f, m + 1) /\ p = [q EXCEPT !.tei = f[m].tei, !.upper = Info(f, m + 1), !.ok = TRUE]
        <3> DEFINE stuck == f[m].extra > GtpOptions /\ Offset(f, m) + 8 + f[m].extra > 255
        <3>0. ~(m > L)
            BY <2>1, <1>1
        <3>1. ParseGTP(some, f, m) =
                 IF stuck \/ ~UpperAccepted(f, m + 1) THEN q
                 ELSE [q EXCEPT !.tei = f[m].tei, !.upper = Info(f, m + 1), !.ok = TRUE]
            BY <2>3, <3>0 DEF ParseGTP
        <3> HIDE DEF q, stuck
        <3>2. QED BY <2>2, <2>4, <3>1 DEF p
    <2>6. /\ x \in DOMAIN f /\ SoundHeads(f, x) /\ f[x].next \in Trans
          /\ Info(f, x) = [ip |-> x, proto |-> f[x].next, ports |-> f[x + 1].ports]
        BY <2>1, <2>5, AcceptedAbove
    <2>7. InnerIp(f) = x
        <3>1. ~IsIp(f[n + 1]) /\ ~IsIp(f[m])
            <4>1. f[n + 1].is = "UDP"
                BY <1>10, <1>15 DEF gtp
            <4>2. QED BY <4>1, <2>1 DEF IsIp
        <3>2. \A i \in DOMAIN f : i <= n \/ i = n + 1 \/ i = m \/ i >= x
            BY <1>1, <1>11 DEF m, x
        <3>3. x > n
            BY <1>11 DEF x
        <3>4. \A i \in DOMAIN f : IsIp(f[i]) => i <= n \/ i >= x
            BY <3>1, <3>2
        <3>5. IsIp(f[x])
            BY <2>6 DEF SoundHeads, IsIp
        <3>6. QED BY <1>5, <1>6, <2>6, <3>3, <3>4, <3>5, InnerIpIs
    <2>8. /\ p.labels = labels /\ p.lower = lower /\ p.tunnel = "GTP" /\ p.tei = f[m].tei
          /\ p.upper = Info(f, m + 1)
        BY <2>5 DEF NoParse, some, none
    <2>9. f[x - 1].is = "GTP" /\ x > n
        BY <1>11, <2>1, <2>3 DEF x
    <2>10. p.tei = IF f[x - 1].is = "GRE" /\ ~f[x - 1].key THEN 0 ELSE f[x - 1].tei
        BY <2>1, <2>8, <2>9
    <2>11. InTunnel(f, p)
        BY <1>6, <1>13, <2>1, <2>6, <2>7, <2>8, <2>9, <2>10 DEF InTunnel
    <2>12. QED BY <1>5, <1>6, <1>7, <1>10, <2>8, <2>11 DEF Recognised, p
<1>16. CASE ~gtp /\ f[n].next = "GRE"
    <2> DEFINE m == n + 1
               q == [some EXCEPT !.tunnel = "GRE"]
               x == n + 2
    <2>1. /\ m \in DOMAIN f /\ f[m].is = "GRE"
          /\ m \in Nat /\ x = m + 1 /\ x - 1 = m
        BY <1>10, <1>11, <1>16
    <2>2. p = ParseGRE(some, f, m)
        BY <1>14, <1>16
    <2> HIDE DEF gtp, m, x
    <2>4. ~q.ok
        BY DEF NoParse, some, none
    <2>5. UpperAccepted(f, m + 1) 
          /\ p = [q EXCEPT !.tei = IF f[m].key THEN f[m].tei ELSE 0, !.upper = Info(f, m + 1), !.ok = TRUE]
        <3>0. ~(m > L)
            BY <2>1, <1>1
        <3>1. ParseGRE(some, f, m) =
                 IF f[m].routing \/ ~UpperAccepted(f, m + 1) THEN q
                 ELSE [q EXCEPT !.tei = IF f[m].key THEN f[m].tei ELSE 0, !.upper = Info(f, m + 1), !.ok = TRUE]
            BY <2>1, <3>0 DEF ParseGRE
        <3> HIDE DEF q
        <3>2. QED BY <2>2, <2>4, <3>1 DEF p
    <2>6. /\ x \in DOMAIN f /\ SoundHeads(f, x) /\ f[x].next \in Trans
          /\ Info(f, x) = [ip |-> x, proto |-> f[x].next, ports |-> f[x + 1].ports]
        BY <2>1, <2>5, AcceptedAbove
    <2>7. InnerIp(f) = x
        <3>1. ~IsIp(f[m])
            BY <2>1 DEF IsIp
        <3>2. \A i \in DOMAIN f : i <= n \/ i = m \/ i >= x
            BY <1>1, <1>11 DEF m, x
        <3>3. x > n
            BY <1>11 DEF x
        <3>4. \A i \in DOMAIN f : IsIp(f[i]) => i <= n \/ i >= x
            BY <3>1, <3>2
        <3>5. IsIp(f[x])
            BY <2>6 DEF SoundHeads, IsIp
        <3>6. QED BY <1>5, <1>6, <2>6, <3>3, <3>4, <3>5, InnerIpIs
    <2>8. /\ p.labels = labels /\ p.lower = lower /\ p.tunnel = "GRE"
          /\ p.tei = (IF f[m].key THEN f[m].tei ELSE 0)
          /\ p.upper = Info(f, m + 1)
        BY <2>5 DEF NoParse, some, none
    <2>9. f[x - 1].is = "GRE" /\ x > n
        BY <1>11, <2>1 DEF x
    <2>10. p.tei = IF f[x - 1].is = "GRE" /\ ~f[x - 1].key THEN 0 ELSE f[x - 1].tei
        BY <2>1, <2>8, <2>9
    <2>11. InTunnel(f, p)
        BY <1>6, <1>13, <2>1, <2>6, <2>7, <2>8, <2>9, <2>10 DEF InTunnel
    <2>12. QED BY <1>5, <1>6, <1>7, <1>10, <2>8, <2>11 DEF Recognised, p
<1>17. CASE ~gtp /\ f[n].next # "GRE"
    <2>1. f[n].next \in Trans /\ p = [some EXCEPT !.ok = f[n].next \in {"UDP", "TCP", "SCTP"}]
        BY <1>9, <1>14, <1>17
    <2>2. p.labels = labels /\ p.lower = lower /\ p.tunnel = "NONE"
        BY <2>1 DEF NoParse, some, none
    <2>3. n + 1 = L
        BY <1>10, <1>11, <1>17, <2>1, NothingBehind
    <2>4. \A i \in DOMAIN f : i > n => ~IsIp(f[i])
        <3>1. \A i \in DOMAIN f : i > n => i = n + 1
            BY <1>1, <1>11, <2>3
        <3>2. ~IsIp(f[n + 1])
            BY <1>10, <2>1 DEF IsIp, Trans
        <3>3. QED BY <3>1, <3>2
    <2>5. InnerIp(f) = FirstIp(f)
        BY <1>5, <1>6, <2>4, InnerIpIs
    <2>6. Plainly(f, p)
        BY <1>6, <1>12, <2>1, <2>2, <2>5 DEF Plainly
    <2>7. QED BY <1>5, <1>6, <1>7, <1>10, <2>2, <2>6 DEF Recognised, p
<1>18. QED BY <1>15, <1>16, <1>17

\* The two orders of a pair of endpoints agree on the smaller address first.
LEMMA AddressesRead ==
    ASSUME NEW f, NEW info, SoundHeads(f, info.ip), info.ip # 0
    PROVE  Addresses(f, info) = <<f[info.ip].src, f[info.ip].dst>>
    BY DEF SoundHeads, Addresses

\* Two endpoints with different addresses, as a set and sorted by address.
SortedEnds(x, y, s, d) == IF x > y THEN <<y, x, d, s>> ELSE <<x, y, s, d>>

LEMMA EndsSorted ==
    ASSUME NEW x \in Nat, NEW y \in Nat, NEW s, NEW d, x # y,
           NEW u \in Nat, NEW v \in Nat, NEW r, NEW e, u # v
    PROVE  /\ SortedEnds(x, y, s, d) = SortedEnds(u, v, r, e)
                  <=> {<<x, s>>, <<y, d>>} = {<<u, r>>, <<v, e>>}
           /\ SortedEnds(x, y, s, d) = SortedEnds(u, v, r, e) =>
                  ((x > y <=> u > v) <=> <<<<x, s>>, <<y, d>>>> = <<<<u, r>>, <<v, e>>>>)
<1>1. {<<x, s>>, <<y, d>>} = {<<u, r>>, <<v, e>>} <=>
          \/ x = u /\ s = r /\ y = v /\ d = e
          \/ x = v /\ s = e /\ y = u /\ d = r
    <2> DEFINE a == <<x, s>>
               b == <<y, d>>
               c == <<u, r>>
               g == <<v, e>>
    <2>1. a # b /\ c # g
        OBVIOUS
    <2>2. (a = c <=> x = u /\ s = r) /\ (b = g <=> y = v /\ d = e)
          /\ (a = g <=> x = v /\ s = e) /\ (b = c <=> y = u /\ d = r)
        OBVIOUS
    <2> HIDE DEF a, b, c, g
    <2>3. {a, b} = {c, g} <=> (a = c /\ b = g) \/ (a = g /\ b = c)
        BY <2>1
    <2>4. QED BY ONLY <2>2, <2>3 DEF a, b, c, g
<1>2. SortedEnds(x, y, s, d) = SortedEnds(u, v, r, e) <=>
          \/ x = u /\ s = r /\ y = v /\ d = e
          \/ x = v /\ s = e /\ y = u /\ d = r
    <2>1. CASE x > y /\ u > v
        BY <2>1 DEF SortedEnds
    <2>2. CASE ~(x > y) /\ u > v
        BY <2>2 DEF SortedEnds
    <2>3. CASE x > y /\ ~(u > v)
        BY <2>3 DEF SortedEnds
    <2>4. CASE ~(x > y) /\ ~(u > v)
        BY <2>4 DEF SortedEnds
    <2>5. QED BY <2>1, <2>2, <2>3, <2>4
<1>3. <<<<x, s>>, <<y, d>>>> = <<<<u, r>>, <<v, e>>>> <=> x = u /\ s = r /\ y = v /\ d = e
    OBVIOUS
<1>4. QED BY <1>1, <1>2, <1>3

LEMMA Rows ==
    ASSUME NEW a, NEW b, NEW c, NEW e
    PROVE  <<a, b>> \o <<c>> = <<a, b, c>> /\ <<a, b>> \o <<c, e>> = <<a, b, c, e>>
<1>1. PICK S : S = {a, b, c, e}
    OBVIOUS
<1>2. <<a, b>> \in Seq(S) /\ <<c>> \in Seq(S) /\ <<c, e>> \in Seq(S)
    BY <1>1
<1>3. <<a, b>> \o <<c>> = <<a, b, c>>
    <2>1. Len(<<a, b>> \o <<c>>) = 3 /\ <<a, b>> \o <<c>> \in Seq(S)
        BY <1>2
    <2>2. (<<a, b>> \o <<c>>)[1] = a /\ (<<a, b>> \o <<c>>)[2] = b /\ (<<a, b>> \o <<c>>)[3] = c
        BY <1>2
    <2>3. <<a, b, c>> \in Seq(S) /\ Len(<<a, b, c>>) = 3
        BY <1>1
    <2>4. \A i \in 1..3 : (<<a, b>> \o <<c>>)[i] = <<a, b, c>>[i]
        BY <2>2
    <2>5. QED BY <2>1, <2>3, <2>4, SeqEqual
<1>4. <<a, b>> \o <<c, e>> = <<a, b, c, e>>
    <2>1. Len(<<a, b>> \o <<c, e>>) = 4 /\ <<a, b>> \o <<c, e>> \in Seq(S)
        BY <1>2
    <2>2. /\ (<<a, b>> \o <<c, e>>)[1] = a /\ (<<a, b>> \o <<c, e>>)[2] = b
          /\ (<<a, b>> \o <<c, e>>)[3] = c /\ (<<a, b>> \o <<c, e>>)[4] = e
        BY <1>2
    <2>3. <<a, b, c, e>> \in Seq(S) /\ Len(<<a, b, c, e>>) = 4
        BY <1>1
    <2>4. \A i \in 1..4 : (<<a, b>> \o <<c, e>>)[i] = <<a, b, c, e>>[i]
        BY <2>2
    <2>5. QED BY <2>1, <2>3, <2>4, SeqEqual
<1>5. QED BY <1>3, <1>4

\* The keys and conversations of recognised frames, part by part.
LEMMA PlainKey ==
    ASSUME NEW f \in AllFrames, Clear(f), NEW p, Recognised(f, p), Plainly(f, p)
    PROVE  LET n == FirstIp(f)
               x == f[n].src
               y == f[n].dst
               s == f[n + 1].ports[1]
               d == f[n + 1].ports[2]
               ends == SortedEnds(x, y, s, d)
           IN  /\ x \in Nat /\ y \in Nat /\ x # y
               /\ KeyOf(f, p) = [table |-> "NONE", entry |-> <<Identifiers(f), <<ends[1], ends[2]>>>>,
                                 sub |-> <<ends[3], ends[4], f[n].next>>]
               /\ FlowIdx(f, p) = (IF x > y THEN 2 ELSE 1)
               /\ Way(f) = <<<<x, s>>, <<y, d>>>>
               /\ Conversation(f) = <<Identifiers(f), f[n].next, {<<x, s>>, <<y, d>>}>>
<1> DEFINE n == FirstIp(f)
           x == f[n].src
           y == f[n].dst
           s == f[n + 1].ports[1]
           d == f[n + 1].ports[2]
           ends == SortedEnds(x, y, s, d)
<1>1. SoundHeads(f, n) /\ n \in DOMAIN f /\ p.labels = Identifiers(f)
    BY DEF Recognised
<1>2. /\ p.tunnel = "NONE" /\ InnerIp(f) = n
      /\ p.lower.ip = n /\ p.lower.proto = f[n].next /\ p.lower.ports = f[n + 1].ports
    BY DEF Plainly
<1>3. x \in Nat /\ y \in Nat /\ x # y
    BY <1>1, <1>2 DEF SoundHeads, Clear
<1>4. n # 0
    BY <1>1, FrameAssumption DEF AllFrames
<1>5. Addresses(f, p.lower) = <<x, y>>
    BY <1>1, <1>2, <1>4, AddressesRead
<1>6. SortedPair(<<x, y>>) = <<ends[1], ends[2]>> /\ SortedPair(<<x, y>>)[1] = ends[1]
      /\ (ends[1] = IF x > y THEN y ELSE x)
    BY DEF SortedPair, SortedEnds
<1>7. ConnSubEntryKey(<<x, y>>, p.lower) = <<ends[3], ends[4], f[n].next>>
    BY <1>2 DEF ConnSubEntryKey, SortedEnds
<1>8. KeyOf(f, p) = [table |-> "NONE", entry |-> <<Identifiers(f), <<ends[1], ends[2]>>>>,
                     sub |-> <<ends[3], ends[4], f[n].next>>]
    BY <1>1, <1>2, <1>5, <1>6, <1>7 DEF KeyOf, ConnKey
<1>9. FlowIdx(f, p) = IF x > y THEN 2 ELSE 1
    <2>1. FlowIdx(f, p) = IF x = ends[1] THEN 1 ELSE 2
        BY <1>2, <1>5, <1>6 DEF FlowIdx
    <2>2. QED BY <2>1, <1>3, <1>6
<1>10. Way(f) = <<<<x, s>>, <<y, d>>>>
    BY <1>2 DEF Way, Endpoint
<1>11. Conversation(f) = <<Identifiers(f), f[n].next, {<<x, s>>, <<y, d>>}>>
    <2>1. {Way(f)[1], Way(f)[2]} = {<<x, s>>, <<y, d>>}
        BY <1>10
    <2>2. Conversation(f) = <<Identifiers(f), f[n].next>> \o <<{<<x, s>>, <<y, d>>}>>
        BY <1>2, <2>1 DEF Conversation, Tunnelled
    <2>3. \A a, b, c : <<a, b>> \o <<c>> = <<a, b, c>>
        BY Rows
    <2>4. QED BY ONLY <2>2, <2>3
<1>12. QED BY <1>3, <1>8, <1>9, <1>10, <1>11

LEMMA TunnelKeyIs ==
    ASSUME NEW f \in AllFrames, Clear(f), NEW p, Recognised(f, p), InTunnel(f, p)
    PROVE  LET n == FirstIp(f)
               m == InnerIp(f)
               x == f[m].src
               y == f[m].dst
               s == f[m + 1].ports[1]
               d == f[m + 1].ports[2]
           IN  /\ p.tunnel \in {"GTP", "GRE"} /\ FlowIdx(f, p) = 1
               /\ KeyOf(f, p) = [table |-> p.tunnel,
                                 entry |-> <<Identifiers(f), <<f[n].src, f[n].dst>>, p.tei>>,
                                 sub |-> <<<<x, y>>, <<s, d>>, f[m].next>>]
               /\ Way(f) = <<<<x, s>>, <<y, d>>>>
               /\ Conversation(f) = <<Identifiers(f), f[m].next,
                                      <<p.tunnel, p.tei, f[n].src, f[n].dst>>,
                                      <<<<x, s>>, <<y, d>>>>>>
<1> DEFINE n == FirstIp(f)
           m == InnerIp(f)
           x == f[m].src
           y == f[m].dst
           s == f[m + 1].ports[1]
           d == f[m + 1].ports[2]
<1>1. SoundHeads(f, n) /\ n \in DOMAIN f /\ p.labels = Identifiers(f)
    BY DEF Recognised
<1>2. /\ p.tunnel \in {"GTP", "GRE"} /\ SoundHeads(f, m) /\ f[m].next \in Trans /\ m > n
      /\ p.lower.ip = n /\ p.tunnel = f[m - 1].is
      /\ p.tei = IF f[m - 1].is = "GRE" /\ ~f[m - 1].key THEN 0 ELSE f[m - 1].tei
      /\ p.upper = [ip |-> m, proto |-> f[m].next, ports |-> f[m + 1].ports]
    BY DEF InTunnel
<1>3. n # 0 /\ m # 0 /\ m # n
    <2>1. n \in Nat /\ m \in Nat /\ n # 0 /\ m # 0
        <3>1. DOMAIN f = 1..Len(f) /\ Len(f) \in Nat
            BY FrameAssumption DEF AllFrames
        <3>2. n \in DOMAIN f /\ m \in DOMAIN f
            BY <1>1, <1>2 DEF SoundHeads
        <3> HIDE DEF n, m
        <3>3. QED BY ONLY <3>1, <3>2
    <2>2. QED BY <2>1, <1>2
<1>4. Addresses(f, p.lower) = <<f[n].src, f[n].dst>> /\ Addresses(f, p.upper) = <<x, y>>
    BY <1>1, <1>2, <1>3, AddressesRead
<1>5. f[m + 1].ports = <<s, d>>
    BY <1>2 DEF SoundHeads
<1>6. KeyOf(f, p) = [table |-> p.tunnel,
                     entry |-> <<Identifiers(f), <<f[n].src, f[n].dst>>, p.tei>>,
                     sub |-> <<<<x, y>>, <<s, d>>, f[m].next>>]
    BY <1>1, <1>2, <1>4, <1>5 DEF KeyOf, TunnelKey
<1>7. FlowIdx(f, p) = 1
    BY <1>2 DEF FlowIdx
<1>8. Way(f) = <<<<x, s>>, <<y, d>>>>
    BY DEF Way, Endpoint
<1>9. Carrier(f) = <<p.tunnel, p.tei, f[n].src, f[n].dst>>
    BY <1>2 DEF Carrier
<1>10. Conversation(f) = <<Identifiers(f), f[m].next>> \o <<Carrier(f), Way(f)>>
    BY <1>3 DEF Conversation, Tunnelled
<1>11. \A a, b, c, e : <<a, b>> \o <<c, e>> = <<a, b, c, e>>
    BY Rows
<1>12. Conversation(f) = <<Identifiers(f), f[m].next, Carrier(f), Way(f)>>
    BY ONLY <1>10, <1>11
<1>13. QED BY <1>2, <1>6, <1>7, <1>8, <1>9, <1>12

\* Recognised frames are filed together, and in one direction, just if they
\* are of one conversation, and go the same way.
FiledRight(f, g, p, q) ==
    /\ KeyOf(f, p) = KeyOf(g, q) <=> Conversation(f) = Conversation(g)
    /\ KeyOf(f, p) = KeyOf(g, q) => (FlowIdx(f, p) = FlowIdx(g, q) <=> Way(f) = Way(g))

LEMMA PlainsFiledRight ==
    ASSUME NEW f \in AllFrames, Clear(f), NEW p, Recognised(f, p), Plainly(f, p),
           NEW g \in AllFrames, Clear(g), NEW q, Recognised(g, q), Plainly(g, q)
    PROVE  FiledRight(f, g, p, q)
<1>1. PICK n : n = FirstIp(f)
    OBVIOUS
<1>2. PICK m : m = FirstIp(g)
    OBVIOUS
<1>3. PICK x, y, s, d, I, t : /\ x = f[n].src /\ y = f[n].dst /\ s = f[n + 1].ports[1]
                              /\ d = f[n + 1].ports[2] /\ I = Identifiers(f) /\ t = f[n].next
    OBVIOUS
<1>4. PICK u, v, r, e, J, w : /\ u = g[m].src /\ v = g[m].dst /\ r = g[m + 1].ports[1]
                              /\ e = g[m + 1].ports[2] /\ J = Identifiers(g) /\ w = g[m].next
    OBVIOUS
<1> DEFINE A == SortedEnds(x, y, s, d)
           B == SortedEnds(u, v, r, e)
<1>5. /\ x \in Nat /\ y \in Nat /\ x # y
      /\ KeyOf(f, p) = [table |-> "NONE", entry |-> <<I, <<A[1], A[2]>>>>, sub |-> <<A[3], A[4], t>>]
      /\ FlowIdx(f, p) = (IF x > y THEN 2 ELSE 1)
      /\ Way(f) = <<<<x, s>>, <<y, d>>>>
      /\ Conversation(f) = <<I, t, {<<x, s>>, <<y, d>>}>>
    BY <1>1, <1>3, PlainKey
<1>6. /\ u \in Nat /\ v \in Nat /\ u # v
      /\ KeyOf(g, q) = [table |-> "NONE", entry |-> <<J, <<B[1], B[2]>>>>, sub |-> <<B[3], B[4], w>>]
      /\ FlowIdx(g, q) = (IF u > v THEN 2 ELSE 1)
      /\ Way(g) = <<<<u, r>>, <<v, e>>>>
      /\ Conversation(g) = <<J, w, {<<u, r>>, <<v, e>>}>>
    BY <1>2, <1>4, PlainKey
<1>7. /\ A = B <=> {<<x, s>>, <<y, d>>} = {<<u, r>>, <<v, e>>}
      /\ A = B => ((x > y <=> u > v) <=> Way(f) = Way(g))
    BY <1>5, <1>6, EndsSorted
<1>8. A = <<A[1], A[2], A[3], A[4]>> /\ B = <<B[1], B[2], B[3], B[4]>>
    BY DEF SortedEnds
<1> HIDE DEF A, B
<1>9. A = B <=> A[1] = B[1] /\ A[2] = B[2] /\ A[3] = B[3] /\ A[4] = B[4]
    BY <1>8
<1>10. KeyOf(f, p) = KeyOf(g, q) <=> I = J /\ t = w /\ A = B
    BY <1>5, <1>6, <1>9
<1>11. Conversation(f) = Conversation(g) <=> I = J /\ t = w /\ {<<x, s>>, <<y, d>>} = {<<u, r>>, <<v, e>>}
    <2>1. PICK P, Q : P = {<<x, s>>, <<y, d>>} /\ Q = {<<u, r>>, <<v, e>>}
        OBVIOUS
    <2>2. Conversation(f) = <<I, t, P>> /\ Conversation(g) = <<J, w, Q>>
        BY <1>5, <1>6, <2>1
    <2>3. QED BY ONLY <2>1, <2>2
<1>12. KeyOf(f, p) = KeyOf(g, q) <=> Conversation(f) = Conversation(g)
    BY ONLY <1>7, <1>10, <1>11
<1>13. ASSUME KeyOf(f, p) = KeyOf(g, q) PROVE FlowIdx(f, p) = FlowIdx(g, q) <=> Way(f) = Way(g)
    <2>1. (x > y <=> u > v) <=> Way(f) = Way(g)
        BY <1>7, <1>10, <1>13
    <2>2. FlowIdx(f, p) = FlowIdx(g, q) <=> (x > y <=> u > v)
        BY <1>5, <1>6
    <2>3. QED BY ONLY <2>1, <2>2
<1>14. QED BY <1>12, <1>13 DEF FiledRight

LEMMA TunnelsFiledRight ==
    ASSUME NEW f \in AllFrames, Clear(f), NEW p, Recognised(f, p), InTunnel(f, p),
           NEW g \in AllFrames, Clear(g), NEW q, Recognised(g, q), InTunnel(g, q)
    PROVE  FiledRight(f, g, p, q)
<1>1. PICK n, m : n = FirstIp(f) /\ m = InnerIp(f)
    OBVIOUS
<1>2. PICK k, l : k = FirstIp(g) /\ l = InnerIp(g)
    OBVIOUS
<1>3. PICK x, y, s, d, I, t, a, b :
          /\ x = f[m].src /\ y = f[m].dst /\ s = f[m + 1].ports[1] /\ d = f[m + 1].ports[2]
          /\ I = Identifiers(f) /\ t = f[m].next /\ a = f[n].src /\ b = f[n].dst
    OBVIOUS
<1>4. PICK u, v, r, e, J, w, h, i :
          /\ u = g[l].src /\ v = g[l].dst /\ r = g[l + 1].ports[1] /\ e = g[l + 1].ports[2]
          /\ J = Identifiers(g) /\ w = g[l].next /\ h = g[k].src /\ i = g[k].dst
    OBVIOUS
<1>5. PICK A, B : A = p.tunnel /\ B = p.tei
    OBVIOUS
<1>6. PICK C, D : C = q.tunnel /\ D = q.tei
    OBVIOUS
<1>7. /\ KeyOf(f, p) = [table |-> A, entry |-> <<I, <<a, b>>, B>>, sub |-> <<<<x, y>>, <<s, d>>, t>>]
      /\ FlowIdx(f, p) = 1 /\ Way(f) = <<<<x, s>>, <<y, d>>>>
      /\ Conversation(f) = <<I, t, <<A, B, a, b>>, <<<<x, s>>, <<y, d>>>>>>
    BY <1>1, <1>3, <1>5, TunnelKeyIs
<1>8. /\ KeyOf(g, q) = [table |-> C, entry |-> <<J, <<h, i>>, D>>, sub |-> <<<<u, v>>, <<r, e>>, w>>]
      /\ FlowIdx(g, q) = 1 /\ Way(g) = <<<<u, r>>, <<v, e>>>>
      /\ Conversation(g) = <<J, w, <<C, D, h, i>>, <<<<u, r>>, <<v, e>>>>>>
    BY <1>2, <1>4, <1>6, TunnelKeyIs
<1> DEFINE Same == /\ I = J /\ t = w /\ A = C /\ B = D /\ a = h /\ b = i
                   /\ x = u /\ y = v /\ s = r /\ d = e
<1>9. KeyOf(f, p) = KeyOf(g, q) <=> Same
    <2>1. PICK P, Q, R, T : /\ P = <<I, <<a, b>>, B>> /\ Q = <<J, <<h, i>>, D>>
                            /\ R = <<<<x, y>>, <<s, d>>, t>> /\ T = <<<<u, v>>, <<r, e>>, w>>
        OBVIOUS
    <2>2. KeyOf(f, p) = [table |-> A, entry |-> P, sub |-> R]
          /\ KeyOf(g, q) = [table |-> C, entry |-> Q, sub |-> T]
        BY <1>7, <1>8, <2>1
    <2>3. KeyOf(f, p) = KeyOf(g, q) <=> A = C /\ P = Q /\ R = T
        BY ONLY <2>2
    <2>4. P = Q <=> I = J /\ a = h /\ b = i /\ B = D
        BY ONLY <2>1
    <2>5. R = T <=> x = u /\ y = v /\ s = r /\ d = e /\ t = w
        BY ONLY <2>1
    <2>6. QED BY ONLY <2>3, <2>4, <2>5
<1>10. Conversation(f) = Conversation(g) <=> Same
    BY ONLY <1>7, <1>8
<1>11. Same => Way(f) = Way(g)
    BY ONLY <1>7, <1>8
<1> HIDE DEF Same
<1>12. QED BY <1>7, <1>8, <1>9, <1>10, <1>11 DEF FiledRight

LEMMA FramesFiledRight ==
    ASSUME NEW f \in AllFrames, Clear(f), NEW p, Recognised(f, p),
           NEW g \in AllFrames, Clear(g), NEW q, Recognised(g, q)
    PROVE  FiledRight(f, g, p, q)
<1>1. ASSUME NEW a \in AllFrames, Clear(a), NEW r, Recognised(a, r), Plainly(a, r),
             NEW b \in AllFrames, Clear(b), NEW t, Recognised(b, t), InTunnel(b, t)
      PROVE  KeyOf(a, r) # KeyOf(b, t) /\ Conversation(a) # Conversation(b)
    <2>1. KeyOf(a, r).table = "NONE" /\ Len(Conversation(a)) = 3
        BY <1>1, PlainKey
    <2>2. KeyOf(b, t).table = t.tunnel /\ t.tunnel \in {"GTP", "GRE"} /\ Len(Conversation(b)) = 4
        BY <1>1, TunnelKeyIs
    <2>3. KeyOf(a, r).table # KeyOf(b, t).table
        BY ONLY <2>1, <2>2
    <2>4. Len(Conversation(a)) # Len(Conversation(b))
        BY ONLY <2>1, <2>2
    <2>5. QED BY <2>3, <2>4, Zenon
<1>2. Plainly(f, p) \/ InTunnel(f, p)
    BY DEF Recognised
<1>3. Plainly(g, q) \/ InTunnel(g, q)
    BY DEF Recognised
<1>4. CASE Plainly(f, p) /\ Plainly(g, q)
    BY <1>4, PlainsFiledRight
<1>5. CASE InTunnel(f, p) /\ InTunnel(g, q)
    BY <1>5, TunnelsFiledRight
<1>6. CASE Plainly(f, p) /\ InTunnel(g, q)
    <2>1. KeyOf(f, p) # KeyOf(g, q) /\ Conversation(f) # Conversation(g)
        BY <1>1, <1>6
    <2>2. QED BY <2>1 DEF FiledRight
<1>7. CASE InTunnel(f, p) /\ Plainly(g, q)
    <2>1. KeyOf(g, q) # KeyOf(f, p) /\ Conversation(g) # Conversation(f)
        BY <1>1, <1>7
    <2>2. QED BY <2>1 DEF FiledRight
<1>8. QED BY <1>2, <1>3, <1>4, <1>5, <1>6, <1>7

\* Every frame that was fed parses, and has its entry.
FedFiled == \A f \in fed : ParseFrame(f).ok /\ KeyOf(f, ParseFrame(f)) \in DOMAIN entries

LEMMA FedFiledKept ==
    ASSUME AnalyzerIInv, FedFiled, [AnalyzerNext]_analyzerVars
    PROVE  FedFiled'
<1>1. ASSUME fed' = fed, DOMAIN entries \subseteq DOMAIN entries' PROVE FedFiled'
    BY <1>1 DEF FedFiled
<1>2. ASSUME NEW a \in Analyzers, Start(a) \/ Stop(a) \/ Release(a) PROVE FedFiled'
    BY <1>1, <1>2 DEF Start, Stop, Release, CountDown
<1>3. ASSUME NEW i \in Intervals, SetResultOutputCallback(i) PROVE FedFiled'
    BY <1>1, <1>3 DEF SetResultOutputCallback
<1>4. ASSUME NEW t \in Timestamps, ProcessTime(t) PROVE FedFiled'
    BY <1>1, <1>4 DEF ProcessTime
<1>5. ASSUME NEW t \in Timestamps, NEW frame \in traffic, FeedPacket(frame, t) PROVE FedFiled'
    <2> DEFINE p == ParseFrame(frame)
               key == KeyOf(frame, p)
               e == WithEntry(entries, key)
    <2>1. CASE UNCHANGED <<entries, fault, fed>>
        BY <1>1, <2>1
    <2>2. CASE p.ok /\ IndicatePacket(frame, p)
        <3>1. key \in DOMAIN e /\ DOMAIN entries \subseteq DOMAIN e
            BY DEF WithEntry
        <3>2. fed' = fed \cup {frame}
              /\ (entries' = e \/ Activate(e, HandlerKey(frame, p), HandlerIdx(frame, p)))
            BY <2>2 DEF IndicatePacket
        <3> HIDE DEF e, key, p
        <3>3. DOMAIN entries' = DOMAIN e
            BY <3>2 DEF Activate
        <3>4. ASSUME NEW f \in fed' PROVE ParseFrame(f).ok /\ KeyOf(f, ParseFrame(f)) \in DOMAIN entries'
            <4>1. CASE f = frame
                BY <4>1, <2>2, <3>1, <3>3 DEF p, key
            <4>2. CASE f \in fed
                BY <4>2, <3>1, <3>3 DEF FedFiled
            <4>3. QED BY <3>2, <4>1, <4>2
        <3>5. QED BY <3>4 DEF FedFiled
    <2>3. UNCHANGED <<entries, fault, fed>> \/ (p.ok /\ IndicatePacket(frame, p))
        BY <1>5 DEF FeedPacket
    <2>4. QED BY <2>1, <2>2, <2>3
<1>6. ASSUME NEW key \in DOMAIN entries, NEW idx \in {1, 2}, Deactivate(key, idx) PROVE FedFiled'
    BY <1>1, <1>6 DEF Deactivate
<1>7. CASE UNCHANGED analyzerVars
    BY <1>1, <1>7 DEF analyzerVars
<1>8. QED BY <1>2, <1>3, <1>4, <1>5, <1>6, <1>7 DEF AnalyzerNext

\* EntriesAreConversations: two frames are filed together just if they are of
\* one conversation, and under one direction just if they go the same way, for
\* all frames the parser can tell (Clear): a fragment must be the first, there
\* is neither ESP nor a MAC address that looks like an IP header, and the IP
\* headers are within an octet.
THEOREM EntriesAreConversationsHolds == AnalyzerSpec => []EntriesAreConversations
<1>1. AnalyzerInit => FedFiled
    BY DEF AnalyzerInit, FedFiled
<1>2. AnalyzerIInv /\ FedFiled /\ [AnalyzerNext]_analyzerVars => FedFiled'
    BY FedFiledKept
<1>3. AnalyzerIInv /\ FedFiled => EntriesAreConversations
    <2> SUFFICES ASSUME AnalyzerIInv, FedFiled,
                        NEW f \in fed, Clear(f), NEW g \in fed, Clear(g)
                 PROVE  LET p == ParseFrame(f)
                            q == ParseFrame(g)
                        IN  /\ KeyOf(f, p) \in DOMAIN entries
                            /\ KeyOf(f, p) = KeyOf(g, q) <=> Conversation(f) = Conversation(g)
                            /\ KeyOf(f, p) = KeyOf(g, q) =>
                                   (FlowIdx(f, p) = FlowIdx(g, q) <=> Way(f) = Way(g))
        BY DEF EntriesAreConversations
    <2>1. f \in AllFrames /\ g \in AllFrames
        BY DEF AnalyzerIInv, FlowsInv, AllFrames
    <2>2. Recognised(f, ParseFrame(f)) /\ Recognised(g, ParseFrame(g))
        BY <2>1, ParsedTells DEF FedFiled
    <2>3. FiledRight(f, g, ParseFrame(f), ParseFrame(g))
        BY <2>1, <2>2, FramesFiledRight
    <2>4. QED BY <2>3 DEF FiledRight, FedFiled
<1>4. QED BY <1>1, <1>2, <1>3, AnalyzerInvariant, PTL DEF AnalyzerSpec

-----------------------------------------------------------------------------

\* OutputsSpaced: whatever the order of the times, two outputs of an interval
\* of whole seconds are more than the interval apart.
THEOREM OutputsSpacedHolds == AnalyzerSpec => OutputsSpaced
<1> DEFINE Spaced == armed' # armed /\ armed # NotArmed /\ armed.span % MicroSec = 0
                         => armed'.at - armed.at > armed.span
<1>1. ASSUME ClockInv, AnalyzerNext PROVE Spaced
    <2> SUFFICES ASSUME armed' # armed, armed # NotArmed, armed.span % MicroSec = 0
                 PROVE  armed'.at - armed.at > armed.span
        OBVIOUS
    <2>1. PICK t \in Timestamps, threw \in BOOLEAN : PassTime(t, threw)
        <3>1. \A a : ~Start(a) /\ ~Stop(a) /\ ~Release(a)
            BY DEF Start, Stop, Release, CountDown, clockVars
        <3>2. \A i : ~SetResultOutputCallback(i)
            BY DEF SetResultOutputCallback
        <3>3. \A key, idx : ~Deactivate(key, idx)
            BY DEF Deactivate, clockVars
        <3>4. QED BY <1>1, <3>1, <3>2, <3>3 DEF AnalyzerNext, ProcessTime, FeedPacket
    <2>2. ~NeverSampled(sampleEnd)
        BY <1>1, SampledOnce
    <2>3. armed' = [at |-> t, span |-> interval] /\ Before(sampleEnd, OfTimeval(t))
        BY <2>1, <2>2 DEF PassTime, Due
    <2>4. sampleEnd = Plus(OfTimeval(armed.at), OfTimeval(armed.span))
        BY <1>1 DEF ClockInv
    <2>5. armed.at \in Nat /\ armed.span \in Nat /\ t \in Nat
        BY <1>1, AnalyzerAssumption DEF ClockInv, Armed
    <2>6. t - armed.at > armed.span
        BY <2>3, <2>4, <2>5, DueBeyond
    <2>7. QED BY <2>3, <2>6
<1>2. AnalyzerIInv /\ [AnalyzerNext]_analyzerVars => [Spaced]_analyzerVars
    BY <1>1 DEF AnalyzerIInv
<1> HIDE DEF Spaced
<1>3. AnalyzerSpec => [][Spaced]_analyzerVars
    BY <1>2, AnalyzerInvariant, PTL DEF AnalyzerSpec
<1>4. QED BY <1>3 DEF Spaced, OutputsSpaced

\* Intervals for which there is to be any output.
LastingIntervals == \A i \in Intervals : Count(OfTimeval(i)) > 0

\* OutputsPunctual: an output of whole seconds is not late, unless outputs are
\* switched off.
THEOREM OutputsPunctualHolds ==
    ASSUME LastingIntervals
    PROVE  AnalyzerSpec => []OutputsPunctual
<1>1. ClockInv => OutputsPunctual
    <2> SUFFICES ASSUME ClockInv, armed # NotArmed, armed.span % MicroSec = 0, NEW t \in Timestamps,
                        t - armed.at > armed.span + SubSec \div MicroSec
                 PROVE  Due(sampleEnd, OfTimeval(interval), OfTimeval(t))
        BY DEF OutputsPunctual
    <2>1. Count(OfTimeval(interval)) > 0
        BY DEF ClockInv, LastingIntervals
    <2>2. ~NeverSampled(sampleEnd)
        BY SampledOnce
    <2>3. armed.at \in Nat /\ armed.span \in Nat /\ t \in Nat
        BY AnalyzerAssumption DEF ClockInv, Armed
    <2>4. Before(sampleEnd, OfTimeval(t))
        BY <2>3, DueBeyond DEF ClockInv
    <2>5. QED BY <2>1, <2>2, <2>4 DEF Due
<1>2. AnalyzerIInv => OutputsPunctual
    BY <1>1 DEF AnalyzerIInv
<1>3. QED BY <1>2, AnalyzerInvariant, PTL

-----------------------------------------------------------------------------

(***************************************************************************)
(* VQStatsRtsmDumper: the length of a block.                               *)
(***************************************************************************)

Layer1(table, entry) == [layer |-> 1, table |-> table, entry |-> entry]

Layer2(key, sub) == [layer |-> 2, key |-> key, sub |-> sub]

Shown(e) == {k.entry : k \in DOMAIN e}

\* What a block may hold.
Records(e) ==
    {Layer1(table, entry) : table \in Tables, entry \in Shown(e)}
    \cup {Layer2(key, sub) : key \in DOMAIN e, sub \in Sub \X Sub}

RecordSize(r) == IF r.layer = 1 THEN Layer1Size(r.entry) ELSE Layer2Size(r.key.table, r.sub)

LEMMA RecordIs ==
    ASSUME NEW e, Typed(e), NEW r \in Records(e)
    PROVE  /\ RecordSize(r) \in Nat /\ RecordSize(r) >= 1
           /\ \/ /\ r.layer = 1 /\ r = Layer1(r.table, r.entry) /\ r.table \in Tables /\ r.entry \in Shown(e)
                 /\ RecordSize(r) <= Layer1Max
              \/ /\ r.layer = 2 /\ r = Layer2(r.key, r.sub) /\ r.key \in DOMAIN e
                 /\ RecordSize(r) <= Layer2Max(r.key.table)
<1>1. CASE \E table \in Tables, entry \in Shown(e) : r = Layer1(table, entry)
    <2>1. PICK table \in Tables, entry \in Shown(e) : r = Layer1(table, entry)
        BY <1>1
    <2>2. r.layer = 1 /\ r.table = table /\ r.entry = entry
        BY <2>1 DEF Layer1
    <2>3. Len(entry[1]) \in 0..MaxIds /\ MaxIds \in Nat
        BY <2>1, IdsAssumption DEF Shown, Typed
    <2>4. RecordSize(r) = 2 + Len(entry[1])
        BY <2>2 DEF RecordSize, Layer1Size
    <2>5. QED BY <2>1, <2>2, <2>3, <2>4 DEF Layer1Max
<1>2. CASE \E key \in DOMAIN e, sub \in Sub \X Sub : r = Layer2(key, sub)
    <2>1. PICK key \in DOMAIN e, sub \in Sub \X Sub : r = Layer2(key, sub)
        BY <1>2
    <2>2. r.layer = 2 /\ r.key = key /\ r.sub = sub
        BY <2>1 DEF Layer2
    <2>3. RecordSize(r) = Layer2Size(key.table, sub)
        BY <2>2 DEF RecordSize
    <2>4. Layer2Size(key.table, sub) \in {2, 3} /\ Layer2Size(key.table, sub) <= Layer2Max(key.table)
        BY DEF Layer2Size, Layer2Max
    <2>5. QED BY <2>1, <2>2, <2>3, <2>4
<1>3. QED BY <1>1, <1>2 DEF Records

\* The lengths of the first records of a block.
Lengths(A, b, N) ==
    A = [n \in 0..N |-> IF n = 0 THEN HeaderSize
                        ELSE A[n - 1] + (IF b[n].layer = 1 THEN Layer1Size(b[n].entry)
                                         ELSE Layer2Size(b[n].key.table, b[n].sub))]

LEMMA LengthsAre ==
    ASSUME NEW A, NEW b, NEW N \in Nat, Lengths(A, b, N)
    PROVE  /\ A[0] = HeaderSize
           /\ \A n \in 1..N : A[n] = A[n - 1] + RecordSize(b[n])
<1>1. A[0] = HeaderSize
    <2>1. 0 \in 0..N
        OBVIOUS
    <2>2. QED BY <2>1 DEF Lengths
<1>2. ASSUME NEW n \in 1..N PROVE A[n] = A[n - 1] + RecordSize(b[n])
    <2>1. n \in 0..N /\ n # 0
        OBVIOUS
    <2>2. QED BY <2>1 DEF Lengths, RecordSize
<1>3. QED BY <1>1, <1>2

LEMMA LengthsExist ==
    ASSUME NEW b, NEW N \in Nat
    PROVE  \E A : Lengths(A, b, N)
<1> DEFINE Bad == {k \in Nat : ~\E A : Lengths(A, b, k)}
<1>1. SUFFICES ASSUME Bad # {} PROVE FALSE
    OBVIOUS
<1>2. PICK m \in Bad : \A k \in Bad : m <= k
    <2>1. Bad \subseteq Nat
        OBVIOUS
    <2> HIDE DEF Bad
    <2>2. QED BY <1>1, <2>1, LeastNatural
<1>3. m # 0
    <2>1. Lengths([n \in 0..0 |-> HeaderSize], b, 0)
        BY DEF Lengths
    <2>2. QED BY <2>1
<1>4. m \in Nat /\ m - 1 \in Nat /\ m - 1 \notin Bad
    BY <1>2, <1>3
<1>5. PICK A : Lengths(A, b, m - 1)
    BY <1>4
<1> DEFINE Row(F, n) == IF n = 0 THEN HeaderSize
                        ELSE F[n - 1] + (IF b[n].layer = 1 THEN Layer1Size(b[n].entry)
                                         ELSE Layer2Size(b[n].key.table, b[n].sub))
           B == [n \in 0..m |-> IF n = m THEN Row(A, m) ELSE A[n]]
<1>6. A = [n \in 0..(m - 1) |-> Row(A, n)]
    BY <1>5 DEF Lengths
<1>7. \A n \in 0..m : B[n] = Row(B, n)
    <2> TAKE n \in 0..m
    <2>1. n # 0 => n - 1 \in 0..m /\ n - 1 # m
        BY <1>4
    <2>2. n # 0 => B[n - 1] = A[n - 1]
        BY <2>1
    <2>3. Row(B, n) = Row(A, n)
        <3> HIDE DEF B
        <3>1. QED BY <2>2
    <2> HIDE DEF Row
    <2>4. CASE n = m
        BY <2>3, <2>4
    <2>5. CASE n # m
        <3>1. n \in 0..(m - 1)
            BY <2>5, <1>4
        <3>2. QED BY <2>3, <2>5, <3>1, <1>6
    <2>6. QED BY <2>4, <2>5
<1>8. B = [n \in 0..m |-> Row(B, n)]
    <2>1. B = [n \in 0..m |-> B[n]]
        OBVIOUS
    <2> HIDE DEF B, Row
    <2>2. QED BY <2>1, <1>7
<1>9. Lengths(B, b, m)
    <2> HIDE DEF B
    <2>1. QED BY <1>8 DEF Lengths
<1>10. QED BY <1>2, <1>9

LEMMA BlockLengthIs ==
    ASSUME NEW b, Len(b) \in Nat
    PROVE  \E A : Lengths(A, b, Len(b)) /\ BlockLength(b) = A[Len(b)]
<1> DEFINE sum[n \in 0..Len(b)] ==
            IF n = 0 THEN HeaderSize
            ELSE sum[n - 1] + (IF b[n].layer = 1 THEN Layer1Size(b[n].entry)
                               ELSE Layer2Size(b[n].key.table, b[n].sub))
<1>1. BlockLength(b) = sum[Len(b)]
    BY DEF BlockLength
<1>2. sum = CHOOSE A : A = [n \in 0..Len(b) |->
            IF n = 0 THEN HeaderSize
            ELSE A[n - 1] + (IF b[n].layer = 1 THEN Layer1Size(b[n].entry)
                             ELSE Layer2Size(b[n].key.table, b[n].sub))]
    BY DEF sum
<1> HIDE DEF sum
<1>3. Lengths(sum, b, Len(b))
    <2>1. PICK A : Lengths(A, b, Len(b))
        BY LengthsExist
    <2>2. A = [n \in 0..Len(b) |->
            IF n = 0 THEN HeaderSize
            ELSE A[n - 1] + (IF b[n].layer = 1 THEN Layer1Size(b[n].entry)
                             ELSE Layer2Size(b[n].key.table, b[n].sub))]
        BY <2>1 DEF Lengths
    <2>3. sum = [n \in 0..Len(b) |->
            IF n = 0 THEN HeaderSize
            ELSE sum[n - 1] + (IF b[n].layer = 1 THEN Layer1Size(b[n].entry)
                               ELSE Layer2Size(b[n].key.table, b[n].sub))]
        BY <2>2, <1>2
    <2>4. QED BY <2>3 DEF Lengths
<1>4. QED BY <1>1, <1>3

\* The empty block is its headers, and each record adds its size.
LEMMA LengthOfNone == BlockLength(<<>>) = HeaderSize
<1>1. Len(<<>>) = 0 /\ 0 \in Nat
    OBVIOUS
<1>2. PICK A : Lengths(A, <<>>, 0) /\ BlockLength(<<>>) = A[0]
    BY <1>1, BlockLengthIs
<1>3. QED BY <1>1, <1>2, LengthsAre

LEMMA LengthAtLeast ==
    ASSUME NEW e, Typed(e), NEW b \in Seq(Records(e))
    PROVE  BlockLength(b) \in Nat /\ BlockLength(b) >= HeaderSize + Len(b)
<1> DEFINE N == Len(b)
<1>1. N \in Nat /\ HeaderSize \in Nat
    BY LenProperties, BlockAssumption
<1>2. PICK A : Lengths(A, b, N) /\ BlockLength(b) = A[N]
    BY <1>1, BlockLengthIs
<1> DEFINE Fine(n) == A[n] \in Nat /\ A[n] >= HeaderSize + n
           Bad == {n \in 0..N : ~Fine(n)}
<1>3. Bad = {}
    <2>1. SUFFICES ASSUME Bad # {} PROVE FALSE
        OBVIOUS
    <2>2. PICK m \in Bad : \A k \in Bad : m <= k
        <3>1. Bad \subseteq Nat
            BY <1>1
        <3> HIDE DEF Bad
        <3>2. QED BY <2>1, <3>1, LeastNatural
    <2>3. m # 0
        BY <1>1, <1>2, LengthsAre
    <2>4. m \in 1..N /\ m - 1 \in 0..N /\ m - 1 \notin Bad
        BY <2>2, <2>3, <1>1
    <2>5. Fine(m - 1)
        BY <2>4
    <2>6. A[m] = A[m - 1] + RecordSize(b[m])
        BY <1>1, <1>2, <2>4, LengthsAre
    <2>7. b[m] \in Records(e)
        BY <2>4, ElementOfSeq
    <2>8. RecordSize(b[m]) \in Nat /\ RecordSize(b[m]) >= 1
        BY <2>7, RecordIs
    <2>9. Fine(m)
        BY <2>4, <2>5, <2>6, <2>8, <1>1
    <2>10. QED BY <2>2, <2>9
<1>4. Fine(N)
    BY <1>1, <1>3
<1>5. QED BY <1>2, <1>4

LEMMA LengthAppended ==
    ASSUME NEW e, Typed(e), NEW b \in Seq(Records(e)), NEW r \in Records(e)
    PROVE  BlockLength(Append(b, r)) = BlockLength(b) + RecordSize(r)
<1> DEFINE N == Len(b)
           c == Append(b, r)
<1>1. N \in Nat /\ Len(c) = N + 1 /\ c[N + 1] = r /\ \A i \in 1..N : c[i] = b[i]
    BY LenProperties, AppendProperties
<1>2. PICK A : Lengths(A, b, N) /\ BlockLength(b) = A[N]
    BY <1>1, BlockLengthIs
<1> HIDE DEF c
<1>3. PICK B : Lengths(B, c, N + 1) /\ BlockLength(c) = B[N + 1]
    <2>1. Len(c) \in Nat
        BY <1>1
    <2>2. QED BY <1>1, <2>1, BlockLengthIs
<1> HIDE DEF N
<1> DEFINE Bad == {n \in 0..N : A[n] # B[n]}
<1>4. Bad = {}
    <2>1. SUFFICES ASSUME Bad # {} PROVE FALSE
        OBVIOUS
    <2>2. PICK m \in Bad : \A k \in Bad : m <= k
        <3>1. Bad \subseteq Nat
            BY <1>1
        <3> HIDE DEF Bad
        <3>2. QED BY <2>1, <3>1, LeastNatural
    <2>3. m # 0
        <3>1. A[0] = HeaderSize /\ B[0] = HeaderSize
            BY <1>1, <1>2, <1>3, LengthsAre
        <3>2. QED BY <3>1, <2>2
    <2>4. m \in 1..N /\ m \in 1..(N + 1) /\ m - 1 \in 0..N /\ m - 1 \notin Bad
        BY <2>2, <2>3, <1>1
    <2>5. A[m - 1] = B[m - 1]
        BY <2>4
    <2>6. A[m] = A[m - 1] + RecordSize(b[m])
        BY <1>1, <1>2, <2>4, LengthsAre
    <2>7. B[m] = B[m - 1] + RecordSize(c[m])
        <3>1. N + 1 \in Nat
            BY <1>1
        <3>2. QED BY <3>1, <1>3, <2>4, LengthsAre
    <2>8. A[m] = B[m]
        BY <2>4, <2>5, <2>6, <2>7, <1>1
    <2>9. QED BY <2>2, <2>8
<1>5. A[N] = B[N]
    BY <1>1, <1>4
<1>6. B[N + 1] = B[N] + RecordSize(r)
    <2>1. N + 1 \in Nat
        BY <1>1
    <2>2. B[N + 1] = B[N] + RecordSize(c[N + 1])
        <3>1. PICK K \in Nat : K = N + 1
            BY <2>1
        <3>2. Lengths(B, c, K)
            BY <1>3, <3>1
        <3>3. \A n \in 1..K : B[n] = B[n - 1] + RecordSize(c[n])
            BY <3>2, LengthsAre
        <3>4. K \in 1..K
            BY <1>1, <3>1
        <3>5. B[K] = B[K - 1] + RecordSize(c[K])
            BY <3>3, <3>4
        <3>6. K - 1 = N
            BY <1>1, <3>1
        <3>7. B[K] = B[N] + RecordSize(c[K])
            BY <3>5, <3>6
        <3>8. QED BY <3>1, <3>7
    <2>3. QED BY <2>1, <2>2, <1>1
<1>7. QED BY <1>2, <1>3, <1>5, <1>6 DEF c

-----------------------------------------------------------------------------

(***************************************************************************)
(* VQStatsRtsmDumper: one record after another.                            *)
(***************************************************************************)

\* Each sub entry stands behind an entry of its table, with none but others
\* of it between.
HeadedAt(b, i, j) ==
    /\ j \in 1..(i - 1) /\ b[j].layer = 1 /\ b[j].table = b[i].key.table
    /\ \A m \in (j + 1)..i : b[m].layer = 2
    /\ b[j].table = "NONE" => b[j].entry = b[i].key.entry

Headed(b) == \A i \in 1..Len(b) : b[i].layer = 2 => \E j \in 1..(i - 1) : HeadedAt(b, i, j)

\* The block at hand counts as one more behind those sent.
BlockAt(d, n) == IF n = Len(d.sent) + 1 THEN d.block ELSE d.sent[n]

Shows(d, n, i, k) ==
    /\ n \in 1..(Len(d.sent) + 1) /\ i \in 1..Len(BlockAt(d, n))
    /\ BlockAt(d, n)[i].layer = 2 /\ BlockAt(d, n)[i].key = k

OnceEach(d, done) ==
    /\ \A k, n, i : Shows(d, n, i, k) => k \in done
    /\ \A k \in done : \E n, i : Shows(d, n, i, k)
    /\ \A k, n, i, m, j : Shows(d, n, i, k) /\ Shows(d, m, j, k) => n = m /\ i = j

Dumps(e) ==
    [sent: Seq(Seq(Records(e))), block: Seq(Records(e)), offset: Nat, threw: BOOLEAN]

SentWell(b) == b # <<>> /\ BlockLength(b) <= BlockSize /\ Headed(b)

\* A dump of the keys done, with at most these heads in the block at hand.
Good(d, e, done, heads) ==
    /\ d \in Dumps(e)
    /\ d.offset = BlockLength(d.block) /\ d.offset <= BlockSize
    /\ Headed(d.block)
    /\ \A n \in 1..Len(d.sent) : SentWell(d.sent[n])
    /\ \A j \in 1..Len(d.block) :
           d.block[j].layer = 1 => <<d.block[j].table, d.block[j].entry>> \in heads
    /\ OnceEach(d, done)

LEMMA NewIsGood ==
    ASSUME NEW e
    PROVE  Good(NewDump, e, {}, {}) /\ NewDump.block = <<>> /\ ~NewDump.threw
<1> DEFINE d == NewDump
<1>1. /\ d \in Dumps(e) /\ d.sent = <<>> /\ d.block = <<>> /\ d.offset = HeaderSize /\ d.threw = FALSE
      /\ Len(d.sent) = 0 /\ Len(d.block) = 0
    <2>1. HeaderSize \in Nat
        BY BlockAssumption
    <2>2. QED BY <2>1 DEF NewDump, Dumps
<1>2. d.offset = BlockLength(d.block) /\ d.offset <= BlockSize
    <2>1. Layer1Max \in Nat /\ Layer2Max("NONE") \in Nat
        BY IdsAssumption DEF Layer1Max, Layer2Max
    <2>2. QED BY <1>1, <2>1, LengthOfNone, BlockAssumption
<1> HIDE DEF d
<1>3. \A n, i, k : ~Shows(d, n, i, k)
    BY <1>1 DEF Shows, BlockAt
<1>4. OnceEach(d, {})
    BY <1>3 DEF OnceEach
<1>5. QED BY <1>1, <1>2, <1>4 DEF Good, Headed, d

LEMMA DumpEdited ==
    ASSUME NEW e, NEW d \in Dumps(e), NEW x \in Seq(Seq(Records(e))), NEW y \in Seq(Records(e)), NEW z \in Nat
    PROVE  /\ [d EXCEPT !.sent = x, !.block = y, !.offset = z] \in Dumps(e)
           /\ [d EXCEPT !.block = y, !.offset = z] \in Dumps(e)
           /\ [d EXCEPT !.threw = TRUE] \in Dumps(e)
<1> DEFINE A == Seq(Seq(Records(e)))
           B == Seq(Records(e))
<1>1. d \in [sent: A, block: B, offset: Nat, threw: BOOLEAN] /\ x \in A /\ y \in B
    BY DEF Dumps
<1> HIDE DEF A, B
<1>2. [d EXCEPT !.sent = x, !.block = y, !.offset = z] \in [sent: A, block: B, offset: Nat, threw: BOOLEAN]
    BY <1>1
<1>3. [d EXCEPT !.block = y, !.offset = z] \in [sent: A, block: B, offset: Nat, threw: BOOLEAN]
    BY <1>1
<1>4. [d EXCEPT !.threw = TRUE] \in [sent: A, block: B, offset: Nat, threw: BOOLEAN]
    BY <1>1
<1>5. QED BY <1>2, <1>3, <1>4 DEF Dumps, A, B

\* A flush keeps what is shown where it is.
LEMMA FlushKeeps ==
    ASSUME NEW e, Typed(e), NEW d, NEW done, NEW heads, Good(d, e, done, heads), d.block # <<>>
    PROVE  /\ Good(Flushed(d), e, done, {}) /\ Flushed(d).block = <<>>
           /\ Flushed(d).offset = HeaderSize
           /\ Flushed(d).threw = d.threw
<1> DEFINE f == Flushed(d)
           N == Len(d.sent)
<1>1. d \in Dumps(e) /\ d.sent \in Seq(Seq(Records(e))) /\ d.block \in Seq(Records(e)) /\ N \in Nat
    BY LenProperties DEF Good, Dumps
<1>2. f.sent = Append(d.sent, d.block) /\ f.block = <<>> /\ f.offset = HeaderSize /\ f.threw = d.threw
    BY <1>1 DEF Flushed, Dumps
<1>3. /\ f.sent \in Seq(Seq(Records(e))) /\ Len(f.sent) = N + 1
      /\ f.sent[N + 1] = d.block /\ \A n \in 1..N : f.sent[n] = d.sent[n]
    BY <1>1, <1>2, AppendProperties
<1>4. f \in Dumps(e)
    <2>1. Append(d.sent, d.block) \in Seq(Seq(Records(e))) /\ <<>> \in Seq(Records(e)) /\ HeaderSize \in Nat
        BY <1>1, <1>2, <1>3, BlockAssumption
    <2>2. QED BY <1>1, <2>1, DumpEdited DEF Flushed
<1>5. f.offset = BlockLength(f.block) /\ f.offset <= BlockSize
    <2>1. Layer1Max \in Nat /\ Layer2Max("NONE") \in Nat
        BY IdsAssumption DEF Layer1Max, Layer2Max
    <2>2. QED BY <1>2, <2>1, LengthOfNone, BlockAssumption
<1> HIDE DEF f, N
<1>6. Len(f.block) = 0 /\ Headed(f.block)
    BY <1>2 DEF Headed
<1>7. \A n \in 1..(N + 1) : BlockAt(f, n) = BlockAt(d, n)
    <2> TAKE n \in 1..(N + 1)
    <2>1. BlockAt(f, n) = f.sent[n]
        BY <1>1, <1>3 DEF BlockAt
    <2>2. CASE n = N + 1
        BY <1>3, <2>1, <2>2 DEF BlockAt, N
    <2>3. CASE n # N + 1
        <3>1. n \in 1..N
            BY <1>1, <2>3
        <3>2. BlockAt(d, n) = d.sent[n]
            BY <2>3 DEF BlockAt, N
        <3>3. QED BY <1>3, <2>1, <3>1, <3>2
    <2>4. QED BY <2>2, <2>3
<1>8. \A n, i, k : Shows(f, n, i, k) <=> Shows(d, n, i, k)
    <2> TAKE n, i, k
    <2>1. Shows(f, n, i, k) => n \in 1..(N + 1)
        <3> SUFFICES ASSUME Shows(f, n, i, k) PROVE n \in 1..(N + 1)
            OBVIOUS
        <3>1. n \in 1..(N + 2)
            BY <1>1, <1>3 DEF Shows
        <3>2. n # N + 2
            <4>1. ASSUME n = N + 2 PROVE FALSE
                <5>1. BlockAt(f, n) = f.block
                    BY <4>1, <1>3, <1>1 DEF BlockAt
                <5>2. QED BY <5>1, <1>6 DEF Shows
            <4>2. QED BY <4>1
        <3>3. QED BY <3>1, <3>2, <1>1
    <2>2. n \in 1..(N + 1) => n \in 1..(Len(f.sent) + 1)
        BY <1>1, <1>3
    <2>3. Shows(d, n, i, k) => n \in 1..(N + 1)
        BY DEF Shows, N
    <2>4. QED BY <2>1, <2>2, <2>3, <1>7 DEF Shows, N
<1>9. OnceEach(f, done)
    BY <1>8 DEF OnceEach, Good
<1>10. ASSUME NEW n \in 1..Len(f.sent) PROVE SentWell(f.sent[n])
    <2>1. CASE n = N + 1
        BY <2>1, <1>3 DEF SentWell, Good
    <2>2. CASE n # N + 1
        <3>1. n \in 1..N
            BY <2>2, <1>1, <1>3
        <3>2. QED BY <3>1, <1>3 DEF Good, N
    <2>3. QED BY <2>1, <2>2
<1>11. QED BY <1>2, <1>4, <1>5, <1>6, <1>9, <1>10 DEF Good, f

\* What a record at the end changes and leaves.
LEMMA RecordAdded ==
    ASSUME NEW e, Typed(e), NEW d, NEW done, NEW heads, Good(d, e, done, heads),
           NEW r \in Records(e), d.offset + RecordSize(r) <= BlockSize
    PROVE  LET f == WithRecord(d, r, RecordSize(r)) IN
           /\ f \in Dumps(e) /\ f.sent = d.sent /\ f.threw = d.threw
           /\ f.block = Append(d.block, r) /\ f.block \in Seq(Records(e))
           /\ Len(d.block) \in Nat /\ Len(f.block) = Len(d.block) + 1
           /\ f.block[Len(d.block) + 1] = r
           /\ \A i \in 1..Len(d.block) : f.block[i] = d.block[i]
           /\ f.offset = d.offset + RecordSize(r)
           /\ f.offset = BlockLength(f.block) /\ f.offset <= BlockSize
           /\ \A n \in 1..Len(f.sent) : SentWell(f.sent[n])
           /\ \A n, i, k : Shows(f, n, i, k) <=>
                  \/ Shows(d, n, i, k)
                  \/ n = Len(d.sent) + 1 /\ i = Len(d.block) + 1 /\ r.layer = 2 /\ r.key = k
<1> DEFINE f == WithRecord(d, r, RecordSize(r))
           N == Len(d.sent)
           M == Len(d.block)
<1>1. d \in Dumps(e) /\ d.sent \in Seq(Seq(Records(e))) /\ d.block \in Seq(Records(e)) /\ N \in Nat /\ M \in Nat
      /\ d.offset \in Nat
    BY LenProperties DEF Good, Dumps
<1>2. RecordSize(r) \in Nat
    BY RecordIs
<1>3. /\ f.sent = d.sent /\ f.threw = d.threw /\ f.block = Append(d.block, r)
      /\ f.offset = d.offset + RecordSize(r)
    BY <1>1 DEF WithRecord, Dumps
<1>4. /\ f.block \in Seq(Records(e)) /\ Len(f.block) = M + 1 /\ f.block[M + 1] = r
      /\ \A i \in 1..M : f.block[i] = d.block[i]
    BY <1>1, <1>3, AppendProperties
<1>5. f \in Dumps(e)
    <2>1. Append(d.block, r) \in Seq(Records(e)) /\ d.offset + RecordSize(r) \in Nat
        BY <1>1, <1>2, <1>3, <1>4
    <2>2. QED BY <1>1, <2>1, DumpEdited DEF WithRecord
<1> HIDE DEF f, N, M
<1>6. f.offset = BlockLength(f.block) /\ f.offset <= BlockSize
    BY <1>1, <1>3, LengthAppended DEF Good
<1>7. \A n \in 1..Len(f.sent) : SentWell(f.sent[n])
    BY <1>3 DEF Good
<1>8. \A n \in 1..N : BlockAt(f, n) = BlockAt(d, n)
    <2> TAKE n \in 1..N
    <2>1. n # N + 1
        BY <1>1
    <2>2. QED BY <2>1, <1>3 DEF BlockAt, N
<1>9. BlockAt(f, N + 1) = f.block /\ BlockAt(d, N + 1) = d.block
    BY <1>3 DEF BlockAt, N
<1>10. ASSUME NEW n, NEW i, NEW k
       PROVE  Shows(f, n, i, k) <=> \/ Shows(d, n, i, k)
                                    \/ n = N + 1 /\ i = M + 1 /\ r.layer = 2 /\ r.key = k
    <2>1. (Shows(f, n, i, k) => n \in 1..(N + 1)) /\ (Shows(d, n, i, k) => n \in 1..(N + 1))
        BY <1>3 DEF Shows, N
    <2>2. CASE n \in 1..N
        <3>1. n # N + 1 /\ n \in 1..(N + 1)
            BY <2>2, <1>1
        <3>2. Shows(f, n, i, k) <=> Shows(d, n, i, k)
            BY <3>1, <2>2, <1>3, <1>8 DEF Shows, N
        <3>3. QED BY <3>1, <3>2
    <2>3. CASE n = N + 1
        <3>1. n \in 1..(N + 1)
            BY <2>3, <1>1
        <3>2. Shows(f, n, i, k) <=> i \in 1..(M + 1) /\ f.block[i].layer = 2 /\ f.block[i].key = k
            BY <3>1, <2>3, <1>3, <1>4, <1>9 DEF Shows, N
        <3>3. Shows(d, n, i, k) <=> i \in 1..M /\ d.block[i].layer = 2 /\ d.block[i].key = k
            BY <3>1, <2>3, <1>9 DEF Shows, N, M
        <3>4. i \in 1..(M + 1) <=> i \in 1..M \/ i = M + 1
            BY <1>1
        <3>5. QED BY <3>2, <3>3, <3>4, <2>3, <1>4
    <2>4. CASE n \notin 1..(N + 1)
        <3>1. n # N + 1
            BY <2>4, <1>1
        <3>2. QED BY <3>1, <2>1, <2>4
    <2>5. n \in 1..(N + 1) <=> n \in 1..N \/ n = N + 1
        BY <1>1
    <2>6. QED BY <2>2, <2>3, <2>4, <2>5
<1>11. QED BY <1>1, <1>3, <1>4, <1>5, <1>6, <1>7, <1>10 DEF f, N, M

\* The head of the entry at hand is followed by sub entries only.
AtHand(d, table, entry) ==
    \A j \in 1..Len(d.block) :
        d.block[j] = Layer1(table, entry) => \A m \in (j + 1)..Len(d.block) : d.block[m].layer = 2

LEMMA HeadAdded ==
    ASSUME NEW e, Typed(e), NEW d, NEW done, NEW heads, Good(d, e, done, heads),
           NEW table \in Tables, NEW entry \in Shown(e), <<table, entry>> \in heads,
           NEW f, f = WithRecord(d, Layer1(table, entry), Layer1Size(entry)),
           NeedsLayer1(d, [table |-> table, entry |-> entry]),
           d.offset + Layer1Size(entry) <= BlockSize
    PROVE  /\ Good(f, e, done, heads) /\ f.threw = d.threw /\ AtHand(f, table, entry)
           /\ f.offset = d.offset + Layer1Size(entry)
           /\ Layer1(table, entry) = f.block[Len(f.block)] /\ Len(f.block) \in Nat \ {0}
<1> DEFINE r == Layer1(table, entry)
           M == Len(d.block)
<1>1. r \in Records(e) /\ r.layer = 1 /\ r.table = table /\ r.entry = entry
    BY DEF Records, Layer1
<1>2. RecordSize(r) = Layer1Size(entry)
    BY <1>1 DEF RecordSize
<1>3. \A j \in 1..M : d.block[j] # r
    BY DEF NeedsLayer1, Layer1
<1> HIDE DEF r
<1>4. f = WithRecord(d, r, RecordSize(r)) /\ d.offset + RecordSize(r) <= BlockSize
    BY <1>2 DEF r
<1>5. /\ f \in Dumps(e) /\ f.sent = d.sent /\ f.threw = d.threw
      /\ M \in Nat /\ Len(f.block) = M + 1 /\ f.block[M + 1] = r
      /\ \A i \in 1..M : f.block[i] = d.block[i]
      /\ f.offset = d.offset + RecordSize(r)
      /\ f.offset = BlockLength(f.block) /\ f.offset <= BlockSize
      /\ \A n \in 1..Len(f.sent) : SentWell(f.sent[n])
      /\ \A n, i, k : Shows(f, n, i, k) <=>
             \/ Shows(d, n, i, k)
             \/ n = Len(d.sent) + 1 /\ i = M + 1 /\ r.layer = 2 /\ r.key = k
    BY <1>1, <1>4, RecordAdded
<1> HIDE DEF M
<1>6. \A i : i \in 1..(M + 1) => i \in 1..M \/ i = M + 1
    BY <1>5
<1>7. Headed(f.block)
    <2> SUFFICES ASSUME NEW i \in 1..Len(f.block), f.block[i].layer = 2
                 PROVE  \E j \in 1..(i - 1) : HeadedAt(f.block, i, j)
        BY DEF Headed
    <2>1. i \in 1..M
        BY <1>1, <1>5, <1>6
    <2>2. PICK j \in 1..(i - 1) : HeadedAt(d.block, i, j)
        BY <2>1, <1>5 DEF Good, Headed, M
    <2>3. j \in 1..M /\ \A m \in (j + 1)..i : m \in 1..M
        BY <2>1, <1>5
    <2>4. HeadedAt(f.block, i, j)
        BY <2>1, <2>2, <2>3, <1>5 DEF HeadedAt
    <2>5. QED BY <2>4
<1>8. \A j \in 1..Len(f.block) : f.block[j].layer = 1 => <<f.block[j].table, f.block[j].entry>> \in heads
    <2> SUFFICES ASSUME NEW j \in 1..Len(f.block), f.block[j].layer = 1
                 PROVE  <<f.block[j].table, f.block[j].entry>> \in heads
        OBVIOUS
    <2>1. CASE j \in 1..M
        BY <2>1, <1>5 DEF Good, M
    <2>2. CASE j = M + 1
        BY <2>2, <1>1, <1>5
    <2>3. QED BY <2>1, <2>2, <1>5, <1>6
<1>9. OnceEach(f, done)
    BY <1>1, <1>5 DEF Good, OnceEach
<1>10. AtHand(f, table, entry)
    <2> SUFFICES ASSUME NEW j \in 1..Len(f.block), f.block[j] = r, NEW m \in (j + 1)..Len(f.block)
                 PROVE  f.block[m].layer = 2
        BY DEF AtHand, r
    <2>1. j \in 1..M
        BY <1>5
    <2>2. QED BY <2>1, <1>3, <1>5 DEF M
<1>11. QED BY <1>2, <1>5, <1>7, <1>8, <1>9, <1>10 DEF Good, r

LEMMA SubAdded ==
    ASSUME NEW e, Typed(e), NEW d, NEW done, NEW heads, Good(d, e, done, heads),
           NEW table \in Tables, NEW entry, AtHand(d, table, entry),
           ~NeedsLayer1(d, [table |-> table, entry |-> entry]),
           NEW k \in DOMAIN e \ done, k.table = table, table = "NONE" => k.entry = entry,
           NEW f, f = WithRecord(d, Layer2(k, e[k]), Layer2Size(table, e[k])),
           d.offset + Layer2Size(table, e[k]) <= BlockSize
    PROVE  Good(f, e, done \cup {k}, heads) /\ AtHand(f, table, entry) /\ f.threw = d.threw
<1> DEFINE r == Layer2(k, e[k])
           M == Len(d.block)
<1>1. r \in Records(e) /\ r.layer = 2 /\ r.key = k /\ r.sub = e[k]
    BY DEF Records, Layer2, Typed
<1>2. RecordSize(r) = Layer2Size(table, e[k])
    BY <1>1 DEF RecordSize
<1>3. PICK h \in 1..M : d.block[h] = Layer1(table, entry)
    BY DEF NeedsLayer1, Layer1
<1>4. \A m \in (h + 1)..M : d.block[m].layer = 2
    BY <1>3 DEF AtHand
<1> HIDE DEF r
<1>5. f = WithRecord(d, r, RecordSize(r)) /\ d.offset + RecordSize(r) <= BlockSize
    BY <1>2 DEF r
<1>6. /\ f \in Dumps(e) /\ f.sent = d.sent /\ f.threw = d.threw
      /\ M \in Nat /\ Len(f.block) = M + 1 /\ f.block[M + 1] = r
      /\ \A i \in 1..M : f.block[i] = d.block[i]
      /\ f.offset = BlockLength(f.block) /\ f.offset <= BlockSize
      /\ \A n \in 1..Len(f.sent) : SentWell(f.sent[n])
      /\ \A n, i, x : Shows(f, n, i, x) <=>
             \/ Shows(d, n, i, x)
             \/ n = Len(d.sent) + 1 /\ i = M + 1 /\ r.layer = 2 /\ r.key = x
    BY <1>1, <1>5, RecordAdded
<1> HIDE DEF M
<1>7. \A i : i \in 1..(M + 1) => i \in 1..M \/ i = M + 1
    BY <1>6
<1>8. Headed(f.block)
    <2> SUFFICES ASSUME NEW i \in 1..Len(f.block), f.block[i].layer = 2
                 PROVE  \E j \in 1..(i - 1) : HeadedAt(f.block, i, j)
        BY DEF Headed
    <2>1. CASE i \in 1..M
        <3>1. PICK j \in 1..(i - 1) : HeadedAt(d.block, i, j)
            BY <2>1, <1>6 DEF Good, Headed, M
        <3>2. j \in 1..M /\ \A m \in (j + 1)..i : m \in 1..M
            BY <2>1, <1>6
        <3>3. f.block[i] = d.block[i] /\ f.block[j] = d.block[j]
              /\ \A m \in (j + 1)..i : f.block[m] = d.block[m]
            BY <2>1, <3>2, <1>6
        <3>4. HeadedAt(f.block, i, j)
            BY <3>1, <3>3 DEF HeadedAt
        <3>5. QED BY <3>4
    <2>2. CASE i = M + 1
        <3>1. h \in 1..(i - 1) /\ \A m \in (h + 1)..i : m \in (h + 1)..M \/ m = M + 1
            BY <1>6, <2>2
        <3>2. f.block[h] = Layer1(table, entry) /\ f.block[i] = r
            BY <1>3, <1>6, <2>2
        <3>3. \A m \in (h + 1)..i : f.block[m].layer = 2
            <4> TAKE m \in (h + 1)..i
            <4>1. CASE m \in (h + 1)..M
                <5>1. m \in 1..M
                    BY <4>1, <1>6
                <5>2. QED BY <4>1, <5>1, <1>4, <1>6
            <4>2. CASE m = M + 1
                BY <4>2, <1>1, <1>6
            <4>3. QED BY <4>1, <4>2, <3>1
        <3>4. /\ f.block[h].layer = 1 /\ f.block[h].table = table /\ f.block[h].entry = entry
              /\ f.block[i].key = k
            BY <3>2, <1>1 DEF Layer1
        <3>5. HeadedAt(f.block, i, h)
            BY <3>1, <3>3, <3>4 DEF HeadedAt
        <3>6. QED BY <3>1, <3>5
    <2>3. QED BY <2>1, <2>2, <1>6, <1>7
<1>9. \A j \in 1..Len(f.block) : f.block[j].layer = 1 => <<f.block[j].table, f.block[j].entry>> \in heads
    <2> SUFFICES ASSUME NEW j \in 1..Len(f.block), f.block[j].layer = 1
                 PROVE  <<f.block[j].table, f.block[j].entry>> \in heads
        OBVIOUS
    <2>1. j \in 1..M
        BY <1>1, <1>6, <1>7
    <2>2. QED BY <2>1, <1>6 DEF Good, M
<1>10. OnceEach(f, done \cup {k})
    <2>1. OnceEach(d, done)
        BY DEF Good
    <2>2. \A n, i, x : Shows(f, n, i, x) <=> Shows(d, n, i, x) \/ (n = Len(d.sent) + 1 /\ i = M + 1 /\ x = k)
        BY <1>1, <1>6
    <2>3. \A n, i : ~Shows(d, n, i, k)
        BY <2>1 DEF OnceEach
    <2>4. \A x, n, i : Shows(f, n, i, x) => x \in done \cup {k}
        BY <2>1, <2>2 DEF OnceEach
    <2>5. ASSUME NEW x \in done \cup {k} PROVE \E n, i : Shows(f, n, i, x)
        <3>1. CASE x = k
            <4>1. Shows(f, Len(d.sent) + 1, M + 1, x)
                BY <3>1, <2>2
            <4>2. QED BY <4>1
        <3>2. CASE x \in done
            <4>1. PICK n, i : Shows(d, n, i, x)
                BY <3>2, <2>1 DEF OnceEach
            <4>2. Shows(f, n, i, x)
                BY <4>1, <2>2
            <4>3. QED BY <4>2
        <3>3. QED BY <3>1, <3>2
    <2>6. \A x, n, i, m, j : Shows(f, n, i, x) /\ Shows(f, m, j, x) => n = m /\ i = j
        BY <2>1, <2>2, <2>3 DEF OnceEach
    <2>7. QED BY <2>4, <2>5, <2>6 DEF OnceEach
<1>11. AtHand(f, table, entry)
    <2> SUFFICES ASSUME NEW j \in 1..Len(f.block), f.block[j] = Layer1(table, entry),
                        NEW m \in (j + 1)..Len(f.block)
                 PROVE  f.block[m].layer = 2
        BY DEF AtHand
    <2>1. j \in 1..M
        BY <1>6
    <2>2. d.block[j] = Layer1(table, entry)
        BY <2>1, <1>6
    <2>3. CASE m = M + 1
        BY <2>3, <1>1, <1>6
    <2>4. CASE m # M + 1
        <3>1. m \in (j + 1)..M /\ m \in 1..M
            BY <2>1, <2>4, <1>6
        <3>2. QED BY <2>1, <2>2, <3>1, <1>6 DEF AtHand, M
    <2>5. QED BY <2>3, <2>4
<1>12. QED BY <1>6, <1>8, <1>9, <1>10, <1>11 DEF Good

LEMMA MoreHeads ==
    ASSUME NEW d, NEW e, NEW done, NEW heads, NEW more, heads \subseteq more, Good(d, e, done, heads)
    PROVE  Good(d, e, done, more)
    BY DEF Good

\* A sub entry: flushed before or not, it is shown behind its entry.
LEMMA SubEntryDumped ==
    ASSUME NEW e, Typed(e), NEW d, NEW done, NEW heads, Good(d, e, done, heads),
           NEW table \in Tables, NEW entry \in Shown(e), <<table, entry>> \in heads,
           AtHand(d, table, entry),
           NEW k \in DOMAIN e \ done, k.table = table, table = "NONE" => k.entry = entry,
           NEW f, f = DumpSubEntry(d, [table |-> table, entry |-> entry, key |-> k, sub |-> e[k]])
    PROVE  Good(f, e, done \cup {k}, heads) /\ AtHand(f, table, entry) /\ f.threw = d.threw
<1> DEFINE w == [table |-> table, entry |-> entry, key |-> k, sub |-> e[k]]
           v == [table |-> table, entry |-> entry]
           need == Layer2Max(table) + (IF NeedsLayer1(d, v) THEN Layer1Max ELSE 0)
           base == IF d.offset + need > BlockSize THEN Flushed(d) ELSE d
           headed == WithLayer1(base, w)
           Headers(c) == WithRecord(c, Layer1(table, entry), Layer1Size(entry))
<1>1. \A c : NeedsLayer1(c, w) = NeedsLayer1(c, v)
    BY DEF NeedsLayer1
<1>2. f = WithRecord(headed, Layer2(k, e[k]), Layer2Size(table, e[k]))
    BY <1>1 DEF DumpSubEntry, WithLayer2, Layer2
<1>3. headed = IF NeedsLayer1(base, v) THEN Headers(base) ELSE base
    BY <1>1 DEF WithLayer1, Layer1
<1>4. /\ Layer1Size(entry) \in Nat /\ Layer1Size(entry) <= Layer1Max /\ Layer1Max \in Nat
      /\ Layer2Size(table, e[k]) \in Nat /\ Layer2Size(table, e[k]) <= Layer2Max(table)
      /\ Layer2Max(table) \in Nat /\ Layer2Max(table) <= Layer2Max("NONE") /\ Layer2Max("NONE") \in Nat
    <2>1. Len(entry[1]) \in 0..MaxIds /\ MaxIds \in Nat
        BY IdsAssumption DEF Shown, Typed
    <2>2. Layer1Size(entry) \in Nat /\ Layer1Size(entry) <= Layer1Max /\ Layer1Max \in Nat
        BY <2>1 DEF Layer1Size, Layer1Max
    <2>3. QED BY <2>2 DEF Layer2Size, Layer2Max
<1>5. HeaderSize \in Nat /\ BlockSize \in Nat /\ HeaderSize + Layer1Max + Layer2Max("NONE") <= BlockSize
    BY BlockAssumption
<1>6. d.offset \in Nat /\ d.offset = BlockLength(d.block)
    BY DEF Good, Dumps
<1> HIDE DEF w, v
<1>7. /\ Good(base, e, done, heads) /\ AtHand(base, table, entry) /\ base.threw = d.threw
      /\ base.offset + Layer2Max(table) + (IF NeedsLayer1(base, v) THEN Layer1Max ELSE 0) <= BlockSize
      /\ base.offset \in Nat
    <2>1. CASE d.offset + need > BlockSize
        <3>1. d.block # <<>>
            <4>1. ASSUME d.block = <<>> PROVE FALSE
                <5>1. d.offset = HeaderSize
                    BY <4>1, <1>6, LengthOfNone
                <5>2. need <= Layer1Max + Layer2Max("NONE") /\ need \in Nat
                    BY <1>4
                <5> HIDE DEF need
                <5>3. QED BY <5>1, <5>2, <2>1, <1>4, <1>5
            <4>2. QED BY <4>1
        <3>2. /\ Good(Flushed(d), e, done, {}) /\ Flushed(d).block = <<>>
              /\ Flushed(d).offset = HeaderSize /\ Flushed(d).threw = d.threw
            BY <3>1, FlushKeeps
        <3>3. base = Flushed(d)
            BY <2>1
        <3>4. Good(base, e, done, heads)
            BY <3>2, <3>3, MoreHeads
        <3> HIDE DEF base
        <3>5. AtHand(base, table, entry)
            <4>1. Len(base.block) = 0
                BY <3>2, <3>3
            <4>2. QED BY <4>1 DEF AtHand
        <3>6. base.offset + Layer2Max(table) + (IF NeedsLayer1(base, v) THEN Layer1Max ELSE 0) <= BlockSize
            BY <3>2, <3>3, <1>4, <1>5
        <3>7. QED BY <3>2, <3>3, <3>4, <3>5, <3>6, <1>5
    <2>2. CASE ~(d.offset + need > BlockSize)
        <3>1. base = d
            BY <2>2
        <3>2. d.offset + need <= BlockSize
            BY <2>2, <1>4, <1>5, <1>6
        <3> HIDE DEF base
        <3>3. QED BY <3>1, <3>2, <1>4, <1>6
    <2>3. QED BY <2>1, <2>2
<1> HIDE DEF base
<1>8. /\ Good(headed, e, done, heads) /\ AtHand(headed, table, entry) /\ headed.threw = d.threw
      /\ headed.offset + Layer2Size(table, e[k]) <= BlockSize
      /\ ~NeedsLayer1(headed, v)
    <2>1. CASE NeedsLayer1(base, v)
        <3>1. headed = Headers(base)
            BY <2>1, <1>3
        <3> HIDE DEF headed
        <3>2. base.offset + Layer1Size(entry) <= BlockSize
              /\ base.offset + Layer1Size(entry) + Layer2Size(table, e[k]) <= BlockSize
            BY <2>1, <1>4, <1>5, <1>7
        <3>3. /\ Good(headed, e, done, heads) /\ headed.threw = base.threw /\ AtHand(headed, table, entry)
              /\ headed.offset = base.offset + Layer1Size(entry)
              /\ Layer1(table, entry) = headed.block[Len(headed.block)] /\ Len(headed.block) \in Nat \ {0}
            BY <2>1, <3>1, <3>2, <1>7, HeadAdded DEF v
        <3>4. ~NeedsLayer1(headed, v)
            <4>1. Len(headed.block) \in 1..Len(headed.block)
                BY <3>3
            <4>2. headed.block[Len(headed.block)] = [layer |-> 1, table |-> table, entry |-> entry]
                BY <3>3 DEF Layer1
            <4>3. QED BY <4>1, <4>2 DEF NeedsLayer1, v
        <3>5. QED BY <3>2, <3>3, <3>4, <1>7
    <2>2. CASE ~NeedsLayer1(base, v)
        <3>1. headed = base
            BY <2>2, <1>3
        <3> HIDE DEF headed
        <3>2. QED BY <3>1, <2>2, <1>4, <1>5, <1>7
    <2>3. QED BY <2>1, <2>2
<1> HIDE DEF headed
<1>9. QED BY <1>2, <1>8, SubAdded DEF v

-----------------------------------------------------------------------------

(***************************************************************************)
(* VQStatsRtsmDumper: the walks over the tables.                           *)
(***************************************************************************)

\* An order of a finite set passes each member once.
LEMMA OrderPasses ==
    ASSUME NEW S, IsFiniteSet(S), NEW f \in Orders(S)
    PROVE  /\ Cardinality(S) \in Nat /\ f \in [1..Cardinality(S) -> S] /\ DOMAIN f = 1..Cardinality(S)
           /\ \A i, j \in 1..Cardinality(S) : f[i] = f[j] => i = j
           /\ \A x \in S : \E i \in 1..Cardinality(S) : f[i] = x
<1> DEFINE N == Cardinality(S)
<1>1. N \in Nat
    BY FS_CardinalityType
<1>2. f \in [1..N -> S] /\ \A i, j \in 1..N : f[i] = f[j] => i = j
    BY DEF Orders
<1>3. IsFiniteSet(1..N) /\ Cardinality(1..N) = N
    BY <1>1, FS_Interval
<1>4. f \in Injection(1..N, S)
    BY <1>2 DEF Injection, IsInjective
<1>5. f \in Surjection(1..N, S)
    BY <1>3, <1>4, FS_Injection
<1>6. QED BY <1>1, <1>2, <1>5 DEF Surjection

\* The dumps behind the first N sub entries of a walk.
Afters(A, d, walk, N) ==
    A = [i \in 0..N |-> IF i = 0 THEN d ELSE DumpSubEntry(A[i - 1], walk[i])]

LEMMA AftersAre ==
    ASSUME NEW A, NEW d, NEW walk, NEW N \in Nat, Afters(A, d, walk, N)
    PROVE  /\ A[0] = d
           /\ \A i \in 1..N : A[i] = DumpSubEntry(A[i - 1], walk[i])
<1>1. A[0] = d
    BY DEF Afters
<1>2. ASSUME NEW i \in 1..N PROVE A[i] = DumpSubEntry(A[i - 1], walk[i])
    <2>1. i \in 0..N /\ i # 0
        OBVIOUS
    <2>2. QED BY <2>1 DEF Afters
<1>3. QED BY <1>1, <1>2

LEMMA AftersExist ==
    ASSUME NEW d, NEW walk, NEW N \in Nat
    PROVE  \E A : Afters(A, d, walk, N)
<1> DEFINE Bad == {k \in Nat : ~\E A : Afters(A, d, walk, k)}
<1>1. SUFFICES ASSUME Bad # {} PROVE FALSE
    OBVIOUS
<1>2. PICK m \in Bad : \A k \in Bad : m <= k
    <2>1. Bad \subseteq Nat
        OBVIOUS
    <2> HIDE DEF Bad
    <2>2. QED BY <1>1, <2>1, LeastNatural
<1>3. m # 0
    <2>1. Afters([i \in 0..0 |-> d], d, walk, 0)
        BY DEF Afters
    <2>2. QED BY <2>1
<1>4. m \in Nat /\ m - 1 \in Nat /\ m - 1 \notin Bad
    BY <1>2, <1>3
<1>5. PICK A : Afters(A, d, walk, m - 1)
    BY <1>4
<1> DEFINE Row(F, i) == IF i = 0 THEN d ELSE DumpSubEntry(F[i - 1], walk[i])
           B == [i \in 0..m |-> IF i = m THEN Row(A, m) ELSE A[i]]
<1>6. A = [i \in 0..(m - 1) |-> Row(A, i)]
    BY <1>5 DEF Afters
<1>7. \A i \in 0..m : B[i] = Row(B, i)
    <2> TAKE i \in 0..m
    <2>1. i # 0 => i - 1 \in 0..m /\ i - 1 # m
        BY <1>4
    <2>2. i # 0 => B[i - 1] = A[i - 1]
        BY <2>1
    <2>3. Row(B, i) = Row(A, i)
        <3> HIDE DEF B
        <3>1. QED BY <2>2
    <2> HIDE DEF Row
    <2>4. CASE i = m
        BY <2>3, <2>4
    <2>5. CASE i # m
        <3>1. i \in 0..(m - 1)
            BY <2>5, <1>4
        <3>2. QED BY <2>3, <2>5, <3>1, <1>6
    <2>6. QED BY <2>4, <2>5
<1>8. B = [i \in 0..m |-> Row(B, i)]
    <2>1. B = [i \in 0..m |-> B[i]]
        OBVIOUS
    <2> HIDE DEF B, Row
    <2>2. QED BY <2>1, <1>7
<1>9. Afters(B, d, walk, m)
    <2> HIDE DEF B
    <2>1. QED BY <1>8 DEF Afters
<1>10. QED BY <1>2, <1>9

LEMMA DumpAllIs ==
    ASSUME NEW d, NEW walk, Len(walk) \in Nat
    PROVE  \E A : Afters(A, d, walk, Len(walk)) /\ DumpAll(d, walk) = A[Len(walk)]
<1> DEFINE after[i \in 0..Len(walk)] ==
            IF i = 0 THEN d ELSE DumpSubEntry(after[i - 1], walk[i])
<1>1. DumpAll(d, walk) = after[Len(walk)]
    BY DEF DumpAll
<1>2. after = CHOOSE A : A = [i \in 0..Len(walk) |->
            IF i = 0 THEN d ELSE DumpSubEntry(A[i - 1], walk[i])]
    BY DEF after
<1> HIDE DEF after
<1>3. PICK A : Afters(A, d, walk, Len(walk))
    BY AftersExist
<1>4. A = [i \in 0..Len(walk) |-> IF i = 0 THEN d ELSE DumpSubEntry(A[i - 1], walk[i])]
    BY <1>3 DEF Afters
<1>5. after = [i \in 0..Len(walk) |-> IF i = 0 THEN d ELSE DumpSubEntry(after[i - 1], walk[i])]
    BY <1>2, <1>4
<1>6. Afters(after, d, walk, Len(walk))
    BY <1>5 DEF Afters
<1>7. QED BY <1>1, <1>6

\* The sub entries to show of an entry.
SubsOf(e, table, entry) == {k \in DOMAIN e : k.table = table /\ k.entry = entry /\ HasData(e[k])}

LEMMA EntryDumped ==
    ASSUME NEW e, Typed(e), NEW d, NEW done, NEW heads, Good(d, e, done, heads),
           NEW table \in Tables, NEW entry, NEW shown \in Shown(e),
           <<table, shown>> \notin heads, table = "NONE" => entry = shown,
           SubsOf(e, table, entry) \cap done = {},
           NEW walk \in SubWalks(e, table, entry, shown)
    PROVE  /\ Good(DumpAll(d, walk), e, done \cup SubsOf(e, table, entry), heads \cup {<<table, shown>>})
           /\ DumpAll(d, walk).threw = d.threw
<1> DEFINE K == SubsOf(e, table, entry)
           N == Cardinality(K)
           more == heads \cup {<<table, shown>>}
<1>1. IsFiniteSet(K)
    <2>1. K \in SUBSET DOMAIN e /\ IsFiniteSet(DOMAIN e)
        BY DEF SubsOf, Typed
    <2>2. QED BY <2>1, FS_Subset
<1>2. PICK f \in Orders(K) : walk = [n \in DOMAIN f |-> [table |-> table, entry |-> shown, key |-> f[n], sub |-> e[f[n]]]]
    BY DEF SubWalks, SubsOf
<1>3. /\ N \in Nat /\ f \in [1..N -> K] /\ DOMAIN f = 1..N
      /\ \A i, j \in 1..N : f[i] = f[j] => i = j
      /\ \A x \in K : \E i \in 1..N : f[i] = x
    BY <1>1, OrderPasses
<1> HIDE DEF K, N
<1>4. Len(walk) = N /\ \A i \in 1..N : walk[i] = [table |-> table, entry |-> shown, key |-> f[i], sub |-> e[f[i]]]
    BY <1>2, <1>3
<1>5. PICK A : Afters(A, d, walk, N) /\ DumpAll(d, walk) = A[N]
    BY <1>3, <1>4, DumpAllIs
<1> DEFINE Passed(n) == {f[i] : i \in 1..n}
           Fine(n) == Good(A[n], e, done \cup Passed(n), more) /\ AtHand(A[n], table, shown) /\ A[n].threw = d.threw
           Bad == {n \in 0..N : ~Fine(n)}
<1> HIDE DEF Fine
<1>6. Bad = {}
    <2>1. SUFFICES ASSUME Bad # {} PROVE FALSE
        OBVIOUS
    <2>2. PICK m \in Bad : \A k \in Bad : m <= k
        <3>1. Bad \subseteq Nat
            BY <1>3
        <3> HIDE DEF Bad
        <3>2. QED BY <2>1, <3>1, LeastNatural
    <2>3. m # 0
        <3>1. A[0] = d
            BY <1>3, <1>5, AftersAre
        <3>2. AtHand(d, table, shown)
            <4> SUFFICES ASSUME NEW j \in 1..Len(d.block), d.block[j] = Layer1(table, shown) PROVE FALSE
                BY DEF AtHand
            <4>1. d.block[j].layer = 1 /\ d.block[j].table = table /\ d.block[j].entry = shown
                BY DEF Layer1
            <4>2. QED BY <4>1 DEF Good
        <3>3. Passed(0) = {}
            OBVIOUS
        <3> HIDE DEF Passed
        <3>4. Good(d, e, done \cup Passed(0), more)
            <4>1. done \cup Passed(0) = done /\ heads \subseteq more
                BY <3>3
            <4> HIDE DEF more
            <4>2. QED BY <4>1, MoreHeads
        <3>5. Fine(0)
            BY <3>1, <3>2, <3>4 DEF Fine
        <3>6. QED BY <3>5, <2>2
    <2>4. m \in 1..N /\ m - 1 \in 0..N /\ m - 1 \notin Bad /\ m \in Nat
        BY <2>2, <2>3, <1>3
    <2>5. Fine(m - 1)
        BY <2>4
    <2>6. A[m] = DumpSubEntry(A[m - 1], walk[m])
        BY <1>3, <1>5, <2>4, AftersAre
    <2>7. walk[m] = [table |-> table, entry |-> shown, key |-> f[m], sub |-> e[f[m]]]
        BY <1>4, <2>4
    <2>8. f[m] \in K /\ f[m] \notin Passed(m - 1)
        <3>1. f[m] \in K
            BY <1>3, <2>4
        <3>2. \A i \in 1..(m - 1) : i \in 1..N /\ i # m
            BY <1>3, <2>4
        <3>3. QED BY <3>1, <3>2, <1>3, <2>4
    <2>9. f[m] \in DOMAIN e \ (done \cup Passed(m - 1)) /\ f[m].table = table /\ (table = "NONE" => f[m].entry = shown)
        <3> HIDE DEF Passed
        <3>1. QED BY <2>8 DEF K, SubsOf
    <2>10. Passed(m - 1) \cup {f[m]} = Passed(m)
        <3>1. \A i : i \in 1..m <=> i \in 1..(m - 1) \/ i = m
            BY <2>4
        <3>2. QED BY <3>1
    <2> HIDE DEF Passed
    <2>11. /\ Good(A[m], e, (done \cup Passed(m - 1)) \cup {f[m]}, more) /\ AtHand(A[m], table, shown)
           /\ A[m].threw = A[m - 1].threw
        <3>1. <<table, shown>> \in more
            OBVIOUS
        <3> HIDE DEF more
        <3>2. QED BY <3>1, <2>5, <2>6, <2>7, <2>9, SubEntryDumped DEF Fine
    <2>12. (done \cup Passed(m - 1)) \cup {f[m]} = done \cup Passed(m)
        BY <2>10
    <2>13. Fine(m)
        BY <2>5, <2>11, <2>12 DEF Fine
    <2>14. QED BY <2>2, <2>13
<1>7. Fine(N)
    BY <1>3, <1>6
<1>8. Passed(N) = K
    BY <1>3
<1> HIDE DEF Passed
<1>9. QED BY <1>5, <1>7, <1>8 DEF K, Fine

\* The dumps behind a visit, and behind the first N visits.
Visit(dumps, e, table, v) ==
    {DumpAll(before, walk) : before \in dumps, walk \in SubWalks(e, table, v.entry, v.shown)}

Visited(A, e, table, visits, d, N) ==
    A = [n \in 0..N |-> IF n = 0 THEN {d} ELSE Visit(A[n - 1], e, table, visits[n])]

LEMMA VisitedAre ==
    ASSUME NEW A, NEW e, NEW table, NEW visits, NEW d, NEW N \in Nat, Visited(A, e, table, visits, d, N)
    PROVE  /\ A[0] = {d}
           /\ \A n \in 1..N : \A x \in A[n] :
                  \E before \in A[n - 1], walk \in SubWalks(e, table, visits[n].entry, visits[n].shown) :
                      x = DumpAll(before, walk)
<1>1. A[0] = {d}
    BY DEF Visited
<1>2. ASSUME NEW n \in 1..N
      PROVE  A[n] = Visit(A[n - 1], e, table, visits[n])
    <2>1. n \in 0..N /\ n # 0
        OBVIOUS
    <2>2. QED BY <2>1 DEF Visited
<1>3. QED BY <1>1, <1>2 DEF Visit

LEMMA VisitedExist ==
    ASSUME NEW e, NEW table, NEW visits, NEW d, NEW N \in Nat
    PROVE  \E A : Visited(A, e, table, visits, d, N)
<1> DEFINE Bad == {k \in Nat : ~\E A : Visited(A, e, table, visits, d, k)}
<1>1. SUFFICES ASSUME Bad # {} PROVE FALSE
    OBVIOUS
<1>2. PICK m \in Bad : \A k \in Bad : m <= k
    <2>1. Bad \subseteq Nat
        OBVIOUS
    <2> HIDE DEF Bad
    <2>2. QED BY <1>1, <2>1, LeastNatural
<1> DEFINE Row(F, n) == IF n = 0 THEN {d} ELSE Visit(F[n - 1], e, table, visits[n])
<1>3. m # 0
    <2>1. [n \in 0..0 |-> {d}] = [n \in 0..0 |-> Row([k \in 0..0 |-> {d}], n)]
        OBVIOUS
    <2>2. Visited([n \in 0..0 |-> {d}], e, table, visits, d, 0)
        BY <2>1 DEF Visited
    <2>3. QED BY <2>2
<1>4. m \in Nat /\ m - 1 \in Nat /\ m - 1 \notin Bad
    BY <1>2, <1>3
<1>5. PICK A : Visited(A, e, table, visits, d, m - 1)
    BY <1>4
<1> DEFINE B == [n \in 0..m |-> IF n = m THEN Row(A, m) ELSE A[n]]
<1>6. A = [n \in 0..(m - 1) |-> Row(A, n)]
    BY <1>5 DEF Visited
<1>7. \A n \in 0..m : B[n] = Row(B, n)
    <2> TAKE n \in 0..m
    <2>1. n # 0 => n - 1 \in 0..m /\ n - 1 # m
        BY <1>4
    <2> HIDE DEF Row
    <2>2. n # 0 => B[n - 1] = A[n - 1]
        BY <2>1
    <2>3. Row(B, n) = Row(A, n)
        <3> HIDE DEF B
        <3>1. QED BY <2>2 DEF Row
    <2>4. CASE n = m
        BY <2>3, <2>4
    <2>5. CASE n # m
        <3>1. n \in 0..(m - 1)
            BY <2>5, <1>4
        <3>2. QED BY <2>3, <2>5, <3>1, <1>6
    <2>6. QED BY <2>4, <2>5
<1>8. B = [n \in 0..m |-> Row(B, n)]
    <2> HIDE DEF Row
    <2>1. B = [n \in 0..m |-> B[n]]
        OBVIOUS
    <2> HIDE DEF B
    <2>2. QED BY <2>1, <1>7
<1>9. Visited(B, e, table, visits, d, m)
    <2> HIDE DEF B
    <2>1. QED BY <1>8 DEF Visited
<1>10. QED BY <1>2, <1>9

LEMMA DumpVisitsIs ==
    ASSUME NEW e, NEW table, NEW visits, NEW d, Len(visits) \in Nat
    PROVE  \E A : Visited(A, e, table, visits, d, Len(visits)) /\ DumpVisits(e, table, visits, d) = A[Len(visits)]
<1> DEFINE dumps[n \in 0..Len(visits)] ==
            IF n = 0 THEN {d}
            ELSE {DumpAll(before, walk) : before \in dumps[n - 1],
                     walk \in SubWalks(e, table, visits[n].entry, visits[n].shown)}
<1>1. DumpVisits(e, table, visits, d) = dumps[Len(visits)]
    BY DEF DumpVisits
<1>2. dumps = CHOOSE A : Visited(A, e, table, visits, d, Len(visits))
    BY DEF dumps, Visited, Visit
<1> HIDE DEF dumps
<1>3. Visited(dumps, e, table, visits, d, Len(visits))
    <2>1. PICK A : Visited(A, e, table, visits, d, Len(visits))
        BY VisitedExist
    <2>2. QED BY <2>1, <1>2
<1>4. QED BY <1>1, <1>3

\* The sub entries to show behind the visits, and the heads they may leave.
SubsBehind(e, table, visits, n) ==
    {k \in DOMAIN e : k.table = table /\ HasData(e[k]) /\ \E i \in 1..n : k.entry = visits[i].entry}

HeadsBehind(table, visits, n) == {<<table, visits[i].shown>> : i \in 1..n}

\* Visits to distinct entries, shown as distinct ones.
LEMMA VisitsDumped ==
    ASSUME NEW e, Typed(e), NEW table \in Tables, NEW visits, NEW N \in Nat, Len(visits) = N,
           \A n \in 1..N : visits[n].shown \in Shown(e)
                           /\ (table = "NONE" => visits[n].entry = visits[n].shown),
           \A n, m \in 1..N : n # m => visits[n].entry # visits[m].entry /\ visits[n].shown # visits[m].shown,
           NEW d \in DumpVisits(e, table, visits, NewDump)
    PROVE  Good(d, e, SubsBehind(e, table, visits, N), HeadsBehind(table, visits, N)) /\ ~d.threw
<1>1. PICK A : Visited(A, e, table, visits, NewDump, N) /\ DumpVisits(e, table, visits, NewDump) = A[N]
    BY DumpVisitsIs
<1> DEFINE Done(n) == SubsBehind(e, table, visits, n)
           Heads(n) == HeadsBehind(table, visits, n)
           Fine(n) == \A x \in A[n] : Good(x, e, Done(n), Heads(n)) /\ ~x.threw
           Bad == {n \in 0..N : ~Fine(n)}
<1> HIDE DEF Fine
<1>2. Bad = {}
    <2>1. SUFFICES ASSUME Bad # {} PROVE FALSE
        OBVIOUS
    <2>2. PICK m \in Bad : \A k \in Bad : m <= k
        <3>1. Bad \subseteq Nat
            OBVIOUS
        <3> HIDE DEF Bad
        <3>2. QED BY <2>1, <3>1, LeastNatural
    <2>3. m # 0
        <3>1. A[0] = {NewDump}
            BY <1>1, VisitedAre
        <3>2. Done(0) = {} /\ Heads(0) = {}
            BY DEF SubsBehind, HeadsBehind
        <3> HIDE DEF Done, Heads
        <3>3. Fine(0)
            BY <3>1, <3>2, NewIsGood DEF Fine
        <3>4. QED BY <3>3, <2>2
    <2>4. m \in 1..N /\ m - 1 \in 0..N /\ m - 1 \notin Bad /\ m \in Nat
        BY <2>2, <2>3
    <2>5. Fine(m - 1)
        BY <2>4
    <2> DEFINE entry == visits[m].entry
               shown == visits[m].shown
    <2>6. shown \in Shown(e) /\ (table = "NONE" => entry = shown)
        BY <2>4
    <2>7. \A i \in 1..(m - 1) : entry # visits[i].entry /\ shown # visits[i].shown
        <3> TAKE i \in 1..(m - 1)
        <3>1. i \in 1..N /\ i # m
            BY <2>4
        <3>2. QED BY <3>1, <2>4
    <2>8. \A i : i \in 1..m <=> i \in 1..(m - 1) \/ i = m
        BY <2>4
    <2>9. SubsOf(e, table, entry) \cap Done(m - 1) = {} /\ Done(m - 1) \cup SubsOf(e, table, entry) = Done(m)
        BY <2>7, <2>8 DEF SubsOf, SubsBehind
    <2>10. <<table, shown>> \notin Heads(m - 1) /\ Heads(m - 1) \cup {<<table, shown>>} = Heads(m)
        BY <2>7, <2>8 DEF HeadsBehind
    <2> HIDE DEF entry, shown, Done, Heads
    <2>11. ASSUME NEW x \in A[m] PROVE Good(x, e, Done(m), Heads(m)) /\ ~x.threw
        <3>1. PICK before \in A[m - 1], walk \in SubWalks(e, table, entry, shown) : x = DumpAll(before, walk)
            BY <1>1, <2>4, VisitedAre DEF entry, shown
        <3>2. Good(before, e, Done(m - 1), Heads(m - 1)) /\ ~before.threw
            BY <2>5 DEF Fine
        <3>3. /\ Good(x, e, Done(m - 1) \cup SubsOf(e, table, entry), Heads(m - 1) \cup {<<table, shown>>})
              /\ x.threw = before.threw
            <4>1. PICK done, heads : done = Done(m - 1) /\ heads = Heads(m - 1)
                OBVIOUS
            <4>2. /\ SubsOf(e, table, entry) \cap done = {} /\ <<table, shown>> \notin heads
                  /\ Good(before, e, done, heads)
                BY <2>9, <2>10, <3>2, <4>1
            <4>3. /\ Good(DumpAll(before, walk), e, done \cup SubsOf(e, table, entry), heads \cup {<<table, shown>>})
                  /\ DumpAll(before, walk).threw = before.threw
                <5> HIDE DEF Bad
                <5>1. QED BY ONLY Typed(e), table \in Tables, walk \in SubWalks(e, table, entry, shown),
                             <2>6, <4>2, EntryDumped
            <4>4. QED BY <3>1, <4>1, <4>3
        <3>4. QED BY <3>2, <3>3, <2>9, <2>10
    <2>12. Fine(m)
        BY <2>11 DEF Fine
    <2>13. QED BY <2>2, <2>12
<1>3. Fine(N)
    BY <1>2
<1>4. QED BY <1>1, <1>3 DEF Fine

\* The entries of a table are as finite as its sub entries.
LEMMA EntriesFinite ==
    ASSUME NEW e, Typed(e), NEW table
    PROVE  IsFiniteSet(EntriesOf(e, table)) /\ EntriesOf(e, table) \subseteq Shown(e)
<1> DEFINE K == {k \in DOMAIN e : k.table = table}
           S == {k.entry : k \in K}
           f == [k \in K |-> k.entry]
<1>1. IsFiniteSet(K)
    <2>1. K \in SUBSET DOMAIN e /\ IsFiniteSet(DOMAIN e)
        BY DEF Typed
    <2>2. QED BY <2>1, FS_Subset
<1>2. f \in Surjection(K, S)
    BY DEF Surjection
<1>3. IsFiniteSet(S)
    BY <1>1, <1>2, FS_Surjection
<1>4. EntriesOf(e, table) = S /\ S \subseteq Shown(e)
    BY DEF EntriesOf, Shown
<1>5. QED BY <1>3, <1>4

LEMMA ConnDumped ==
    ASSUME NEW e, Typed(e), NEW d \in DumpConn(e, NewDump)
    PROVE  /\ \E heads : Good(d, e, {k \in DOMAIN e : k.table = "NONE" /\ HasData(e[k])}, heads)
           /\ ~d.threw
<1> DEFINE S == EntriesOf(e, "NONE")
           N == Cardinality(S)
<1>1. PICK f \in Orders(S) :
          d \in DumpVisits(e, "NONE", [n \in DOMAIN f |-> [entry |-> f[n], shown |-> f[n]]], NewDump)
    BY DEF DumpConn
<1>2. IsFiniteSet(S) /\ S \subseteq Shown(e)
    BY EntriesFinite
<1>3. /\ N \in Nat /\ f \in [1..N -> S] /\ DOMAIN f = 1..N
      /\ \A i, j \in 1..N : f[i] = f[j] => i = j
      /\ \A x \in S : \E i \in 1..N : f[i] = x
    BY <1>2, OrderPasses
<1> DEFINE visits == [n \in DOMAIN f |-> [entry |-> f[n], shown |-> f[n]]]
<1>4. Len(visits) = N /\ \A n \in 1..N : visits[n].entry = f[n] /\ visits[n].shown = f[n]
    BY <1>3
<1>5. d \in DumpVisits(e, "NONE", visits, NewDump)
    BY <1>1
<1> HIDE DEF S, N, visits
<1>6. Good(d, e, SubsBehind(e, "NONE", visits, N), HeadsBehind("NONE", visits, N)) /\ ~d.threw
    <2>1. "NONE" \in Tables
        BY DEF Tables
    <2>2. \A n \in 1..N : visits[n].shown \in Shown(e) /\ visits[n].entry = visits[n].shown
        BY <1>2, <1>3, <1>4
    <2>3. \A n, m \in 1..N : n # m => visits[n].entry # visits[m].entry /\ visits[n].shown # visits[m].shown
        BY <1>3, <1>4
    <2>4. N \in Nat /\ Len(visits) = N
        BY <1>3, <1>4
    <2>5. QED BY ONLY Typed(e), <2>1, <2>2, <2>3, <2>4, <1>5, VisitsDumped
<1>7. SubsBehind(e, "NONE", visits, N) = {k \in DOMAIN e : k.table = "NONE" /\ HasData(e[k])}
    <2>1. \A k \in DOMAIN e : k.table = "NONE" => \E i \in 1..N : k.entry = visits[i].entry
        <3> SUFFICES ASSUME NEW k \in DOMAIN e, k.table = "NONE" PROVE \E i \in 1..N : k.entry = visits[i].entry
            OBVIOUS
        <3>1. k.entry \in S
            BY DEF S, EntriesOf
        <3>2. QED BY <3>1, <1>3, <1>4
    <2>2. QED BY <2>1 DEF SubsBehind
<1>8. QED BY <1>6, <1>7

LEMMA TunnelDumped ==
    ASSUME NEW e, Typed(e), NEW table \in {"GTP", "GRE"}, NEW d \in DumpTunnel(e, table, NewDump)
    PROVE  \/ d = NewDump /\ EntriesOf(e, table) = {}
           \/ EntriesOf(e, table) # {} /\ d.threw /\ \E done, heads : Good(d, e, done, heads)
<1> DEFINE S == EntriesOf(e, table)
           N == Cardinality(S)
           late(f) == [n \in 1..(Len(f) - 1) |-> [entry |-> f[n + 1], shown |-> f[n]]]
<1>1. CASE S = {}
    BY <1>1 DEF DumpTunnel
<1>2. CASE S # {}
    <2>1. PICK f \in Orders(S) : \E x \in DumpVisits(e, table, late(f), NewDump) : d = [x EXCEPT !.threw = TRUE]
        BY <1>2 DEF DumpTunnel
    <2>2. PICK x \in DumpVisits(e, table, late(f), NewDump) : d = [x EXCEPT !.threw = TRUE]
        BY <2>1
    <2>3. IsFiniteSet(S) /\ S \subseteq Shown(e)
        BY EntriesFinite
    <2>4. /\ N \in Nat /\ f \in [1..N -> S] /\ DOMAIN f = 1..N
          /\ \A i, j \in 1..N : f[i] = f[j] => i = j
        BY <2>3, OrderPasses
    <2>5. N # 0
        BY <1>2, <2>3, FS_EmptySet
    <2> DEFINE visits == late(f)
               M == N - 1
    <2>6. /\ M \in Nat /\ Len(visits) = M
          /\ \A n \in 1..M : visits[n].entry = f[n + 1] /\ visits[n].shown = f[n] /\ n \in 1..N /\ n + 1 \in 1..N
        <3>1. Len(f) = N
            BY <2>4
        <3> HIDE DEF N
        <3>2. M \in Nat /\ DOMAIN visits = 1..M
            BY <3>1, <2>4, <2>5
        <3>3. QED BY <3>1, <3>2, <2>4
    <2> HIDE DEF S, N, visits, M
    <2>7. Good(x, e, SubsBehind(e, table, visits, M), HeadsBehind(table, visits, M))
        <3>1. table \in Tables /\ table # "NONE"
            BY DEF Tables
        <3>2. \A n \in 1..M : visits[n].shown \in Shown(e)
            BY <2>3, <2>4, <2>6
        <3>3. \A n, m \in 1..M : n # m => visits[n].entry # visits[m].entry /\ visits[n].shown # visits[m].shown
            <4> TAKE n, m \in 1..M
            <4>1. n # m => n + 1 # m + 1
                BY <2>6
            <4>2. QED BY <4>1, <2>4, <2>6
        <3>4. x \in DumpVisits(e, table, visits, NewDump)
            BY <2>2 DEF visits
        <3>5. QED BY <3>1, <3>2, <3>3, <3>4, <2>6, VisitsDumped
    <2>8. Good(d, e, SubsBehind(e, table, visits, M), HeadsBehind(table, visits, M)) /\ d.threw
        <3>1. x \in Dumps(e)
            BY <2>7 DEF Good
        <3>2. d \in Dumps(e)
            <4>1. x.sent \in Seq(Seq(Records(e))) /\ x.block \in Seq(Records(e)) /\ x.offset \in Nat
                BY <3>1 DEF Dumps
            <4>2. QED BY <4>1, <3>1, <2>2, DumpEdited
        <3>3. d.sent = x.sent /\ d.block = x.block /\ d.offset = x.offset /\ d.threw = TRUE
            BY <3>1, <2>2 DEF Dumps
        <3>4. \A n, i, k : Shows(d, n, i, k) <=> Shows(x, n, i, k)
            BY <3>3 DEF Shows, BlockAt
        <3>5. QED BY <3>2, <3>3, <3>4, <2>7 DEF Good, OnceEach
    <2>9. QED BY <2>8, <1>2 DEF S
<1>3. QED BY <1>1, <1>2

\* An output: what left with an exception, or every connection to show.
LEMMA OutputIs ==
    ASSUME NEW e, Typed(e), NEW o \in OutputStats(e)
    PROVE  \E d, done, heads :
               /\ Good(d, e, done, heads)
               /\ o = IF d.threw \/ d.offset = HeaderSize THEN d ELSE Flushed(d)
               /\ d.threw \/ done = {k \in DOMAIN e : k.table = "NONE" /\ HasData(e[k])}
               /\ d.threw => \E k \in DOMAIN e : k.table # "NONE"
<1> DEFINE gtp == DumpTunnel(e, "GTP", NewDump)
           gre == UNION {IF d.threw THEN {d} ELSE DumpTunnel(e, "GRE", d) : d \in gtp}
           all == UNION {IF d.threw THEN {d} ELSE DumpConn(e, d) : d \in gre}
           Thrown(d) == d.threw /\ (\E done, heads : Good(d, e, done, heads))
                        /\ \E k \in DOMAIN e : k.table # "NONE"
<1>1. PICK d \in all : o = IF d.threw \/ d.offset = HeaderSize THEN d ELSE Flushed(d)
    BY DEF OutputStats
<1>2. \A table \in {"GTP", "GRE"} : EntriesOf(e, table) # {} => \E k \in DOMAIN e : k.table # "NONE"
    BY DEF EntriesOf
<1>3. ASSUME NEW table \in {"GTP", "GRE"}, NEW x \in DumpTunnel(e, table, NewDump) PROVE x = NewDump \/ Thrown(x)
    BY <1>2, TunnelDumped
<1> HIDE DEF Thrown
<1>4. \A x \in gtp : x = NewDump \/ Thrown(x)
    BY <1>3
<1> HIDE DEF gtp
<1>5. \A x \in gre : x = NewDump \/ Thrown(x)
    <2> TAKE x \in gre
    <2>1. PICK y \in gtp : x \in IF y.threw THEN {y} ELSE DumpTunnel(e, "GRE", y)
        OBVIOUS
    <2>2. CASE Thrown(y)
        BY <2>1, <2>2 DEF Thrown
    <2>3. CASE y = NewDump
        <3>1. ~y.threw
            BY <2>3, NewIsGood
        <3>2. x \in DumpTunnel(e, "GRE", NewDump)
            BY <2>1, <2>3, <3>1
        <3>3. QED BY <3>2, <1>3
    <2>4. QED BY <2>2, <2>3, <1>4
<1> HIDE DEF gre
<1>6. PICK y \in gre : d \in IF y.threw THEN {y} ELSE DumpConn(e, y)
    BY <1>1
<1>7. CASE Thrown(y)
    <2>1. d = y
        BY <1>6, <1>7 DEF Thrown
    <2>2. QED BY <2>1, <1>1, <1>7 DEF Thrown
<1>8. CASE y = NewDump
    <2>1. d \in DumpConn(e, NewDump)
        BY <1>6, <1>8, NewIsGood
    <2>2. QED BY <2>1, <1>1, ConnDumped
<1>9. QED BY <1>5, <1>7, <1>8

LEMMA OutputsReadable == ASSUME Typed(entries) PROVE DumpInv
<1> DEFINE e == entries
<1>1. ASSUME NEW o \in OutputStats(e)
      PROVE  \E d, done, heads :
                 /\ Good(d, e, done, heads)
                 /\ o.sent = IF d.threw \/ d.block = <<>> THEN d.sent ELSE Append(d.sent, d.block)
                 /\ o.threw = d.threw
                 /\ d.threw \/ done = {k \in DOMAIN e : k.table = "NONE" /\ HasData(e[k])}
                 /\ d.threw => \E k \in DOMAIN e : k.table # "NONE"
    <2>1. PICK d, done, heads :
              /\ Good(d, e, done, heads)
              /\ o = IF d.threw \/ d.offset = HeaderSize THEN d ELSE Flushed(d)
              /\ d.threw \/ done = {k \in DOMAIN e : k.table = "NONE" /\ HasData(e[k])}
              /\ d.threw => \E k \in DOMAIN e : k.table # "NONE"
        BY <1>1, OutputIs
    <2>2. d \in Dumps(e) /\ d.block \in Seq(Records(e)) /\ d.offset = BlockLength(d.block)
        BY <2>1 DEF Good, Dumps
    <2>3. d.offset = HeaderSize <=> d.block = <<>>
        <3>1. d.block = <<>> => d.offset = HeaderSize
            BY <2>2, LengthOfNone
        <3>2. BlockLength(d.block) >= HeaderSize + Len(d.block) /\ Len(d.block) \in Nat
            BY <2>2, LengthAtLeast, LenProperties
        <3>3. d.offset = HeaderSize => Len(d.block) = 0
            BY <2>2, <3>2, BlockAssumption
        <3>4. QED BY <2>2, <3>1, <3>3, EmptySeq
    <2>4. Flushed(d).sent = Append(d.sent, d.block) /\ Flushed(d).threw = d.threw
        BY <2>2 DEF Flushed, Dumps
    <2>5. /\ o.sent = IF d.threw \/ d.block = <<>> THEN d.sent ELSE Append(d.sent, d.block)
          /\ o.threw = d.threw
        <3> HIDE DEF e
        <3>1. QED BY <2>1, <2>3, <2>4
    <2>6. QED BY <2>1, <2>5
<1>2. ASSUME NEW o \in OutputStats(e), NEW d, NEW done, NEW heads, Good(d, e, done, heads),
             o.sent = IF d.threw \/ d.block = <<>> THEN d.sent ELSE Append(d.sent, d.block)
      PROVE  /\ Len(o.sent) \in Nat /\ DOMAIN o.sent = 1..Len(o.sent) /\ o.sent \in Seq(Seq(Records(e)))
             /\ Len(d.sent) \in Nat /\ Len(d.block) \in Nat
             /\ \A n \in 1..Len(o.sent) : n \in 1..(Len(d.sent) + 1) /\ o.sent[n] = BlockAt(d, n) /\ SentWell(o.sent[n])
             /\ ~d.threw => \A n \in 1..(Len(d.sent) + 1) : n \notin 1..Len(o.sent) => BlockAt(d, n) = <<>>
    <2> DEFINE M == Len(d.sent)
    <2>1. /\ d.sent \in Seq(Seq(Records(e))) /\ d.block \in Seq(Records(e)) /\ M \in Nat /\ Len(d.block) \in Nat
          /\ Headed(d.block) /\ BlockLength(d.block) <= BlockSize
        BY <1>2, LenProperties DEF Good, Dumps
    <2>2. \A n \in 1..M : n # M + 1
        BY <2>1
    <2>3. CASE d.threw \/ d.block = <<>>
        <3>1. o.sent = d.sent
            BY <1>2, <2>3
        <3>2. DOMAIN o.sent = 1..M
            BY <3>1, <2>1
        <3>3. \A n \in 1..M : BlockAt(d, n) = d.sent[n] /\ SentWell(d.sent[n])
            BY <1>2, <2>2 DEF BlockAt, Good
        <3>4. ~d.threw => BlockAt(d, M + 1) = <<>>
            BY <2>3 DEF BlockAt
        <3> HIDE DEF M
        <3>5. QED BY <3>1, <3>2, <3>3, <3>4, <2>1 DEF M
    <2>4. CASE ~d.threw /\ d.block # <<>>
        <3>1. o.sent = Append(d.sent, d.block)
            BY <1>2, <2>4
        <3>2. o.sent \in Seq(Seq(Records(e))) /\ Len(o.sent) = M + 1 /\ o.sent[M + 1] = d.block
              /\ \A n \in 1..M : o.sent[n] = d.sent[n]
            BY <3>1, <2>1, AppendProperties
        <3>3. DOMAIN o.sent = 1..(M + 1)
            BY <3>2
        <3>4. SentWell(d.block)
            BY <2>1, <2>4 DEF SentWell
        <3>5. \A n \in 1..M : BlockAt(d, n) = d.sent[n] /\ SentWell(d.sent[n])
            BY <1>2, <2>2 DEF BlockAt, Good
        <3>6. BlockAt(d, M + 1) = d.block
            BY DEF BlockAt
        <3>7. \A n \in 1..(M + 1) : n \in 1..M \/ n = M + 1
            BY <2>1
        <3>8. \A n \in 1..(M + 1) : o.sent[n] = BlockAt(d, n) /\ SentWell(o.sent[n])
            <4> TAKE n \in 1..(M + 1)
            <4>1. CASE n \in 1..M
                BY <4>1, <3>2, <3>5
            <4>2. CASE n = M + 1
                BY <4>2, <3>2, <3>4, <3>6
            <4>3. QED BY <4>1, <4>2, <3>7
        <3>9. 1..Len(o.sent) = 1..(M + 1) /\ Len(o.sent) \in Nat
            BY <3>2, <2>1
        <3> HIDE DEF M
        <3>10. QED BY <3>2, <3>3, <3>8, <3>9, <2>1 DEF M
    <2>5. QED BY <2>3, <2>4
<1> HIDE DEF e
<1>3. BlocksSelfContained
    <2> SUFFICES ASSUME NEW o \in OutputStats(e), NEW n \in DOMAIN o.sent
                 PROVE  /\ o.sent[n] # <<>> /\ BlockLength(o.sent[n]) <= BlockSize
                        /\ \A i \in DOMAIN o.sent[n] : o.sent[n][i].layer = 2 =>
                              \E j \in 1..(i - 1) :
                                  /\ o.sent[n][j].layer = 1 /\ o.sent[n][j].table = o.sent[n][i].key.table
                                  /\ \A m \in (j + 1)..i : o.sent[n][m].layer = 2
                                  /\ o.sent[n][j].table = "NONE" => o.sent[n][j].entry = o.sent[n][i].key.entry
        BY DEF BlocksSelfContained, e
    <2>1. PICK d, done, heads :
              /\ Good(d, e, done, heads)
              /\ o.sent = IF d.threw \/ d.block = <<>> THEN d.sent ELSE Append(d.sent, d.block)
        BY <1>1
    <2>2. SentWell(o.sent[n]) /\ o.sent[n] \in Seq(Records(e))
        <3>1. n \in 1..Len(o.sent) /\ o.sent \in Seq(Seq(Records(e)))
            BY <2>1, <1>2
        <3>2. QED BY <3>1, <2>1, <1>2, ElementOfSeq
    <2>3. DOMAIN o.sent[n] = 1..Len(o.sent[n])
        BY <2>2
    <2> DEFINE b == o.sent[n]
    <2> HIDE DEF b
    <2>4. SentWell(b) /\ DOMAIN b = 1..Len(b)
        BY <2>2, <2>3 DEF b
    <2>5. ASSUME NEW i \in DOMAIN b, b[i].layer = 2
          PROVE  \E j \in 1..(i - 1) :
                     /\ b[j].layer = 1 /\ b[j].table = b[i].key.table
                     /\ \A m \in (j + 1)..i : b[m].layer = 2
                     /\ b[j].table = "NONE" => b[j].entry = b[i].key.entry
        BY <2>4, <2>5 DEF SentWell, Headed, HeadedAt
    <2>6. QED BY <2>4, <2>5 DEF SentWell, b
<1>4. ActiveReported
    <2> SUFFICES ASSUME \A k \in DOMAIN e : k.table = "NONE", NEW o \in OutputStats(e)
                 PROVE  /\ ~o.threw
                        /\ \A k \in DOMAIN e :
                              Cardinality({pos \in (DOMAIN o.sent) \X (1..BlockSize) :
                                    /\ pos[2] \in DOMAIN o.sent[pos[1]]
                                    /\ o.sent[pos[1]][pos[2]].layer = 2 /\ o.sent[pos[1]][pos[2]].key = k})
                              = IF HasData(e[k]) THEN 1 ELSE 0
        BY DEF ActiveReported, e
    <2>1. PICK d, done, heads :
              /\ Good(d, e, done, heads)
              /\ o.sent = IF d.threw \/ d.block = <<>> THEN d.sent ELSE Append(d.sent, d.block)
              /\ o.threw = d.threw
              /\ d.threw \/ done = {k \in DOMAIN e : k.table = "NONE" /\ HasData(e[k])}
              /\ d.threw => \E k \in DOMAIN e : k.table # "NONE"
        BY <1>1
    <2>2. ~d.threw /\ ~o.threw
        BY <2>1
    <2>3. done = {k \in DOMAIN e : HasData(e[k])}
        BY <2>1, <2>2
    <2>4. /\ Len(o.sent) \in Nat /\ DOMAIN o.sent = 1..Len(o.sent) /\ o.sent \in Seq(Seq(Records(e)))
          /\ \A n \in 1..Len(o.sent) : n \in 1..(Len(d.sent) + 1) /\ o.sent[n] = BlockAt(d, n) /\ SentWell(o.sent[n])
          /\ \A n \in 1..(Len(d.sent) + 1) : n \notin 1..Len(o.sent) => BlockAt(d, n) = <<>>
        BY <2>1, <2>2, <1>2
    <2>5. ASSUME NEW n \in 1..Len(o.sent)
          PROVE  /\ DOMAIN o.sent[n] = 1..Len(o.sent[n])
                 /\ \A i \in 1..Len(o.sent[n]) : i \in 1..BlockSize
        <3>1. o.sent[n] \in Seq(Records(e)) /\ BlockLength(o.sent[n]) <= BlockSize
            BY <2>4, ElementOfSeq DEF SentWell
        <3>2. BlockLength(o.sent[n]) >= HeaderSize + Len(o.sent[n]) /\ BlockLength(o.sent[n]) \in Nat
              /\ Len(o.sent[n]) \in Nat
            BY <3>1, LengthAtLeast, LenProperties DEF e
        <3>3. Len(o.sent[n]) <= BlockSize
            BY <3>1, <3>2, BlockAssumption
        <3>4. QED BY <3>1, <3>2, <3>3, BlockAssumption
    <2>6. ASSUME NEW k \in DOMAIN e
          PROVE  Cardinality({pos \in (DOMAIN o.sent) \X (1..BlockSize) :
                                    /\ pos[2] \in DOMAIN o.sent[pos[1]]
                                    /\ o.sent[pos[1]][pos[2]].layer = 2 /\ o.sent[pos[1]][pos[2]].key = k})
                 = IF HasData(e[k]) THEN 1 ELSE 0
        <3> DEFINE P(pos) == /\ pos[2] \in DOMAIN o.sent[pos[1]]
                            /\ o.sent[pos[1]][pos[2]].layer = 2 /\ o.sent[pos[1]][pos[2]].key = k
                   places == {pos \in (DOMAIN o.sent) \X (1..BlockSize) : P(pos)}
        <3>1. ASSUME NEW n, NEW i, Shows(d, n, i, k) PROVE <<n, i>> \in places
            <4>1. n \in 1..(Len(d.sent) + 1) /\ i \in 1..Len(BlockAt(d, n))
                  /\ BlockAt(d, n)[i].layer = 2 /\ BlockAt(d, n)[i].key = k
                BY <3>1 DEF Shows
            <4>2. n \in 1..Len(o.sent)
                <5>1. Len(<<>>) = 0 /\ 1..0 = {}
                    OBVIOUS
                <5>2. BlockAt(d, n) # <<>>
                    BY <4>1, <5>1
                <5>3. QED BY <4>1, <5>2, <2>4
            <4>3. o.sent[n] = BlockAt(d, n)
                BY <4>2, <2>4
            <4>4. i \in DOMAIN o.sent[n] /\ i \in 1..BlockSize /\ n \in DOMAIN o.sent
                BY <4>1, <4>2, <4>3, <2>4, <2>5
            <4>5. P(<<n, i>>)
                BY <4>1, <4>3, <4>4
            <4> HIDE DEF P
            <4>6. QED BY <4>4, <4>5
        <3>2. ASSUME NEW pos \in places PROVE Shows(d, pos[1], pos[2], k) /\ pos = <<pos[1], pos[2]>>
            <4>1. pos[1] \in 1..Len(o.sent) /\ pos = <<pos[1], pos[2]>> /\ P(pos)
                BY <2>4
            <4>2. pos[1] \in 1..(Len(d.sent) + 1) /\ o.sent[pos[1]] = BlockAt(d, pos[1])
                BY <4>1, <2>4
            <4>3. pos[2] \in 1..Len(o.sent[pos[1]])
                BY <4>1, <2>5
            <4>4. QED BY <4>1, <4>2, <4>3 DEF Shows
        <3>3. OnceEach(d, done)
            BY <2>1 DEF Good
        <3> HIDE DEF places
        <3>4. CASE HasData(e[k])
            <4>1. PICK n, i : Shows(d, n, i, k)
                BY <3>3, <3>4, <2>3 DEF OnceEach
            <4>2. places = {<<n, i>>}
                <5>1. <<n, i>> \in places
                    BY <4>1, <3>1
                <5>2. ASSUME NEW pos \in places PROVE pos = <<n, i>>
                    <6>1. Shows(d, pos[1], pos[2], k) /\ pos = <<pos[1], pos[2]>>
                        BY <3>2
                    <6>2. pos[1] = n /\ pos[2] = i
                        BY <6>1, <4>1, <3>3 DEF OnceEach
                    <6>3. QED BY <6>1, <6>2
                <5>3. QED BY <5>1, <5>2
            <4>3. Cardinality(places) = 1
                BY <4>2, FS_Singleton
            <4>4. QED BY <4>3, <3>4 DEF places
        <3>5. CASE ~HasData(e[k])
            <4>1. k \notin done
                BY <3>5, <2>3
            <4>2. places = {}
                BY <4>1, <3>2, <3>3 DEF OnceEach
            <4>3. Cardinality(places) = 0
                BY <4>2, FS_EmptySet
            <4>4. QED BY <4>3, <3>5 DEF places
        <3>6. QED BY <3>4, <3>5
    <2>7. QED BY <2>2, <2>6
<1>5. QED BY <1>3, <1>4 DEF DumpInv

\* DumpInv: every block of an output fits and names the entry of each of its
\* sub entries, and without tunnels every active connection is in it once.
THEOREM DumpInvHolds == AnalyzerSpec => []DumpInv
<1>1. AnalyzerIInv => DumpInv
    BY OutputsReadable DEF AnalyzerIInv, FlowsInv
<1>2. QED BY <1>1, AnalyzerInvariant, PTL

-----------------------------------------------------------------------------

(***************************************************************************)
(* RtpStream, for every window size, packet set and counter width the      *)
(* assumptions of RtpStreamObject allow.  The inductive invariant is       *)
(* ObjectInv of the detector object: the properties of a valid stream rest *)
(* on what IndicateRtpPacket keeps true of the window while the stream is  *)
(* not valid.                                                              *)
(***************************************************************************)

\* Every call of a public method keeps the object's invariant.
LEMMA StepKeepsObject ==
    ASSUME ObjectInv(stream), [Next]_vars
    PROVE  ObjectInv(stream')
<1>1. ASSUME NEW p \in Packet \cup {NotRtp}, IndicateRtpPacket(p)
      PROVE  ObjectInv(stream')
    BY <1>1, IndicateInv DEF IndicateRtpPacket
<1>2. CASE DetectStream
    BY <1>2, DetectInv DEF DetectStream
<1>3. ASSUME NEW n \in DetectSizes, Reset(n)
      PROVE  ObjectInv(stream')
    BY <1>3, NewStreamInv DEF Reset
<1>4. ASSUME NEW c \in Payloads, SetCodecType(c)
      PROVE  ObjectInv(stream')
    BY <1>4, CodecInv DEF SetCodecType
<1>5. CASE UNCHANGED vars
    BY <1>5 DEF vars
<1>6. QED BY <1>1, <1>2, <1>3, <1>4, <1>5 DEF Next

\* In every reachable state the detector object satisfies ObjectInv.
THEOREM ObjectInvariant == Spec => []ObjectInv(stream)
<1>1. Init => ObjectInv(stream)
    BY NewStreamInv DEF Init
<1>2. ObjectInv(stream) /\ [Next]_vars => ObjectInv(stream)'
    BY StepKeepsObject
<1>3. QED BY <1>1, <1>2, PTL DEF Spec

\* The types of the stream and of the history variable.
THEOREM TypeCorrect == Spec => []TypeOK
<1>1. Init => TypeOK
    BY NewStreamInv DEF Init, TypeOK, ObjectInv
<1>2. ASSUME TypeOK, ObjectInv(stream), [Next]_vars
      PROVE  TypeOK'
    <2>1. stream' \in Stream
        BY <1>2, StepKeepsObject DEF ObjectInv
    <2> DEFINE CountedOK == counted' \in SUBSET SeqNums
    <2>2. ASSUME NEW p \in Packet \cup {NotRtp}, IndicateRtpPacket(p)
          PROVE  CountedOK
        <3>1. CASE ~IsNoise(stream, p) /\ ~IsDuplicate(stream, p)
            <4>1. p \in Packet
                BY <3>1 DEF IsNoise
            <4>2. p.seq \in SeqNums
                BY <4>1 DEF Packet
            <4>3. QED BY <1>2, <2>2, <3>1, <4>2 DEF IndicateRtpPacket, TypeOK
        <3>2. CASE IsNoise(stream, p) \/ IsDuplicate(stream, p)
            BY <1>2, <2>2, <3>2 DEF IndicateRtpPacket, TypeOK
        <3>3. QED BY <3>1, <3>2
    <2>3. ASSUME DetectStream PROVE CountedOK
        <3>1. \A i \in 1..Len(stream.window) : stream.window[i].seq \in SeqNums
            <4>1. stream.window \in Seq(Packet)
                BY <1>2 DEF TypeOK, Stream
            <4>2. \A p \in Packet : p.seq \in SeqNums
                BY DEF Packet
            <4>3. QED BY <4>1, <4>2, WindowElements
        <3>2. CASE Detects(stream)
            BY <2>3, <3>1, <3>2 DEF DetectStream
        <3>3. CASE ~Detects(stream)
            BY <2>3, <3>3 DEF DetectStream
        <3>4. QED BY <3>2, <3>3
    <2>4. ASSUME NEW n \in DetectSizes, Reset(n)
          PROVE  CountedOK
        BY <2>4 DEF Reset
    <2>5. ASSUME NEW c \in Payloads, SetCodecType(c)
          PROVE  CountedOK
        BY <1>2, <2>5 DEF SetCodecType, TypeOK
    <2>6. ASSUME UNCHANGED vars PROVE CountedOK
        BY <1>2, <2>6 DEF vars, TypeOK
    <2> HIDE DEF CountedOK
    <2>7. CountedOK
        BY <1>2, <2>2, <2>3, <2>4, <2>5, <2>6 DEF Next
    <2>8. QED BY <2>1, <2>7 DEF TypeOK, CountedOK
<1>3. QED BY <1>1, <1>2, ObjectInvariant, PTL DEF Spec

\* A valid stream's window is full, of one header, and increasing.
THEOREM ValidWindowHolds == Spec => []ValidWindow
<1>1. ObjectInv(stream) => ValidWindow
    BY DEF ObjectInv, ValidWindow
<1>2. QED BY <1>1, ObjectInvariant, PTL

\* A valid stream never counts more packets than its range has numbers.
THEOREM ReceivedWithinSpanHolds == Spec => []ReceivedWithinSpan
<1>1. ObjectInv(stream) => ReceivedWithinSpan
    BY DEF ObjectInv, ReceivedWithinSpan
<1>2. QED BY <1>1, ObjectInvariant, PTL

\* DetectStream is decided by the fill and the headers of the window alone.
THEOREM DetectionExactHolds == Spec => []DetectionExact
<1>1. ObjectInv(stream) => DetectionExact
    BY DetectsExactly DEF DetectionExact
<1>2. QED BY <1>1, ObjectInvariant, PTL

\* The sequence numbers of an increasing window are as many as its packets.
LEMMA WindowNumbers ==
    ASSUME NEW w \in Seq(Packet), OneStream(w)
    PROVE  Cardinality({w[i].seq : i \in 1..Len(w)}) = Len(w)
<1> DEFINE S == {w[i].seq : i \in 1..Len(w)}
           f == [i \in 1..Len(w) |-> w[i].seq]
<1>1. Len(w) \in Nat /\ \A i \in 1..Len(w) : w[i].seq \in Int
    BY WindowElements
<1>2. \A i, j \in 1..Len(w) : f[i] = f[j] => i = j
    <2>1. SUFFICES ASSUME NEW i \in 1..Len(w), NEW j \in 1..Len(w), i < j
                   PROVE  f[i] # f[j]
        BY <1>1
    <2>2. w[i].seq < w[j].seq
        BY <2>1 DEF OneStream
    <2>3. QED BY <1>1, <2>2
<1>3. f \in Injection(1..Len(w), S)
    <2>1. f \in [1..Len(w) -> S]
        OBVIOUS
    <2>2. QED BY <1>2, <2>1 DEF Injection, IsInjective
<1>4. f \in Surjection(1..Len(w), S)
    <2>1. f \in [1..Len(w) -> S] /\ \A t \in S : \E i \in 1..Len(w) : f[i] = t
        OBVIOUS
    <2>2. QED BY <2>1 DEF Surjection
<1>5. ExistsBijection(1..Len(w), S)
    BY <1>3, <1>4 DEF ExistsBijection, Bijection
<1>6. IsFiniteSet(1..Len(w)) /\ Cardinality(1..Len(w)) = Len(w)
    <2>1. \A n \in Nat : IsFiniteSet(1..n) /\ Cardinality(1..n) = n
        <3>1. TAKE n \in Nat
        <3>2. IsFiniteSet(1..n) /\ Cardinality(1..n) = IF 1 > n THEN 0 ELSE n - 1 + 1
            BY FS_Interval
        <3>3. QED BY <3>2
    <2>2. Len(w) \in Nat
        BY <1>1
    <2>3. QED BY ONLY <2>1, <2>2
<1>7. QED
    BY <1>5, <1>6, FS_Bijection

\* A new number on top of the counted ones keeps the accounting.
LEMMA AcceptKeepsAccounting ==
    ASSUME ObjectInv(stream), TypeOK, LossAccounting, stream.valid,
           NEW p \in Packet, ~IsNoise(stream, p), ~IsDuplicate(stream, p),
           stream' = Accepted(stream, p), counted' = counted \cup {p.seq}
    PROVE  LossAccounting'
<1>1. /\ stream'.maxSeq = p.seq /\ stream'.minSeq = stream.minSeq
      /\ stream'.received = stream.received + 1
    BY AcceptedFigures
<1>2. /\ stream.minSeq \in Nat /\ stream.maxSeq \in Nat /\ p.seq \in Nat
      /\ stream.minSeq <= stream.maxSeq /\ stream.maxSeq < p.seq
    BY AcceptsOnTop
<1>3. /\ stream.received = Cardinality(counted)
      /\ stream.minSeq \in counted
      /\ counted \subseteq stream.minSeq .. stream.maxSeq
    BY DEF LossAccounting
<1>4. IsFiniteSet(counted)
    <2>1. IsFiniteSet(stream.minSeq .. stream.maxSeq)
        <3>1. stream.minSeq \in Int /\ stream.maxSeq \in Int
            BY <1>2
        <3>2. QED BY <3>1, FS_Interval
    <2>2. QED BY <1>3, <2>1, FS_Subset
<1>5. p.seq \notin counted
    BY <1>2, <1>3
<1>6. Cardinality(counted') = stream.received + 1
    BY <1>3, <1>4, <1>5, FS_AddElement
<1>7. counted' \subseteq stream.minSeq .. p.seq
    <2>1. \A n \in counted : n \in stream.minSeq .. p.seq
        BY <1>2, <1>3
    <2>2. p.seq \in stream.minSeq .. p.seq
        BY <1>2
    <2>3. QED BY <2>1, <2>2
<1>8. QED
    BY <1>1, <1>3, <1>6, <1>7 DEF LossAccounting

\* Detection starts the accounting over with the numbers of its window.
LEMMA DetectStartsAccounting ==
    ASSUME ObjectInv(stream), DetectStream
    PROVE  LossAccounting'
<1>1. CASE ~Detects(stream)
    BY <1>1, InvalidatedInv DEF DetectStream, AfterDetect, LossAccounting
<1>2. CASE Detects(stream)
    <2> DEFINE w == stream.window
    <2>1. ObjectInv(stream') /\ stream' = Detected(stream)
          /\ counted' = {w[i].seq : i \in 1..Len(w)}
        BY <1>2, DetectInv DEF DetectStream, AfterDetect
    <2>2. /\ stream' \in Stream /\ stream.nlast \in Nat /\ w \in Seq(Packet)
          /\ stream \in Stream
        BY <2>1, DetectAssumption DEF ObjectInv, Stream
    <2>3. /\ Len(w) = stream.nlast /\ OneStream(w)
          /\ WindowMin(w) = w[1].seq /\ WindowMax(w) = Back(w).seq
          /\ stream.nlast <= Back(w).seq - w[1].seq + 1
        BY <1>2, FullAgreeingWindow DEF Detects
    <2>4. /\ 1 \in 1..Len(w) /\ Len(w) \in 1..Len(w) /\ Len(w) \in Nat
        BY <2>2, <2>3, DetectAssumption DEF Stream
    <2>5. Cardinality(counted') = stream.nlast
        BY <2>1, <2>2, <2>3, WindowNumbers
    <2>6. stream'.received = stream.nlast
        <3>1. w[1].seq \in Int /\ Back(w).seq \in Int
              /\ 0 <= w[1].seq /\ Back(w).seq <= MaxSeq
            BY <2>2, <2>4, WindowElements DEF Back
        <3>2. stream.nlast < CountMod /\ CountMod \in Nat \ {0}
            BY <2>2, <2>3, <3>1, WidthAssumption
        <3>3. stream.nlast % CountMod = stream.nlast
            BY <2>2, <3>2
        <3>4. stream'.received = stream.nlast % CountMod
            BY <2>1, <2>2 DEF Detected, Stream
        <3>5. QED BY <3>3, <3>4
    <2>7. stream'.minSeq = w[1].seq /\ stream'.maxSeq = w[Len(w)].seq
        BY <2>1, <2>2, <2>3 DEF Detected, Stream, Back
    <2>8. \A i \in 1..Len(w) : w[i].seq \in w[1].seq .. w[Len(w)].seq
        <3>1. \A i \in 1..Len(w) : w[i].seq \in Int
            BY <2>2, WindowElements
        <3>2. TAKE i \in 1..Len(w)
        <3>3. w[1].seq <= w[i].seq
            <4>1. CASE i = 1
                BY <2>4, <3>1, <4>1
            <4>2. CASE i # 1
                BY <2>3, <2>4, <3>1, <4>2 DEF OneStream
            <4>3. QED BY <4>1, <4>2
        <3>4. w[i].seq <= w[Len(w)].seq
            <4>1. CASE i = Len(w)
                BY <3>1, <4>1
            <4>2. CASE i # Len(w)
                BY <2>3, <2>4, <3>1, <4>2 DEF OneStream
            <4>3. QED BY <4>1, <4>2
        <3>5. QED BY <2>4, <3>1, <3>3, <3>4
    <2>9. QED
        BY <2>1, <2>4, <2>5, <2>6, <2>7, <2>8 DEF LossAccounting
<1>3. QED BY <1>1, <1>2

\* In every valid state nReceived is the number of distinct sequence numbers
\* accepted since detection, and nMinSeqNum and nMaxSeqNum bound them.
THEOREM LossAccountingHolds == Spec => []LossAccounting
<1>1. Init => LossAccounting
    BY DEF Init, LossAccounting, NewStream
<1>2. ASSUME ObjectInv(stream), TypeOK, LossAccounting, [Next]_vars
      PROVE  LossAccounting'
    <2>1. ASSUME NEW p \in Packet \cup {NotRtp}, IndicateRtpPacket(p)
          PROVE  LossAccounting'
        <3>1. CASE IsNoise(stream, p)
            <4>1. counted' = counted /\ stream' = AfterNoise(stream)
                BY <2>1, <3>1 DEF IndicateRtpPacket, AfterIndicate
            <4>2. CASE ~stream.valid
                BY <1>2, <4>1, <4>2 DEF AfterNoise, LossAccounting
            <4>3. CASE stream.valid /\ NoiseStops(stream)
                BY <1>2, <4>1, <4>3, InvalidatedInv DEF AfterNoise, LossAccounting
            <4>4. CASE stream.valid /\ ~NoiseStops(stream)
                <5>1. stream' = [stream EXCEPT !.noise = @ + 1]
                    BY <4>1, <4>4 DEF AfterNoise
                <5>2. /\ stream'.valid = stream.valid
                      /\ stream'.received = stream.received
                      /\ stream'.minSeq = stream.minSeq
                      /\ stream'.maxSeq = stream.maxSeq
                    BY <1>2, <5>1 DEF TypeOK, Stream
                <5>3. QED BY <1>2, <4>1, <5>2 DEF LossAccounting
            <4>5. QED BY <4>2, <4>3, <4>4
        <3>2. CASE ~IsNoise(stream, p) /\ IsDuplicate(stream, p)
            <4>1. counted' = counted /\ stream' = stream
                BY <2>1, <3>2 DEF IndicateRtpPacket, AfterIndicate
            <4>2. QED BY <1>2, <4>1 DEF LossAccounting
        <3>3. CASE ~IsNoise(stream, p) /\ ~IsDuplicate(stream, p)
            <4>1. p \in Packet
                BY <2>1, <3>3 DEF IsNoise
            <4>2. /\ stream' = Accepted(stream, p)
                  /\ counted' = counted \cup {p.seq}
                BY <2>1, <3>3 DEF IndicateRtpPacket, AfterIndicate
            <4>3. stream'.valid = stream.valid
                BY <1>2, <4>1, <4>2, AcceptedFields
            <4>4. CASE ~stream.valid
                BY <4>3, <4>4 DEF LossAccounting
            <4>5. CASE stream.valid
                BY <1>2, <3>3, <4>1, <4>2, <4>5, AcceptKeepsAccounting
            <4>6. QED BY <4>4, <4>5
        <3>4. QED BY <3>1, <3>2, <3>3
    <2>2. ASSUME DetectStream PROVE LossAccounting'
        BY <1>2, <2>2, DetectStartsAccounting
    <2>3. ASSUME NEW n \in DetectSizes, Reset(n)
          PROVE  LossAccounting'
        BY <2>3 DEF Reset, NewStream, LossAccounting
    <2>4. ASSUME NEW c \in Payloads, SetCodecType(c)
          PROVE  LossAccounting'
        <3>1. /\ stream'.valid = stream.valid
              /\ stream'.received = stream.received
              /\ stream'.minSeq = stream.minSeq
              /\ stream'.maxSeq = stream.maxSeq
              /\ counted' = counted
            BY <1>2, <2>4 DEF SetCodecType, TypeOK, Stream
        <3>2. QED BY <1>2, <3>1 DEF LossAccounting
    <2>5. ASSUME UNCHANGED vars PROVE LossAccounting'
        BY <1>2, <2>5 DEF vars, LossAccounting
    <2> HIDE DEF LossAccounting
    <2>6. QED BY <1>2, <2>1, <2>2, <2>3, <2>4, <2>5 DEF Next
<1>3. QED
    BY <1>1, <1>2, ObjectInvariant, TypeCorrect, PTL DEF Spec

\* While the stream stays valid, neither end of its range moves back.
THEOREM RangeAdvancesHolds == Spec => RangeAdvances
<1> DEFINE Advances == (stream.valid /\ stream'.valid) =>
               (stream'.maxSeq >= stream.maxSeq /\ stream'.minSeq >= stream.minSeq)
<1>1. ASSUME ObjectInv(stream), [Next]_vars
      PROVE  [Advances]_vars
    <2>1. /\ stream \in Stream
          /\ stream.minSeq \in Int /\ stream.maxSeq \in Int
        BY <1>1 DEF ObjectInv, Stream, SeqNums
    <2>2. ASSUME NEW p \in Packet \cup {NotRtp}, IndicateRtpPacket(p),
                 stream.valid, stream'.valid
          PROVE  stream'.maxSeq >= stream.maxSeq /\ stream'.minSeq >= stream.minSeq
        <3>1. CASE IsNoise(stream, p)
            <4>1. ~NoiseStops(stream)
                BY <1>1, <2>2, <3>1, InvalidatedInv
                DEF IndicateRtpPacket, AfterIndicate, AfterNoise
            <4>2. stream' = [stream EXCEPT !.noise = @ + 1]
                BY <2>2, <3>1, <4>1 DEF IndicateRtpPacket, AfterIndicate, AfterNoise
            <4>3. stream'.minSeq = stream.minSeq /\ stream'.maxSeq = stream.maxSeq
                BY <2>1, <4>2 DEF Stream
            <4>4. QED BY <2>1, <4>3
        <3>2. CASE ~IsNoise(stream, p) /\ IsDuplicate(stream, p)
            BY <2>1, <2>2, <3>2 DEF IndicateRtpPacket, AfterIndicate
        <3>3. CASE ~IsNoise(stream, p) /\ ~IsDuplicate(stream, p)
            <4>1. p \in Packet
                BY <2>2, <3>3 DEF IsNoise
            <4>2. stream' = Accepted(stream, p)
                BY <2>2, <3>3 DEF IndicateRtpPacket, AfterIndicate
            <4>3. /\ stream'.maxSeq = p.seq /\ stream'.minSeq = stream.minSeq
                  /\ stream.maxSeq < p.seq /\ p.seq \in Nat
                BY <1>1, <2>2, <3>3, <4>1, <4>2, AcceptedFigures, AcceptsOnTop
            <4>4. QED BY <2>1, <4>3
        <3>4. QED BY <3>1, <3>2, <3>3
    <2>3. ASSUME DetectStream, stream.valid, stream'.valid
          PROVE  stream'.maxSeq >= stream.maxSeq /\ stream'.minSeq >= stream.minSeq
        <3>1. Detects(stream)
            BY <1>1, <2>3, InvalidatedInv DEF DetectStream, AfterDetect
        <3>2. /\ WindowMin(stream.window) = stream.window[1].seq
              /\ WindowMax(stream.window) = Back(stream.window).seq
            BY <1>1, <3>1, FullAgreeingWindow DEF Detects
        <3>3. stream' = Detected(stream)
            BY <2>3, <3>1 DEF DetectStream, AfterDetect
        <3>4. /\ stream'.minSeq = stream.window[1].seq
              /\ stream'.maxSeq = Back(stream.window).seq
            BY <2>1, <3>2, <3>3 DEF Detected, Stream
        <3>5. stream.maxSeq = Back(stream.window).seq
              /\ stream.minSeq <= stream.window[1].seq
            BY <1>1, <2>3 DEF ObjectInv, FiguresAgree
        <3>6. stream'.minSeq \in Int
            BY <1>1, <2>3, DetectInv DEF DetectStream, ObjectInv, Stream, SeqNums
        <3>7. QED BY <2>1, <3>4, <3>5, <3>6
    <2>4. ASSUME NEW n \in DetectSizes, Reset(n) PROVE ~stream'.valid
        BY <2>4 DEF Reset, NewStream
    <2>5. ASSUME NEW c \in Payloads, SetCodecType(c)
          PROVE  stream'.maxSeq >= stream.maxSeq /\ stream'.minSeq >= stream.minSeq
        BY <2>1, <2>5 DEF SetCodecType, Stream
    <2>6. QED BY <1>1, <2>2, <2>3, <2>4, <2>5 DEF Next
<1>2. QED BY <1>1, ObjectInvariant, PTL DEF Spec, RangeAdvances

-----------------------------------------------------------------------------
(***************************************************************************)
(* RtpStreamHistory: what stops a valid stream.                            *)
(***************************************************************************)

\* The record of noise only watches the stream.
THEOREM HistoryIsSpec == HistorySpec => Spec
<1>1. HistoryInit => Init
    BY DEF HistoryInit
<1>2. [HistoryNext]_<<vars, noiseSince>> => [Next]_vars
    BY DEF HistoryNext, Indicate, ResetHistory, Next
<1>3. QED BY <1>1, <1>2, PTL DEF HistorySpec, Spec

\* The counter of the code starts at the number of detection packets, and
\* handleNoisePacket neither counts nor clears it before detection; so it
\* tells of noise only once a packet has been let into the window.
NoiseRecorded ==
    /\ noiseSince \in 0..RunBound
    /\ stream.window = <<>> \/ stream.noise <= noiseSince

\* A valid stream has packets in its window, and its detection succeeds again.
LEMMA ValidDetects ==
    ASSUME NEW s, ObjectInv(s), s.valid
    PROVE  s.window # <<>> /\ Detects(s)
<1>1. s \in Stream /\ Len(s.window) = s.nlast /\ OneStream(s.window)
    BY DEF ObjectInv
<1>2. s.window \in Seq(Packet) /\ s.nlast \in Nat \ {0, 1}
    BY <1>1, DetectAssumption DEF Stream
<1>3. s.window # <<>>
    BY <1>1, <1>2
<1>4. Full(s)
    BY <1>1, <1>2 DEF Full
<1>5. HeadersAgree(s.window)
    BY <1>1, <1>2 DEF HeadersAgree, OneStream
<1>6. QED BY <1>3, <1>4, <1>5, DetectsExactly

\* An accepted packet is in the window it was pushed into.
LEMMA AcceptedIsKept ==
    ASSUME NEW s, ObjectInv(s), NEW p \in Packet
    PROVE  Accepted(s, p).window # <<>> /\ Accepted(s, p).noise = 0
<1>1. s \in Stream /\ s.window \in Seq(Packet) /\ s.nlast \in Nat \ {0, 1}
    BY DetectAssumption DEF ObjectInv, Stream
<1>2. Accepted(s, p).window = PushBack(s.window, p, s.nlast) /\ Accepted(s, p).noise = 0
    BY <1>1 DEF Accepted, Stream
<1>3. PushBack(s.window, p, s.nlast) # <<>>
    BY <1>1, PushBackProperties DEF ObjectInv
<1>4. QED BY <1>2, <1>3

\* Noise the code counts is noise that was recorded.
LEMMA StepKeepsNoise ==
    ASSUME ObjectInv(stream), NoiseRecorded, [HistoryNext]_<<vars, noiseSince>>
    PROVE  NoiseRecorded'
<1>1. /\ stream \in Stream /\ stream.noise \in Nat /\ stream.window \in Seq(Packet)
      /\ noiseSince \in Nat
    BY DEF ObjectInv, Stream, NoiseRecorded, RunBound, MAX_NOISE_PACKETS
<1>2. ASSUME NEW p \in Packet \cup {NotRtp}, Indicate(p)
      PROVE  NoiseRecorded'
    <2>1. stream' = AfterIndicate(stream, p)
        BY <1>2 DEF Indicate, IndicateRtpPacket
    <2>2. CASE IsNoise(stream, p)
        <3>1. stream' = AfterNoise(stream)
            BY <2>1, <2>2 DEF AfterIndicate
        <3>2. noiseSince' = MinOf(RunBound, noiseSince + 1)
            BY <1>2, <2>2 DEF Indicate
        <3>3. noiseSince' \in 0..RunBound
            BY <1>1, <3>2 DEF MinOf, RunBound, MAX_NOISE_PACKETS
        <3>4. CASE ~stream.valid
            BY <1>1, <3>1, <3>2, <3>3, <3>4
            DEF AfterNoise, NoiseRecorded, MinOf, RunBound, MAX_NOISE_PACKETS
        <3>5. CASE stream.valid /\ NoiseStops(stream)
            <4>1. stream'.noise = 0
                BY <1>1, <3>1, <3>5 DEF AfterNoise, Invalidated, Stream
            <4>2. QED BY <3>3, <4>1 DEF NoiseRecorded, RunBound, MAX_NOISE_PACKETS
        <3>6. CASE stream.valid /\ ~NoiseStops(stream)
            <4>1. stream'.noise = stream.noise + 1 /\ stream'.window = stream.window
                BY <1>1, <3>1, <3>6 DEF AfterNoise, Stream
            <4>2. stream.noise + 1 <= MAX_NOISE_PACKETS
                BY <1>1, <3>6 DEF NoiseStops, MAX_NOISE_PACKETS
            <4>3. QED
                BY <1>1, <3>2, <3>3, <4>1, <4>2
                DEF NoiseRecorded, MinOf, RunBound, MAX_NOISE_PACKETS
        <3>7. QED BY <3>4, <3>5, <3>6
    <2>3. CASE ~IsNoise(stream, p) /\ IsDuplicate(stream, p)
        BY <1>2, <2>1, <2>3 DEF Indicate, AfterIndicate, NoiseRecorded
    <2>4. CASE ~IsNoise(stream, p) /\ ~IsDuplicate(stream, p)
        <3>1. p \in Packet
            BY <2>4 DEF IsNoise
        <3>2. stream' = Accepted(stream, p) /\ noiseSince' = 0
            BY <1>2, <2>1, <2>4 DEF Indicate, AfterIndicate
        <3>3. QED
            BY <3>1, <3>2, AcceptedIsKept DEF NoiseRecorded, RunBound, MAX_NOISE_PACKETS
    <2>5. QED BY <2>2, <2>3, <2>4
<1>3. ASSUME DetectStream, UNCHANGED noiseSince
      PROVE  NoiseRecorded'
    <2>1. CASE Detects(stream)
        <3>1. stream'.noise = stream.noise /\ stream'.window = stream.window
            BY <1>1, <1>3, <2>1 DEF DetectStream, AfterDetect, Detected, Stream
        <3>2. QED BY <1>3, <3>1 DEF NoiseRecorded
    <2>2. CASE ~Detects(stream)
        <3>1. stream'.noise = 0
            BY <1>1, <1>3, <2>2 DEF DetectStream, AfterDetect, Invalidated, Stream
        <3>2. QED BY <1>1, <1>3, <3>1 DEF NoiseRecorded
    <2>3. QED BY <2>1, <2>2
<1>4. ASSUME NEW n \in DetectSizes, ResetHistory(n)
      PROVE  NoiseRecorded'
    BY <1>4 DEF ResetHistory, Reset, NewStream, NoiseRecorded, RunBound, MAX_NOISE_PACKETS
<1>5. ASSUME NEW c \in Payloads, SetCodecType(c), UNCHANGED noiseSince
      PROVE  NoiseRecorded'
    BY <1>1, <1>5 DEF SetCodecType, NoiseRecorded, Stream
<1>6. ASSUME UNCHANGED <<vars, noiseSince>>
      PROVE  NoiseRecorded'
    BY <1>6 DEF vars, NoiseRecorded
<1>7. QED BY <1>2, <1>3, <1>4, <1>5, <1>6 DEF HistoryNext

\* A valid stream is stopped by a reset or by more noise than it stands since
\* the last packet it accepted; asking for detection never stops it.
THEOREM StopNeedsNoiseHolds == HistorySpec => StopNeedsNoise
<1> DEFINE Stopped == (stream.valid /\ ~stream'.valid) =>
               \/ noiseSince' > MAX_NOISE_PACKETS
               \/ \E n \in DetectSizes : stream' = NewStream(n)
<1>1. HistoryInit => NoiseRecorded
    BY DEF HistoryInit, Init, NewStream, NoiseRecorded, RunBound, MAX_NOISE_PACKETS
<1>2. ASSUME ObjectInv(stream), NoiseRecorded, [HistoryNext]_<<vars, noiseSince>>
      PROVE  [Stopped]_<<vars, noiseSince>>
    <2>1. stream \in Stream /\ stream.noise \in Nat /\ noiseSince \in Nat
        BY <1>2 DEF ObjectInv, Stream, NoiseRecorded, RunBound, MAX_NOISE_PACKETS
    <2>2. ASSUME NEW p \in Packet \cup {NotRtp}, Indicate(p), stream.valid, ~stream'.valid
          PROVE  noiseSince' > MAX_NOISE_PACKETS
        <3>1. stream' = AfterIndicate(stream, p)
            BY <2>2 DEF Indicate, IndicateRtpPacket
        <3>2. IsNoise(stream, p)
            BY <2>1, <2>2, <3>1 DEF AfterIndicate, Accepted, Stream
        <3>3. NoiseStops(stream)
            BY <2>1, <2>2, <3>1, <3>2 DEF AfterIndicate, AfterNoise, Stream
        <3>4. stream.noise <= noiseSince
            BY <1>2, <2>2, ValidDetects DEF NoiseRecorded
        <3>5. noiseSince' = MinOf(RunBound, noiseSince + 1)
            BY <2>2, <3>2 DEF Indicate
        <3>6. QED
            BY <2>1, <3>3, <3>4, <3>5 DEF NoiseStops, MinOf, RunBound, MAX_NOISE_PACKETS
    <2>3. ASSUME DetectStream, stream.valid PROVE stream'.valid
        BY <1>2, <2>1, <2>3, ValidDetects DEF DetectStream, AfterDetect, Detected, Stream
    <2>4. ASSUME NEW n \in DetectSizes, ResetHistory(n) PROVE stream' = NewStream(n)
        BY <2>4 DEF ResetHistory, Reset
    <2>5. ASSUME NEW c \in Payloads, SetCodecType(c), stream.valid PROVE stream'.valid
        BY <2>1, <2>5 DEF SetCodecType, Stream
    <2>6. QED BY <1>2, <2>2, <2>3, <2>4, <2>5 DEF HistoryNext
<1>3. QED
    BY <1>1, <1>2, StepKeepsNoise, HistoryIsSpec, ObjectInvariant, PTL
    DEF HistorySpec, StopNeedsNoise

-----------------------------------------------------------------------------

(***************************************************************************)
(* The parts side by side.                                                 *)
(***************************************************************************)

\* What is done to the parts are steps of the parts.
LEMMA AnalysisUsesParts ==
    AnalysisSpec => HistorySpec /\ AnalyzerSpec /\ RtcpSpec /\ DriverSpec /\ TimeSpec
<1> USE DEF AnalysisNext, analysisVars, UseDetector, UseAnalyzer, UseRtcp, UseDriver, UseTime
<1>1. AnalysisInit => HistoryInit /\ AnalyzerInit /\ RtcpInit /\ DriverInit /\ TimeInit
    BY DEF AnalysisInit
<1>2. [AnalysisNext]_analysisVars => [RtcpNext]_rtcpVars
    OBVIOUS
<1>3. [AnalysisNext]_analysisVars => [DriverNext]_driverVars
    OBVIOUS
<1>4. [AnalysisNext]_analysisVars => [TimeNext]_timeVars
    OBVIOUS
<1>5. [AnalysisNext]_analysisVars => [AnalyzerNext]_analyzerVars
    OBVIOUS
<1>6. [AnalysisNext]_analysisVars => [HistoryNext]_<<vars, noiseSince>>
    BY DEF detectorVars
<1>7. QED BY <1>1, <1>2, <1>3, <1>4, <1>5, <1>6, PTL
          DEF AnalysisSpec, HistorySpec, AnalyzerSpec, RtcpSpec, DriverSpec, TimeSpec

\* The properties of the parts where detector, analyzer, driver and times are
\* used side by side, as a run does.
THEOREM PartsHold ==
    AnalysisSpec => /\ []TypeOK /\ []ValidWindow /\ []LossAccounting /\ []ReceivedWithinSpan
                    /\ []DetectionExact /\ RangeAdvances /\ StopNeedsNoise
                    /\ []AnalyzerInv /\ []EntriesAreConversations /\ []DumpInv /\ OutputsSpaced
                    /\ []RtcpInv /\ LossRateStays
                    /\ []DirectFollowsInterface /\ []TimeInv
<1>1. HistorySpec => /\ []TypeOK /\ []ValidWindow /\ []LossAccounting /\ []ReceivedWithinSpan
                     /\ []DetectionExact /\ RangeAdvances /\ StopNeedsNoise
    BY HistoryIsSpec, TypeCorrect, ValidWindowHolds, LossAccountingHolds, ReceivedWithinSpanHolds,
       DetectionExactHolds, RangeAdvancesHolds, StopNeedsNoiseHolds, PTL
<1>2. QED BY <1>1, AnalysisUsesParts, AnalyzerInvHolds, EntriesAreConversationsHolds, DumpInvHolds,
             OutputsSpacedHolds, RtcpInvHolds, LossRateStaysHolds, DirectFollowsInterfaceHolds,
             TimeInvHolds, PTL
=============================================================================

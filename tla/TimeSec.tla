------------------------------ MODULE TimeSec ------------------------------
(***************************************************************************)
(* The arithmetic of src/include/ftl/timesec.h: seconds and sub-seconds    *)
(* with the carries written by hand.  Division is that of C, towards zero. *)
(***************************************************************************)
EXTENDS Integers

CONSTANTS
    SubSec,     \* kSUBSEC, sub-seconds of a second
    MicroSec    \* microseconds of a second, in which struct timeval counts

ASSUME SubSecAssumption == SubSec \in Nat \ {0} /\ MicroSec \in Nat \ {0}

Quotient(a) == IF a >= 0 THEN a \div SubSec ELSE -((-a) \div SubSec)
Remainder(a) == a - SubSec * Quotient(a)

Zero == [sec |-> 0, nsec |-> 0]

\* The constructor from a number of sub-seconds, and as<>() back to it.
OfCount(a) == [sec |-> Quotient(a), nsec |-> Remainder(a)]
Count(x) == x.sec * SubSec + x.nsec

\* The constructor from timeval: where the unit of tv_usec should be divided
\* by MicroSec and multiplied by SubSec, it is the other way round.
OfTimeval(micro) ==
    [sec |-> micro \div MicroSec, nsec |-> ((micro % MicroSec) * MicroSec) \div SubSec]

Before(x, y) == x.sec < y.sec \/ (x.sec = y.sec /\ x.nsec < y.nsec)

Negated(x) == [sec |-> -x.sec, nsec |-> -x.nsec]

\* Faulty variant of operator+=: without the carry.
PlusUncarried(x, y) == [sec |-> x.sec + y.sec, nsec |-> x.nsec + y.nsec]

\* operator+=
Plus(x, y) ==
    LET n == x.nsec + y.nsec
        s == Quotient(n)
    IN  [sec |-> x.sec + y.sec + s, nsec |-> IF s # 0 THEN Remainder(n) ELSE n]

\* diff: the distance of two positive times, and whether the first is the
\* earlier.
Diff(x, y) ==
    LET lend == IF x.nsec < y.nsec THEN (y.nsec - x.nsec) \div SubSec + 1 ELSE 0
        gap  == x.nsec - y.nsec + SubSec * lend
        back == IF gap > SubSec THEN gap \div SubSec ELSE 0
        sec  == x.sec - (y.sec + lend - back)
        nsec == gap - SubSec * back
    IN  [time |-> IF sec < 0 THEN [sec |-> -sec - 1, nsec |-> SubSec - nsec]
                  ELSE [sec |-> sec, nsec |-> nsec],
         negative |-> sec < 0]

\* Faulty variant of operator-=: the distance keeps its sign.
MinusUnsigned(x, y) == Diff(x, y).time

\* operator-=
Minus(x, y) ==
    CASE Before(x, Zero) # Before(y, Zero) -> Plus(x, Negated(y))
      [] Before(x, Zero) /\ Before(y, Zero) ->
            LET d == Diff(Negated(x), Negated(y))
            IN  IF d.negative THEN d.time ELSE Negated(d.time)
      [] OTHER ->
            LET d == Diff(x, y)
            IN  IF d.negative THEN Negated(d.time) ELSE d.time
=============================================================================

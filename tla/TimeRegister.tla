---------------------------- MODULE TimeRegister ----------------------------
(***************************************************************************)
(* A time that is added to and subtracted from, the way the detector and   *)
(* the dumper use src/include/ftl/timesec.h, next to the integer it should *)
(* stand for.                                                              *)
(***************************************************************************)
EXTENDS TimeSec

CONSTANTS
    Amounts,    \* numbers of sub-seconds
    MaxAmount   \* bound of the integer, on either side

ASSUME AmountsAssumption == Amounts \subseteq Int /\ MaxAmount \in Nat

VARIABLES time, exact

timeVars == <<time, exact>>

TimeInit == time = Zero /\ exact = 0

\* timesec(long) and operator+=
Add(a) == time' = Plus(time, OfCount(a)) /\ exact' = exact + a

\* timesec(long) and operator-=
Subtract(a) == time' = Minus(time, OfCount(a)) /\ exact' = exact - a

\* operator= (long)
Assign(a) == time' = OfCount(a) /\ exact' = a

\* Unary minus.
Negate == time' = Negated(time) /\ exact' = -exact

TimeNext ==
    /\ \/ \E a \in Amounts : Add(a) \/ Subtract(a) \/ Assign(a)
       \/ Negate
    /\ exact' \in -MaxAmount..MaxAmount

TimeSpec == TimeInit /\ [][TimeNext]_timeVars

-----------------------------------------------------------------------------

\* Whatever signs meet, sums and differences carry exactly: as<>() gives back
\* the integer, although the sub-seconds may have the other sign than the
\* seconds, or be as many as a second.
TimeExact == Count(time) = exact

\* Comparing with zero, by which calcRtcpDelay finds a negative delay and
\* operator-= its way, tells the sign in all of these forms.
SignTold == (Before(time, Zero) <=> exact < 0) /\ (Before(Zero, time) <=> exact > 0)

\* A time is the number of sub-seconds it stands for, and compares like it.
TimeInv == TimeExact /\ SignTold
=============================================================================

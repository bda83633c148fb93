---------------------------- MODULE DynamicArray ----------------------------
(***************************************************************************)
(* ftl::Array of src/include/ftl/ftlcollections.h and its user.  A cell of *)
(* the buffer is Raw or holds an object with a value; objects are built,   *)
(* destroyed and moved by hand.                                            *)
(***************************************************************************)
EXTENDS Integers, Sequences, FiniteSets

CONSTANTS
    CellValues,     \* values of elements
    Default,        \* value of an element made by its default constructor
    GrowBys,        \* nGrowBy that users set
    GrowLeast,      \* least growth of a buffer without nGrowBy, 4 in the code
    MaxCells        \* bound: elements at a time

ASSUME ArrayAssumption ==
    /\ CellValues \subseteq Nat /\ Default \in Nat
    /\ GrowBys \subseteq Nat /\ GrowLeast \in Nat /\ MaxCells \in Nat

VARIABLES
    array,      \* _pData with its _nMaxSize cells, _nSize, _nGrowBy
    edit        \* history: the operation just done

arrayVars == <<array, edit>>

Raw == -1

\* misused: an object was built over another, or none destroyed or assigned to.
NewArray == [data |-> <<>>, size |-> 0, growBy |-> 0, misused |-> FALSE]

Larger(x, y) == IF x >= y THEN x ELSE y

Live(a, I) == {i \in I : a.data[i] # Raw}

\* Cells n from first on get value, which must not or must hold an object.
Build(a, I, value) ==
    [a EXCEPT !.data = [i \in DOMAIN @ |-> IF i \in I THEN value ELSE @[i]],
              !.misused = @ \/ Live(a, I) # {}]

Assign(a, I, value) ==
    [a EXCEPT !.data = [i \in DOMAIN @ |-> IF i \in I THEN value ELSE @[i]],
              !.misused = @ \/ Live(a, I) # I]

Destroy(a, I) == Assign(a, I, Raw)

\* RelocateElements of n cells from first on by some distance.
Relocate(a, first, n, distance) ==
    LET src == first..(first + n - 1)
        dst == {i + distance : i \in src}
    IN  [a EXCEPT !.data = [i \in DOMAIN @ |->
                        IF i \in dst THEN @[i - distance] ELSE IF i \in src THEN Raw ELSE @[i]],
                  !.misused = @ \/ Live(a, dst \ src) # {}]

Resized(a, n) == [a EXCEPT !.data = [i \in 1..n |-> IF i <= a.size THEN @[i] ELSE Raw]]

\* GrowBuffer; nGrowBy = 0 lets the array choose its growth.
GrowBuffer(a, n) ==
    LET step == IF a.growBy = 0 THEN Larger(a.size \div 8, GrowLeast) ELSE a.growBy
    IN  IF n <= Len(a.data) THEN a
        ELSE IF a.data = <<>> THEN Resized(a, Larger(a.growBy, n))
        ELSE Resized(a, Larger(Len(a.data) + step, n))

SetCount(a, n) ==
    LET grown == GrowBuffer(a, n)
    IN  IF n = 0 THEN [Destroy(a, 1..a.size) EXCEPT !.data = <<>>, !.size = 0]
        ELSE IF n >= a.size
        THEN [Build(grown, (a.size + 1)..n, Default) EXCEPT !.size = n]
        ELSE [Destroy(a, (n + 1)..a.size) EXCEPT !.size = n]

\* Faulty variant: one element too few makes room.
InsertedShort(a, at, value, n) ==
    LET wide  == Destroy(SetCount(a, a.size + n), (a.size + 1)..(a.size + n))
        moved == Build(Relocate(wide, at, a.size - at, n), at..(at + n - 1), Default)
    IN  Assign(IF at > a.size THEN SetCount(a, at - 1 + n) ELSE moved, at..(at + n - 1), value)

\* Faulty variant: the objects SetCount built are moved over.
InsertedOver(a, at, value, n) ==
    LET wide  == SetCount(a, a.size + n)
        moved == Build(Relocate(wide, at, a.size + 1 - at, n), at..(at + n - 1), Default)
    IN  Assign(IF at > a.size THEN SetCount(a, at - 1 + n) ELSE moved, at..(at + n - 1), value)

\* InsertAt: in the middle, the objects SetCount built behind the old end are
\* destroyed before the rest moves there, and new ones built in the gap.
Inserted(a, at, value, n) ==
    LET wide  == Destroy(SetCount(a, a.size + n), (a.size + 1)..(a.size + n))
        moved == Build(Relocate(wide, at, a.size + 1 - at, n), at..(at + n - 1), Default)
    IN  Assign(IF at > a.size THEN SetCount(a, at - 1 + n) ELSE moved, at..(at + n - 1), value)

ArrayInit == array = NewArray /\ edit = [name |-> "Init"]

\* Add(element): built in place, behind the last.
AddCell(value) ==
    /\ array.size < MaxCells
    /\ array' = [Build(GrowBuffer(array, array.size + 1), {array.size + 1}, value) EXCEPT !.size = @ + 1]
    /\ edit' = [name |-> "Insert", at |-> array.size + 1, value |-> value, n |-> 1]

\* SetCount, RemoveAll (n = 0) and Add() (n one more); -1 leaves nGrowBy.
SetCellCount(n, growBy) ==
    /\ array' = SetCount(IF growBy = -1 THEN array ELSE [array EXCEPT !.growBy = growBy], n)
    /\ edit' = [name |-> "SetCount", n |-> n]

InsertCells(at, value, n) ==
    /\ Larger(array.size, at - 1) + n <= MaxCells
    /\ array' = Inserted(array, at, value, n)
    /\ edit' = [name |-> "Insert", at |-> at, value |-> value, n |-> n]

\* SetAtGrow.
SetCellAt(at, value) ==
    /\ array' = Assign(IF at > array.size THEN SetCount(array, at) ELSE array, {at}, value)
    /\ edit' = [name |-> "Set", at |-> at, value |-> value]

RemoveCells(at, n) ==
    /\ at + n - 1 <= array.size
    /\ array' = LET gap == Destroy(array, at..(at + n - 1))
                IN  [Relocate(gap, at + n, array.size + 1 - at - n, -n) EXCEPT !.size = @ - n]
    /\ edit' = [name |-> "Remove", at |-> at, n |-> n]

FreeExtra ==
    /\ array' = Resized(array, array.size)
    /\ edit' = [name |-> "SetCount", n |-> array.size]

ArrayNext ==
    \/ \E v \in CellValues : AddCell(v)
    \/ \E n \in 0..MaxCells, g \in GrowBys \cup {-1} : SetCellCount(n, g)
    \/ \E at \in 1..MaxCells, v \in CellValues, n \in 1..2 : InsertCells(at, v, n)
    \/ \E at \in 1..MaxCells, v \in CellValues : SetCellAt(at, v)
    \/ \E at \in 1..MaxCells, n \in 1..2 : RemoveCells(at, n)
    \/ FreeExtra

ArraySpec == ArrayInit /\ [][ArrayNext]_arrayVars

-----------------------------------------------------------------------------

Content == SubSeq(array.data, 1, array.size)

Filled(s, n) == s \o [i \in 1..Larger(n - Len(s), 0) |-> Default]

\* What the operation makes of a sequence.
Edited(s, e) ==
    CASE e.name = "SetCount" -> Filled(SubSeq(s, 1, IF e.n < Len(s) THEN e.n ELSE Len(s)), e.n)
      [] e.name = "Insert"   -> LET wide == Filled(s, e.at - 1)
                                IN  SubSeq(wide, 1, e.at - 1) \o [i \in 1..e.n |-> e.value]
                                    \o SubSeq(wide, e.at, Len(wide))
      [] e.name = "Set"      -> [Filled(s, e.at) EXCEPT ![e.at] = e.value]
      [] e.name = "Remove"   -> SubSeq(s, 1, e.at - 1) \o SubSeq(s, e.at + e.n, Len(s))
      [] e.name = "Init"     -> s

\* The elements are those of a sequence that is edited the same way: growing,
\* moving and trimming the buffer loses and mixes up none.
ArrayIsSequence == [][Content' = Edited(Content, edit')]_arrayVars

\* Objects are where the array thinks they are: one in each cell up to the
\* size and none behind, and no operation on the way built one over another,
\* destroyed one twice or assigned to bare memory.
ObjectsExact ==
    /\ ~array.misused
    /\ array.size <= Len(array.data)
    /\ Live(array, DOMAIN array.data) = 1..array.size

ArrayView == array
=============================================================================

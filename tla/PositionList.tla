---------------------------- MODULE PositionList ----------------------------
(***************************************************************************)
(* What a list with positions promises: a sequence without repetition, of  *)
(* which each operation moves, adds or takes what it names and leaves the  *)
(* others in their order.                                                  *)
(***************************************************************************)
EXTENDS Naturals, Sequences

VARIABLES
    order,      \* the positions in use, from head to tail
    act         \* the operation just done and the positions it was about

Init == order = <<>> /\ act = [name |-> "Init"]

IndexOf(p) == CHOOSE i \in 1..Len(order) : order[i] = p

Others(p) == SubSeq(order, 1, IndexOf(p) - 1) \o SubSeq(order, IndexOf(p) + 1, Len(order))

\* p, which is new or was taken out, gets i elements in front of it.
PutBehind(rest, i, p) == order' = SubSeq(rest, 1, i) \o <<p>> \o SubSeq(rest, i + 1, Len(rest))

Step ==
    \/ act'.name = "AddHead" /\ PutBehind(order, 0, act'.new)
    \/ act'.name = "AddTail" /\ PutBehind(order, Len(order), act'.new)
    \/ act'.name = "InsertBefore" /\ PutBehind(order, IndexOf(act'.at) - 1, act'.new)
    \/ act'.name = "InsertAfter" /\ PutBehind(order, IndexOf(act'.at), act'.new)
    \/ act'.name = "Remove" /\ order' = Others(act'.at)
    \/ act'.name = "RemoveAll" /\ order' = <<>>
    \/ act'.name = "MoveToHead" /\ PutBehind(Others(act'.at), 0, act'.at)
    \/ act'.name = "MoveToTail" /\ PutBehind(Others(act'.at), Len(order) - 1, act'.at)
    \/ /\ act'.name = "Swap"
       /\ order' = [i \in 1..Len(order) |->
             CASE order[i] = act'.at  -> act'.new
               [] order[i] = act'.new -> act'.at
               [] OTHER               -> order[i]]

Next == Step

Spec == Init /\ [][Next]_<<order, act>>
=============================================================================

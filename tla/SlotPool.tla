------------------------------ MODULE SlotPool ------------------------------
(***************************************************************************)
(* What a pool of equal slots promises: a slot is given to one holder at a *)
(* time, and only slots that are held come back.                           *)
(***************************************************************************)
EXTENDS Naturals

CONSTANT Slots

VARIABLE holders    \* number of holders of each slot

Init == holders = [s \in Slots |-> 0]

Get(s) == holders[s] = 0 /\ holders' = [holders EXCEPT ![s] = 1]

Put(s) == holders[s] = 1 /\ holders' = [holders EXCEPT ![s] = 0]

Next == \E s \in Slots : Get(s) \/ Put(s)

Spec == Init /\ [][Next]_holders
=============================================================================

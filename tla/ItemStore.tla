------------------------------ MODULE ItemStore ------------------------------
(***************************************************************************)
(* What an associative container with positions promises: an item keeps    *)
(* its position until it is removed, a removal takes the items it names    *)
(* and no others, and a store changes one item.                            *)
(***************************************************************************)
VARIABLES
    items,      \* function from the positions in use to [key, value]
    op          \* the operation just done: its name and what it was about

Init == items = [p \in {} |-> 0] /\ op = [name |-> "Init"]

Keep(P) == items' = [p \in P |-> items[p]]

\* A new item at a position of its own.
Add ==
    /\ op'.name = "Add" /\ op'.pos \notin DOMAIN items
    /\ items' = [p \in DOMAIN items \cup {op'.pos} |->
                    IF p = op'.pos THEN [key |-> op'.key, value |-> op'.value] ELSE items[p]]

\* A new value for the item with the key.
Store ==
    /\ op'.name = "Store" /\ op'.pos \in DOMAIN items /\ items[op'.pos].key = op'.key
    /\ items' = [items EXCEPT ![op'.pos].value = op'.value]

Remove ==
    op'.name = "Remove" /\ op'.pos \in DOMAIN items /\ Keep(DOMAIN items \ {op'.pos})

RemoveKey ==
    op'.name = "RemoveKey" /\ Keep({p \in DOMAIN items : items[p].key # op'.key})

RemoveAll == op'.name = "RemoveAll" /\ Keep({})

Next == Add \/ Store \/ Remove \/ RemoveKey \/ RemoveAll

Spec == Init /\ [][Next]_<<items, op>>
=============================================================================

----------------------------- MODULE BoundedFifo -----------------------------
(***************************************************************************)
(* What a FIFO pool of memory promises: blocks leave it in the order they  *)
(* were allocated, each exactly once, and a request may be refused.        *)
(***************************************************************************)
EXTENDS Naturals, Sequences

CONSTANT Blocks     \* what identifies a block

VARIABLE fifo       \* the blocks allocated and not yet released, oldest first

Init == fifo = <<>>

Put(b) == fifo' = Append(fifo, b)

Get == fifo # <<>> /\ fifo' = Tail(fifo)

Next == (\E b \in Blocks : Put(b)) \/ Get

Spec == Init /\ [][Next]_fifo
=============================================================================

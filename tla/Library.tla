------------------------------ MODULE Library ------------------------------
(***************************************************************************)
(* The containers and pools of src/include/ftl, one of them per behaviour. *)
(* Each is used by a caller of its own; none reaches the state of another. *)
(***************************************************************************)
EXTENDS FifoPool, FixedSizePoolSet, MultiSizePool, RBTree, HashTable, LinkedList, DynamicArray

VARIABLE part   \* the container or pool of this behaviour

libraryVars ==
    <<part, vars, setVars, multiVars, treeVars, hashVars, listVars, arrayVars>>

Parts == {"fifo", "set", "multi", "tree", "hash", "list", "array"}

\* A part that is not used keeps the first of its initial states.
Unused(name, choice) == part # name => choice

LibraryInit ==
    /\ part \in Parts
    /\ Init /\ SetInit /\ MultiInit /\ TreeInit /\ HashInit /\ ListInit /\ ArrayInit
    /\ Unused("set", strategy = {})
    /\ Unused("multi", c = 1)
    /\ Unused("tree", ~multi)
    /\ Unused("hash", table.kind = "Map" /\ \A load \in Loads : table.load.hi <= load.hi)

UseFifo ==
    /\ part = "fifo" /\ Next
    /\ UNCHANGED <<part, setVars, multiVars, treeVars, hashVars, listVars, arrayVars>>

UseSet ==
    /\ part = "set" /\ SetNextOnce
    /\ UNCHANGED <<part, vars, multiVars, treeVars, hashVars, listVars, arrayVars>>

UseMulti ==
    /\ part = "multi" /\ MultiNext
    /\ UNCHANGED <<part, vars, setVars, treeVars, hashVars, listVars, arrayVars>>

UseTree ==
    /\ part = "tree" /\ TreeNext
    /\ UNCHANGED <<part, vars, setVars, multiVars, hashVars, listVars, arrayVars>>

UseHash ==
    /\ part = "hash" /\ HashNext
    /\ UNCHANGED <<part, vars, setVars, multiVars, treeVars, listVars, arrayVars>>

UseList ==
    /\ part = "list" /\ ListNext
    /\ UNCHANGED <<part, vars, setVars, multiVars, treeVars, hashVars, arrayVars>>

UseArray ==
    /\ part = "array" /\ ArrayNext
    /\ UNCHANGED <<part, vars, setVars, multiVars, treeVars, hashVars, listVars>>

LibraryNext == UseFifo \/ UseSet \/ UseMulti \/ UseTree \/ UseHash \/ UseList \/ UseArray

LibrarySpec == LibraryInit /\ [][LibraryNext]_libraryVars

\* The pools of memory, with any user up to the request that a pool would
\* answer with memory in use: until then blocks and slots in use never
\* overlap, and the sizes the pools report are those of what is in use, but
\* for the free rest that a MultiSizePool gave away with a block.
PoolsInv == FifoInv /\ SetInv /\ MultiInv

\* States that differ in what no method reads are one.
LibraryView ==
    <<part, vars, setVars, multiVars, TreeView, HashView, ListView, ArrayView>>
=============================================================================

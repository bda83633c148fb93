------------------------------- MODULE RBTree -------------------------------
(***************************************************************************)
(* RBMap and RBMultiMap of src/include/ftl/ftlcollections.h, over the      *)
(* red-black tree both derive from, and their user.                        *)
(***************************************************************************)
EXTENDS RBTreeUpdate, Sequences

CONSTANTS
    Keys,       \* keys of an RBMap
    MultiKeys,  \* keys of an RBMultiMap, fewer: they repeat
    Values

ASSUME TreeAssumption ==
    MaxNodes \in Nat /\ Keys \subseteq Nat /\ Values \subseteq Nat

VARIABLES
    multi,      \* TRUE for an RBMultiMap
    tree,
    op          \* history: the operation just done

treeVars == <<multi, tree, op>>

TreeInit == multi \in BOOLEAN /\ tree = NewTree /\ op = [name |-> "Init"]

\* The node the free list gives: which one makes no difference.
SpareNode == CHOOSE n \in Node \ tree.used : \A m \in Node \ tree.used : n <= m

AddItem(key, value) ==
    /\ tree.used # Node
    /\ tree' = RBInsert(tree, SpareNode, key, value)
    /\ op' = [name |-> "Add", pos |-> SpareNode, key |-> key, value |-> value]

\* RBMultiMap::Insert.
Insert(key, value) ==
    multi /\ key \in MultiKeys /\ AddItem(key, value) /\ UNCHANGED multi

\* RBMap::SetAt.
SetAt(key, value) ==
    LET pos == Find(tree, key)
    IN  /\ ~multi
        /\ \/ pos = Nil /\ AddItem(key, value)
           \/ /\ pos # Nil
              /\ tree' = [tree EXCEPT !.value[pos] = value]
              /\ op' = [name |-> "Store", pos |-> pos, key |-> key, value |-> value]
        /\ UNCHANGED multi

\* RemoveAt, on a position in use.
RemoveAt(pos) ==
    /\ pos \in tree.used
    /\ tree' = RBDelete(tree, pos)
    /\ op' = [name |-> "Remove", pos |-> pos]
    /\ UNCHANGED multi

\* RemoveKey of an RBMultiMap takes all nodes with the key, of an RBMap one.
RemoveKey(key) ==
    LET pos == Find(tree, key)
    IN  /\ pos # Nil
        /\ tree' = IF multi THEN DeleteEqual(tree, pos, key) ELSE RBDelete(tree, pos)
        /\ op' = [name |-> "RemoveKey", key |-> key]
        /\ UNCHANGED multi

\* RemoveAll: every node is freed, the sentinel stays.
RemoveAll ==
    /\ tree' = [NewTree EXCEPT !.kid[Nil] = tree.kid[Nil], !.parent[Nil] = tree.parent[Nil]]
    /\ op' = [name |-> "RemoveAll"]
    /\ UNCHANGED multi

TreeNext ==
    \/ \E k \in Keys, v \in Values : Insert(k, v) \/ SetAt(k, v)
    \/ \E n \in Node : RemoveAt(n)
    \/ \E k \in Keys : RemoveKey(k)
    \/ RemoveAll

TreeSpec == TreeInit /\ [][TreeNext]_treeVars

-----------------------------------------------------------------------------

\* The nodes in the order GetHeadPosition and GetNext (side = Right), or
\* GetTailPosition and GetPrev (side = Left), visit them; one too many if they
\* do not end.
Walk(side) ==
    LET At[i \in 1..(MaxNodes + 1)] ==
            IF i = 1 THEN Extreme(tree, tree.root, Opposite(side))
            ELSE IF At[i - 1] = Nil THEN Nil ELSE Neighbour(tree, At[i - 1], side)
    IN  [i \in 1..Cardinality({j \in 1..(MaxNodes + 1) : At[j] # Nil}) |-> At[i]]

Members(s) == {s[i] : i \in 1..Len(s)}

\* The nodes below the root, itself included.
Linked ==
    LET Reach[d \in 0..MaxNodes] ==
            IF d = 0 THEN {tree.root}
            ELSE Reach[d - 1] \cup UNION {{tree.kid[n][Left], tree.kid[n][Right]} : n \in Reach[d - 1] \ {Nil}}
    IN  Reach[MaxNodes] \ {Nil}

\* The tree as a store of items: what hangs below its root.  Deletion relinks
\* nodes instead of copying keys, so positions survive the deletion of
\* others, also within RemoveKey.
TreePromise == INSTANCE ItemStore WITH
    items <- [n \in Linked |-> [key |-> tree.key[n], value |-> tree.value[n]]]

TreeIsStore == TreePromise!Spec

\* Black nodes on each path from n0 down to the sentinel; -1 if they differ.
BlackDepth(n0) ==
    LET Depth[n \in tree.used \cup {Nil}] ==
            LET l == Depth[tree.kid[n][Left]]
                r == Depth[tree.kid[n][Right]]
            IN  IF n = Nil THEN 0
                ELSE IF l = -1 \/ l # r THEN -1
                ELSE l + IF n \in tree.red THEN 0 ELSE 1
    IN  Depth[n0]

\* What the debug build's VerifyIntegrity asserts, and on all paths: no red
\* node below a red one or at the root, equal black depth, links up and down
\* agree.  The sentinel, whose links are written, never looks like a node: it
\* is black and has no left child, which SwapNode and IsNil rest on.
RedBlack ==
    /\ tree.root \notin tree.red /\ (tree.root # Nil => tree.parent[tree.root] = Nil)
    /\ \A n \in tree.used, side \in {Left, Right} :
          LET m == tree.kid[n][side]
          IN  m # Nil => /\ m \in tree.used
                         /\ tree.parent[m] = n
                         /\ ~{n, m} \subseteq tree.red
    /\ BlackDepth(tree.root) # -1
    /\ Nil \notin tree.red /\ tree.kid[Nil][Left] = Nil

\* Iteration is complete, in key order and reversible: GetNext visits every
\* node in use once, keys never fall, GetPrev takes the way back.
WalksInOrder ==
    LET there == Walk(Right)
        back  == Walk(Left)
    IN  /\ Len(there) = Cardinality(tree.used) /\ Members(there) = tree.used
        /\ \A i \in 1..(Len(there) - 1) : tree.key[there[i]] <= tree.key[there[i + 1]]
        /\ Len(back) = Len(there)
        /\ \A i \in 1..Len(there) : back[i] = there[Len(there) + 1 - i]

\* First of the visited nodes whose key passes the test, Nil if none does.
FirstVisited(Test(_)) ==
    LET there == Walk(Right)
        hits  == {i \in 1..Len(there) : Test(tree.key[there[i]])}
    IN  IF hits = {} THEN Nil ELSE there[CHOOSE i \in hits : \A j \in hits : i <= j]

\* Find gives the first of equal keys in iteration order, wherever rotations
\* moved them, and FindFirstKeyAfter the first greater one; an RBMap has no
\* key twice.
LookupsAgree ==
    /\ \A k \in Keys :
          /\ Find(tree, k) = FirstVisited(LAMBDA x : x = k)
          /\ FindPrefix(tree, k) = FirstVisited(LAMBDA x : x > k)
    /\ ~multi => \A m, n \in tree.used : tree.key[m] = tree.key[n] => m = n

\* The tree is balanced, passed in order and searched right after every
\* operation, with one node of a key or several.
TreeInv == RedBlack /\ WalksInOrder /\ LookupsAgree

\* Equal trees up to the numbers of their nodes, and to the values, which no
\* method reads.
Shape[n \in Links] ==
    IF n = Nil THEN <<>>
    ELSE <<tree.key[n], n \in tree.red, Shape[tree.kid[n][Left]], Shape[tree.kid[n][Right]]>>

TreeView == <<multi, Shape[tree.root]>>
=============================================================================

---------------------------- MODULE RBTreeUpdate ----------------------------
(***************************************************************************)
(* Insertion and deletion of RBTree, src/include/ftl/ftlcollections.h.     *)
(***************************************************************************)
EXTENDS RBTreeObject

Blacken(t, n) == [t EXCEPT !.red = @ \ {n}]

Redden(t, n) == [t EXCEPT !.red = @ \cup {n}]

\* Where InsertImpl hangs a node with this key: equal keys go to the left.
LeafFor(t, key) ==
    LET Down[n \in Links] ==
            LET next == t.kid[n][IF key <= t.key[n] THEN Left ELSE Right]
            IN  IF next = Nil THEN n ELSE Down[next]
    IN  IF t.root = Nil THEN Nil ELSE Down[t.root]

\* NewNode and InsertImpl: a free node becomes a red leaf.
InsertImpl(t, n, key, value) ==
    LET above == LeafFor(t, key)
        fresh == [Redden(t, n) EXCEPT
                     !.used = @ \cup {n}, !.kid[n] = <<Nil, Nil>>, !.parent[n] = above,
                     !.key[n] = key, !.value[n] = value]
    IN  IF above = Nil THEN [fresh EXCEPT !.root = n]
        ELSE [fresh EXCEPT !.kid[above][IF key <= t.key[above] THEN Left ELSE Right] = n]

\* The loop of RBInsert from node x on, and the root made black.  A red node
\* below a red one is pushed up while the uncle is red too, else one or two
\* rotations end it; the first makes x an outer grandchild.
InsertFixup[at \in Tree \X Links] ==
    LET t     == at[1]
        x     == at[2]
        p     == t.parent[x]
        g     == t.parent[p]
        side  == SideOf(t, p)
        uncle == t.kid[g][Opposite(side)]
    IN  IF x = t.root \/ p \notin t.red
        THEN [Blacken(t, t.root) EXCEPT !.parent[t.root] = Nil]
        ELSE InsertFixup[
            IF uncle \in t.red THEN <<Redden(Blacken(Blacken(t, p), uncle), g), g>>
            ELSE IF x = t.kid[p][Opposite(side)] THEN <<Rotate(t, p, side), p>>
            ELSE <<Rotate(Redden(Blacken(t, p), g), g, Opposite(side)), x>>]

RBInsert(t, n, key, value) == InsertFixup[<<InsertImpl(t, n, key, value), n>>]

\* The end of the loop of RBDeleteFixup: the sibling w takes the parent's
\* place and colour.
LastTurn(t, p, w, side) ==
    LET coloured == IF p \in t.red THEN Redden(t, w) ELSE Blacken(t, w)
        far      == t.kid[w][Opposite(side)]
    IN  Rotate(Blacken(Blacken(coloured, p), far), p, side)

\* RBDeleteFixup: x stands for one black node too few on its paths.  A red
\* sibling w is turned into a black one, a sibling whose outer child is black
\* into one whose outer child is red.
DeleteFixup[at \in Tree \X Links] ==
    LET t     == at[1]
        x     == at[2]
        p     == t.parent[x]
        side  == SideOf(t, x)
        w     == t.kid[p][Opposite(side)]
        inner == t.kid[w][side]
        outer == t.kid[w][Opposite(side)]
    IN  IF x = t.root \/ x \in t.red THEN Blacken(t, x)
        ELSE IF w \notin t.red /\ outer \in t.red
        THEN LET done == LastTurn(t, p, w, side) IN Blacken(done, done.root)
        ELSE DeleteFixup[
            IF w \in t.red THEN <<Rotate(Redden(Blacken(t, w), p), p, side), x>>
            ELSE IF inner \notin t.red THEN <<Redden(t, w), p>>
            ELSE <<Rotate(Redden(Blacken(t, inner), w), w, Opposite(side)), x>>]

\* SwapNode: dest takes the place of src.  When src is the root, the
\* sentinel's own links are written.
SwapNode(t, dest, src) ==
    LET up   == t.parent[src]
        side == IF t.kid[up][Left] = src THEN Left ELSE Right
        t1   == [t EXCEPT !.parent[dest] = up, !.kid[up][side] = dest]
        t2   == [t1 EXCEPT !.kid[dest] = t1.kid[src],
                           !.red = IF src \in t.red THEN @ \cup {dest} ELSE @ \ {dest},
                           !.parent[t1.kid[src][Right]] = dest]
        t3   == [t2 EXCEPT !.parent[t1.kid[src][Left]] = dest]
    IN  IF t.root = src THEN [t3 EXCEPT !.root = dest] ELSE t3

\* The part of RBDelete that takes y, a node with at most one child, out of
\* the tree: the child x takes its place.
Unlink(t, y) ==
    LET x    == t.kid[y][IF t.kid[y][Left] # Nil THEN Left ELSE Right]
        gone == Relink([t EXCEPT !.parent[x] = t.parent[y]], y, x)
    IN  IF y \in t.red THEN gone ELSE DeleteFixup[<<gone, x>>]

\* RBDelete: z, or its successor y in its stead, is taken out; y then takes
\* the place of z.
RBDelete(t, z) ==
    LET y    == IF Nil \in {t.kid[z][Left], t.kid[z][Right]} THEN z ELSE Neighbour(t, z, Right)
        rest == IF y = z THEN Unlink(t, z) ELSE SwapNode(Unlink(t, y), y, z)
    IN  [rest EXCEPT !.parent[rest.root] = Nil, !.used = @ \ {z}, !.red = @ \ {z}]

\* Faulty variant: the next position is looked up after the node is gone.
DeleteEqualLate(t0, n0, key) ==
    LET Round[i \in 0..MaxNodes] ==
            LET t == Round[i - 1][1]
                n == Round[i - 1][2]
                rest == RBDelete(t, n)
            IN  IF i = 0 THEN <<t0, n0>>
                ELSE IF HasKey(t, n, key) THEN <<rest, Neighbour(rest, n, Right)>>
                ELSE Round[i - 1]
    IN  Round[MaxNodes][1]

\* The loop of RBMultiMap::RemoveKey from n0 on: the tree after each round,
\* and the node that follows.
DeleteEqual(t0, n0, key) ==
    LET Round[i \in 0..MaxNodes] ==
            LET t == Round[i - 1][1]
                n == Round[i - 1][2]
            IN  IF i = 0 THEN <<t0, n0>>
                ELSE IF HasKey(t, n, key) THEN <<RBDelete(t, n), Neighbour(t, n, Right)>>
                ELSE Round[i - 1]
    IN  Round[MaxNodes][1]
=============================================================================

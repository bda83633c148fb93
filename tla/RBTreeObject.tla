---------------------------- MODULE RBTreeObject ----------------------------
(***************************************************************************)
(* RBTree of src/include/ftl/ftlcollections.h as a record and one operator *)
(* per method.  Nodes are numbers, Nil is the sentinel, which has fields   *)
(* like any node; a NULL position is Nil too.  The methods for left and    *)
(* right are mirror images: one operator takes the side.                   *)
(***************************************************************************)
EXTENDS Integers, FiniteSets

CONSTANT MaxNodes   \* bound: nodes at a time

Nil == 0
Left == 1
Right == 2

Opposite(side) == 3 - side

Node == 1..MaxNodes

Links == Node \cup {Nil}

\* used are the nodes that are not on the free list.
NewTree ==
    [root |-> Nil, used |-> {}, red |-> {},
     kid |-> [n \in Links |-> <<Nil, Nil>>], parent |-> [n \in Links |-> Nil],
     key |-> [n \in Links |-> 0], value |-> [n \in Links |-> 0]]

Tree == [root: Links, used: SUBSET Node, red: SUBSET Links,
         kid: [Links -> Links \X Links], parent: [Links -> Links],
         key: [Links -> Nat], value: [Links -> Nat]]

SideOf(t, n) == IF t.kid[t.parent[n]][Left] = n THEN Left ELSE Right

\* The link from above to n leads to m from now on.
Relink(t, n, m) ==
    IF t.parent[n] = Nil THEN [t EXCEPT !.root = m]
    ELSE [t EXCEPT !.kid[t.parent[n]][SideOf(t, n)] = m]

\* Faulty variant: the subtree that changes sides keeps its parent.
RotateNoAdopt(t, n, side) ==
    LET up  == t.kid[n][Opposite(side)]
        mid == t.kid[up][side]
    IN  [Relink(t, n, up) EXCEPT
            !.kid[n][Opposite(side)] = mid,
            !.kid[up][side] = n,
            !.parent[up] = t.parent[n],
            !.parent[n] = up]

\* LeftRotate (side = Left) and RightRotate: n moves down to that side.
Rotate(t, n, side) ==
    LET up  == t.kid[n][Opposite(side)]
        mid == t.kid[up][side]
        adopted == IF mid = Nil THEN t ELSE [t EXCEPT !.parent[mid] = n]
    IN  [Relink(adopted, n, up) EXCEPT
            !.kid[n][Opposite(side)] = mid,
            !.kid[up][side] = n,
            !.parent[up] = t.parent[n],
            !.parent[n] = up]

-----------------------------------------------------------------------------

\* Minimum (side = Left) and Maximum of the subtree at n0.
Extreme(t, n0, side) ==
    LET Down[n \in Links] == IF t.kid[n][side] = Nil THEN n ELSE Down[t.kid[n][side]]
    IN  IF n0 = Nil THEN Nil ELSE Down[n0]

\* Faulty variant: the way up ends at the parent.
NeighbourOfParent(t, n0, side) ==
    IF t.kid[n0][side] # Nil THEN Extreme(t, t.kid[n0][side], Opposite(side)) ELSE t.parent[n0]

\* Successor (side = Right) and Predecessor: below n0, or the first ancestor
\* that has n0 below its other side.
Neighbour(t, n0, side) ==
    LET Up[n \in Links] ==
            LET p == t.parent[n] IN IF p = Nil \/ n # t.kid[p][side] THEN p ELSE Up[p]
    IN  IF t.kid[n0][side] # Nil THEN Extreme(t, t.kid[n0][side], Opposite(side)) ELSE Up[n0]

\* The first node with the key on the way down, or the last node of the way.
Descend(t, key) ==
    LET Down[n \in Links] ==
            LET next == t.kid[n][IF key < t.key[n] THEN Left ELSE Right]
            IN  IF t.key[n] = key \/ next = Nil THEN n ELSE Down[next]
    IN  IF t.root = Nil THEN Nil ELSE Down[t.root]

\* From n0 on to that side, past the nodes with this key.
Outermost(t, n0, key, side) ==
    LET Along[n \in t.used] ==
            LET m == Neighbour(t, n, side)
            IN  IF m # Nil /\ t.key[m] = key THEN Along[m] ELSE n
    IN  Along[n0]

HasKey(t, n, key) == n # Nil /\ t.key[n] = key

\* Faulty variant: any node with the key will do.
FindAny(t, key) ==
    LET n == Descend(t, key)
    IN  IF HasKey(t, n, key) THEN n ELSE Nil

\* Find: the first node with this key.
Find(t, key) ==
    LET n == Descend(t, key)
    IN  IF HasKey(t, n, key) THEN Outermost(t, n, key, Left) ELSE Nil

\* FindPrefix: the first node with a greater key.
FindPrefix(t, key) ==
    LET n == Descend(t, key)
    IN  CASE HasKey(t, n, key) -> Neighbour(t, Outermost(t, n, key, Right), Right)
          [] n = Nil \/ key < t.key[n] -> n
          [] n # Nil /\ key > t.key[n] -> Neighbour(t, n, Right)
=============================================================================

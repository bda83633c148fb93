---------------------------- MODULE RBTreeProofs ----------------------------
(***************************************************************************)
(* Insertion and deletion keep the red-black tree well made (WellMade): the *)
(* nodes in use have places 1..N in key order (Placed, Sorted), what hangs *)
(* below a node is an interval of places that the node splits (InOrder), and *)
(* every path has one black height (Levels).  Rotations move intervals, and *)
(* the fixups raise or lower one height until the heights agree again.     *)
(***************************************************************************)
EXTENDS RBTree, SequenceTheorems, FiniteSetTheorems, WellFoundedInduction, TLAPS

\* F is computed by a tail recursion over D.
Computes(F, D, Ends, Result, Next1) ==
    /\ F = [u \in D |-> F[u]]
    /\ \A u \in D : F[u] = IF u \in Ends THEN Result[u] ELSE F[Next1[u]]

Computable(D, Ends, Result, Next1) == \E F : Computes(F, D, Ends, Result, Next1)

\* A tail recursion over a set that its steps do not leave has a solution,
\* whether it ends or not.
LEMMA TailRecursion ==
    ASSUME NEW D, NEW Ends, NEW Result, NEW Next1,
           \A u \in D : u \in Ends \/ Next1[u] \in D
    PROVE  Computable(D, Ends, Result, Next1)
<1> DEFINE Closed(S) == \A u \in S : u \in Ends \/ Next1[u] \in S
           Reach(y) == {z \in D : \A S \in SUBSET D : (y \in S /\ Closed(S)) => z \in S}
           Found(y) == Reach(y) \cap Ends
           F == [y \in D |-> IF Found(y) = {} THEN 0 ELSE Result[CHOOSE z : z \in Found(y)]]
<1>1. ASSUME NEW u \in D, u \in Ends PROVE Found(u) = {u}
    <2>1. Closed({u})
        BY <1>1
    <2>2. QED BY <1>1, <2>1
<1>2. ASSUME NEW u \in D, u \notin Ends PROVE Found(u) = Found(Next1[u])
    <2>1. Next1[u] \in D
        BY <1>2
    <2>2. ASSUME NEW z \in Reach(u), z \in Ends PROVE z \in Reach(Next1[u])
        <3>1. SUFFICES ASSUME NEW S \in SUBSET D, Next1[u] \in S, Closed(S) PROVE z \in S
            BY <2>2
        <3>2. Closed(S \cup {u})
            BY <3>1
        <3>3. z \in S \cup {u}
            BY <2>2, <3>2, <1>2
        <3>4. QED BY <3>3, <2>2, <1>2
    <2>3. ASSUME NEW z \in Reach(Next1[u]) PROVE z \in Reach(u)
        BY <2>3, <2>1, <1>2
    <2>4. QED BY <2>2, <2>3
<1> HIDE DEF Found
<1>3. \A u \in D : F[u] = IF u \in Ends THEN Result[u] ELSE F[Next1[u]]
    <2>1. TAKE u \in D
    <2>2. CASE u \in Ends
        BY <2>2, <1>1
    <2>3. CASE u \notin Ends
        BY <2>3, <1>2
    <2>4. QED BY <2>2, <2>3
<1>4. F = [u \in D |-> F[u]]
    OBVIOUS
<1> HIDE DEF F
<1>5. QED BY <1>3, <1>4 DEF Computable, Computes

LEMMA LeastOf ==
    ASSUME NEW T, T \subseteq Nat, T # {}
    PROVE  \E m \in T : \A k \in T : m <= k
<1>1. IsWellFoundedOn(OpToRel(<, Nat), Nat)
    BY ZenonT(30), NatLessThanWellFounded
<1>2. PICK m \in T : \A k \in T : ~(<<k, m>> \in OpToRel(<, Nat))
    BY ZenonT(30), <1>1, WFMin
<1>3. \A k \in T : ~(k < m)
    BY <1>2 DEF OpToRel
<1>4. QED
    BY <1>3

Sides == {Left, Right}

\* The place next to i on that side.
Beyond(i, side) == IF side = Left THEN i - 1 ELSE i + 1

LEMMA SidesAre ==
    /\ Left \in Sides /\ Right \in Sides /\ Left # Right
    /\ Opposite(Left) = Right /\ Opposite(Right) = Left
    /\ \A s \in Sides : s = Left \/ s = Right
    /\ \A t, n : SideOf(t, n) = Left \/ SideOf(t, n) = Right
BY DEF Sides, Left, Right, Opposite, SideOf

LEMMA TreeFields ==
    ASSUME NEW t \in Tree
    PROVE  /\ t.root \in Links /\ t.red \in SUBSET Links /\ t.used \in SUBSET Node
           /\ t.parent \in [Links -> Links] /\ t.kid \in [Links -> Links \X Links]
           /\ \A n \in Links : t.parent[n] \in Links
           /\ \A n \in Links, s \in Sides : t.kid[n][s] \in Links
           /\ t.key \in [Links -> Nat] /\ t.value \in [Links -> Nat]
<1>1. \A n \in Links : t.kid[n] \in Links \X Links
    BY DEF Tree
<1>2. QED BY <1>1 DEF Tree, Sides, Left, Right

\* u is t but for its links.
SameData(t, u) == u.used = t.used /\ u.red = t.red /\ u.key = t.key /\ u.value = t.value

\* u is t with the link from n to that side leading to m.
KidSet(t, n, side, m, u) ==
    /\ u \in Tree /\ SameData(t, u) /\ u.root = t.root /\ u.parent = t.parent
    /\ u.kid[n][side] = m
    /\ \A a \in Links, b \in Sides : a # n \/ b # side => u.kid[a][b] = t.kid[a][b]

LEMMA SetKid ==
    ASSUME NEW t \in Tree, NEW n \in Links, NEW side \in Sides, NEW m \in Links
    PROVE  KidSet(t, n, side, m, [t EXCEPT !.kid[n][side] = m])
<1> DEFINE u == [t EXCEPT !.kid[n][side] = m]
           k == [t.kid EXCEPT ![n] = [t.kid[n] EXCEPT ![side] = m]]
<1>0. t.kid \in [Links -> Links \X Links] /\ t.kid[n] \in Links \X Links
    BY DEF Tree
<1>1. [t.kid[n] EXCEPT ![side] = m] \in Links \X Links
    BY <1>0 DEF Sides, Left, Right
<1>2. k \in [Links -> Links \X Links]
    BY <1>0, <1>1
<1>3. u = [t EXCEPT !.kid = k] /\ u.kid = k
    BY <1>0 DEF Tree
<1>4. u \in Tree
    BY <1>2, <1>3 DEF Tree
<1>5. \A a \in Links, b \in Sides : u.kid[a][b] = IF a = n /\ b = side THEN m ELSE t.kid[a][b]
    BY <1>0, <1>3 DEF Sides, Left, Right
<1>6. SameData(t, u) /\ u.root = t.root /\ u.parent = t.parent
    BY <1>3 DEF Tree, SameData
<1> HIDE DEF u
<1>7. KidSet(t, n, side, m, u)
    BY <1>4, <1>5, <1>6 DEF KidSet
<1>8. QED BY <1>7 DEF u

ParentSet(t, n, m, u) ==
    /\ u \in Tree /\ SameData(t, u) /\ u.root = t.root /\ u.kid = t.kid
    /\ u.parent[n] = m
    /\ \A a \in Links : a # n => u.parent[a] = t.parent[a]

LEMMA SetParent ==
    ASSUME NEW t \in Tree, NEW n \in Links, NEW m \in Links
    PROVE  ParentSet(t, n, m, [t EXCEPT !.parent[n] = m])
BY DEF Tree, SameData, ParentSet

\* u is t with the link to n leading to m.
Relinked(t, n, m, u) ==
    /\ u \in Tree /\ SameData(t, u) /\ u.parent = t.parent
    /\ u.root = IF t.parent[n] = Nil THEN m ELSE t.root
    /\ t.parent[n] # Nil => u.kid[t.parent[n]][SideOf(t, n)] = m
    /\ \A a \in Links, b \in Sides :
          a = Nil \/ a # t.parent[n] \/ b # SideOf(t, n) => u.kid[a][b] = t.kid[a][b]

LEMMA RelinkFields ==
    ASSUME NEW t \in Tree, NEW n \in Links, NEW m \in Links
    PROVE  Relinked(t, n, m, Relink(t, n, m))
<1>1. CASE t.parent[n] = Nil
    <2>1. Relink(t, n, m) = [t EXCEPT !.root = m]
        BY <1>1 DEF Relink
    <2>2. QED BY <1>1, <2>1 DEF Tree, SameData, Relinked
<1>2. CASE t.parent[n] # Nil
    <2>1. t.parent[n] \in Links /\ SideOf(t, n) \in Sides
        BY TreeFields, SidesAre
    <2>2. KidSet(t, t.parent[n], SideOf(t, n), m, Relink(t, n, m))
        BY <1>2, <2>1, SetKid DEF Relink
    <2>3. QED BY <1>2, <2>2 DEF KidSet, Relinked
<1>3. QED BY <1>1, <1>2

\* r is t with n moved down to that side: up takes its place and mid, which
\* was between the two, becomes a kid of n.
Rotated(t, n, side, up, mid, r) ==
    /\ r \in Tree /\ SameData(t, r)
    /\ r.root = IF t.parent[n] = Nil THEN up ELSE t.root
    /\ r.parent[n] = up /\ r.parent[up] = t.parent[n]
    /\ mid # Nil => r.parent[mid] = n
    /\ \A a \in Links : a \notin {n, up} /\ (a # mid \/ a = Nil) => r.parent[a] = t.parent[a]
    /\ r.kid[n][Opposite(side)] = mid /\ r.kid[n][side] = t.kid[n][side]
    /\ r.kid[up][side] = n /\ r.kid[up][Opposite(side)] = t.kid[up][Opposite(side)]
    /\ t.parent[n] # Nil => r.kid[t.parent[n]][SideOf(t, n)] = up
    /\ \A a \in Links, b \in Sides :
          /\ a \notin {n, up}
          /\ a = Nil \/ a # t.parent[n] \/ b # SideOf(t, n)
          => r.kid[a][b] = t.kid[a][b]

LEMMA RotateFields ==
    ASSUME NEW t \in Tree, NEW n \in Node, NEW side \in Sides,
           NEW up \in Node, up = t.kid[n][Opposite(side)], NEW mid, mid = t.kid[up][side],
           up # n, mid # n, mid # up, t.parent[n] # n, t.parent[n] # up
    PROVE  Rotated(t, n, side, up, mid, Rotate(t, n, side))
<1> DEFINE t1 == IF mid = Nil THEN t ELSE [t EXCEPT !.parent[mid] = n]
           t2 == Relink(t1, n, up)
           t3 == [t2 EXCEPT !.kid[n][Opposite(side)] = mid]
           t4 == [t3 EXCEPT !.kid[up][side] = n]
           t5 == [t4 EXCEPT !.parent[up] = t.parent[n]]
           t6 == [t5 EXCEPT !.parent[n] = up]
<1>1. /\ n \in Links /\ up \in Links /\ mid \in Links /\ t.parent[n] \in Links
      /\ Opposite(side) \in Sides /\ Opposite(side) # side
    BY TreeFields, SidesAre DEF Links
<1>2. mid # Nil => ParentSet(t, mid, n, t1)
    BY <1>1, SetParent
<1>3. /\ t1 \in Tree /\ SameData(t, t1) /\ t1.root = t.root /\ t1.kid = t.kid
      /\ mid # Nil => t1.parent[mid] = n
      /\ \A a \in Links : (a # mid \/ a = Nil) => t1.parent[a] = t.parent[a]
    <2>1. CASE mid = Nil
        BY <2>1 DEF SameData
    <2>2. CASE mid # Nil
        BY <1>2, <2>2 DEF ParentSet
    <2>3. QED BY ZenonT(30), <2>1, <2>2
<1> HIDE DEF t1
<1>4. t1.parent[n] = t.parent[n] /\ SideOf(t1, n) = SideOf(t, n)
    BY <1>1, <1>3 DEF SideOf
<1>5. Relinked(t1, n, up, t2)
    BY <1>1, <1>3, RelinkFields
<1>6. t2 \in Tree
    BY <1>5 DEF Relinked
<1> HIDE DEF t2
<1>7. KidSet(t2, n, Opposite(side), mid, t3)
    BY <1>1, <1>6, SetKid
<1>8. t3 \in Tree
    BY <1>7 DEF KidSet
<1> HIDE DEF t3
<1>9. KidSet(t3, up, side, n, t4)
    BY <1>1, <1>8, SetKid
<1>10. t4 \in Tree
    BY <1>9 DEF KidSet
<1> HIDE DEF t4
<1>11. ParentSet(t4, up, t.parent[n], t5)
    BY <1>1, <1>10, SetParent
<1>12. t5 \in Tree
    BY <1>11 DEF ParentSet
<1> HIDE DEF t5
<1>13. ParentSet(t5, n, up, t6)
    BY <1>1, <1>12, SetParent
<1>14. Rotate(t, n, side) = t6
    <2>1. Rotate(t, n, side) = [t2 EXCEPT !.kid[n][Opposite(side)] = mid, !.kid[up][side] = n,
                                          !.parent[up] = t.parent[n], !.parent[n] = up]
        BY DEF Rotate, t1, t2
    <2>2. QED BY <2>1, <1>6 DEF t3, t4, t5, Tree
<1> HIDE DEF t6
<1>15. t6 \in Tree /\ SameData(t, t6)
    BY <1>3, <1>5, <1>7, <1>9, <1>11, <1>13 DEF Relinked, KidSet, ParentSet, SameData
<1>16. t6.root = IF t.parent[n] = Nil THEN up ELSE t.root
    BY <1>3, <1>4, <1>5, <1>7, <1>9, <1>11, <1>13 DEF Relinked, KidSet, ParentSet
<1>17. \A a \in Links : t6.parent[a] = IF a = n THEN up ELSE IF a = up THEN t.parent[n] ELSE t1.parent[a]
    BY <1>5, <1>7, <1>9, <1>11, <1>13 DEF Relinked, KidSet, ParentSet
<1>18. t6.kid = t4.kid
    BY <1>11, <1>13 DEF ParentSet
<1>19. /\ t4.kid[n][Opposite(side)] = mid /\ t4.kid[n][side] = t2.kid[n][side]
       /\ t4.kid[up][side] = n /\ t4.kid[up][Opposite(side)] = t2.kid[up][Opposite(side)]
       /\ \A a \in Links, b \in Sides : a \notin {n, up} => t4.kid[a][b] = t2.kid[a][b]
    BY <1>1, <1>7, <1>9 DEF KidSet
<1>20. /\ t.parent[n] # Nil => t2.kid[t.parent[n]][SideOf(t, n)] = up
       /\ \A a \in Links, b \in Sides :
             a = Nil \/ a # t.parent[n] \/ b # SideOf(t, n) => t2.kid[a][b] = t.kid[a][b]
    BY <1>3, <1>4, <1>5 DEF Relinked
<1>21. t2.kid[n][side] = t.kid[n][side] /\ t2.kid[up][Opposite(side)] = t.kid[up][Opposite(side)]
    BY <1>1, <1>20
<1>22. t.parent[n] # Nil => t4.kid[t.parent[n]][SideOf(t, n)] = up
    BY <1>1, <1>19, <1>20, SidesAre
<1>23. \A a \in Links, b \in Sides :
          /\ a \notin {n, up}
          /\ a = Nil \/ a # t.parent[n] \/ b # SideOf(t, n)
          => t4.kid[a][b] = t.kid[a][b]
    BY <1>19, <1>20
<1>24. /\ t6.parent[n] = up /\ t6.parent[up] = t.parent[n]
       /\ mid # Nil => t6.parent[mid] = n
       /\ \A a \in Links : a \notin {n, up} /\ (a # mid \/ a = Nil) => t6.parent[a] = t.parent[a]
    BY <1>1, <1>3, <1>17
<1>25. Rotated(t, n, side, up, mid, t6)
    BY ZenonT(30), <1>15, <1>16, <1>18, <1>19, <1>21, <1>22, <1>23, <1>24 DEF Rotated
<1>26. QED BY <1>14, <1>25

\* The nodes U have the places 1..N, and below each hang those from edge to edge.
Placed(U, N, pos, edge) ==
    /\ U \in SUBSET Node /\ N \in Nat
    /\ pos \in [U -> 1..N] /\ edge \in [U -> [Sides -> 1..N]]
    /\ \A i \in 1..N : \E n \in U : pos[n] = i
    /\ \A m, n \in U : pos[m] = pos[n] => m = n
    /\ \A n \in U : edge[n][Left] <= pos[n] /\ pos[n] <= edge[n][Right]

\* What hangs below n on that side are the nodes between n and its edge.
Hangs(t, U, pos, edge, n, side) ==
    LET m == t.kid[n][side]
    IN  \/ m = Nil /\ edge[n][side] = pos[n]
        \/ /\ m \in U /\ t.parent[m] = n
           /\ edge[m][side] = edge[n][side] /\ edge[m][Opposite(side)] = Beyond(pos[n], side)

RootSpans(t, U, N, edge) ==
    /\ U = {} => t.root = Nil
    /\ U # {} => /\ t.root \in U /\ t.parent[t.root] = Nil
                 /\ edge[t.root][Left] = 1 /\ edge[t.root][Right] = N

\* The links of the tree hang the nodes U in the order of their places.
InOrder(t, U, N, pos, edge) ==
    /\ t \in Tree /\ Placed(U, N, pos, edge) /\ RootSpans(t, U, N, edge)
    /\ \A n \in U, s \in Sides : Hangs(t, U, pos, edge, n, s)
    /\ \A n \in U : n # t.root => t.parent[n] \in U /\ t.kid[t.parent[n]][SideOf(t, n)] = n
    /\ t.kid[Nil][Left] = Nil

LEMMA PlacedNumbers ==
    ASSUME NEW U, NEW N, NEW pos, NEW edge, Placed(U, N, pos, edge)
    PROVE  /\ N \in Nat /\ Nil \notin U /\ U \subseteq Node /\ Node \subseteq Links /\ Nil \in Links
           /\ \A n \in U : /\ pos[n] \in Int /\ 1 <= pos[n] /\ pos[n] <= N
                           /\ \A s \in Sides : edge[n][s] \in Int /\ 1 <= edge[n][s] /\ edge[n][s] <= N
BY SidesAre DEF Placed, Node, Links, Nil

\* A link down and the links around it.
LEMMA KidFacts ==
    ASSUME NEW t, NEW U, NEW N, NEW pos, NEW edge, InOrder(t, U, N, pos, edge),
           NEW n \in U, NEW s \in Sides, NEW m, m = t.kid[n][s], m # Nil
    PROVE  /\ m \in U /\ m # n /\ m # t.root /\ t.parent[m] = n /\ SideOf(t, m) = s
           /\ t.kid[n][Opposite(s)] # m /\ t.parent[n] # m /\ t.parent[n] # n
           /\ \A r \in Sides : t.kid[m][r] # n /\ t.kid[m][r] # m
           /\ edge[m][s] = edge[n][s] /\ edge[m][Opposite(s)] = Beyond(pos[n], s)
<1> USE SidesAre
<1>1. /\ Placed(U, N, pos, edge) /\ RootSpans(t, U, N, edge)
      /\ \A a \in U, b \in Sides : Hangs(t, U, pos, edge, a, b)
    BY DEF InOrder
<1>2. /\ Nil \notin U
      /\ \A a \in U : /\ pos[a] \in Int /\ edge[a][Left] \in Int /\ edge[a][Right] \in Int
                      /\ edge[a][Left] <= pos[a] /\ pos[a] <= edge[a][Right]
    <2>1. \A a \in U : edge[a][Left] <= pos[a] /\ pos[a] <= edge[a][Right]
        BY <1>1 DEF Placed
    <2>2. QED BY <1>1, <2>1, PlacedNumbers
<1>3. \A a \in U, b \in Sides : t.kid[a][b] # Nil =>
         /\ t.kid[a][b] \in U /\ t.parent[t.kid[a][b]] = a
         /\ edge[t.kid[a][b]][b] = edge[a][b] /\ edge[t.kid[a][b]][Opposite(b)] = Beyond(pos[a], b)
    BY <1>1 DEF Hangs
<1>4. \A a \in U, b \in Sides : t.kid[a][b] # a
    <2>1. TAKE a \in U, b \in Sides
    <2>2. SUFFICES ASSUME t.kid[a][b] = a PROVE FALSE
        OBVIOUS
    <2>3. edge[a][Opposite(b)] = Beyond(pos[a], b)
        BY <1>2, <1>3, <2>2
    <2>4. QED BY <1>2, <2>3 DEF Beyond, Opposite, Left, Right
<1>5. \A a \in U, b \in Sides : t.kid[a][b] # Nil => t.kid[a][Opposite(b)] # t.kid[a][b]
    <2>1. TAKE a \in U, b \in Sides
    <2>2. SUFFICES ASSUME t.kid[a][b] # Nil, t.kid[a][Opposite(b)] = t.kid[a][b] PROVE FALSE
        OBVIOUS
    <2>3. edge[t.kid[a][b]][Opposite(b)] = Beyond(pos[a], b) /\ edge[t.kid[a][b]][Opposite(b)] = edge[a][Opposite(b)]
        BY <1>3, <2>2
    <2>4. QED BY <1>2, <2>3 DEF Beyond, Opposite, Left, Right
<1>6. /\ m \in U /\ m # n /\ t.parent[m] = n
      /\ edge[m][s] = edge[n][s] /\ edge[m][Opposite(s)] = Beyond(pos[n], s)
    BY <1>3, <1>4
<1>7. m # t.root
    BY <1>1, <1>2, <1>6 DEF RootSpans
<1>8. t.kid[n][Opposite(s)] # m
    BY <1>5
<1>9. SideOf(t, m) = s
    BY <1>6, <1>8 DEF SideOf, Opposite, Left, Right
<1>10. \A r \in Sides : t.kid[m][r] # n
    <2>1. SUFFICES ASSUME NEW r \in Sides, t.kid[m][r] = n PROVE FALSE
        OBVIOUS
    <2>2. edge[n][r] = edge[m][r] /\ edge[n][Opposite(r)] = Beyond(pos[m], r)
        BY <1>2, <1>3, <1>6, <2>1
    <2>3. QED BY <1>2, <1>6, <2>2 DEF Beyond, Opposite, Left, Right
<1>11. t.parent[n] # m /\ t.parent[n] # n
    <2>1. CASE n = t.root
        BY <1>1, <1>2, <1>6, <2>1 DEF RootSpans
    <2>2. CASE n # t.root
        <3>1. t.kid[t.parent[n]][SideOf(t, n)] = n
            BY <2>2 DEF InOrder
        <3>2. QED BY <3>1, <1>10, <1>4
    <2>3. QED BY <2>1, <2>2
<1>12. QED BY <1>4, <1>6, <1>7, <1>8, <1>9, <1>10, <1>11

\* A node that is no kid is the root.
LEMMA ParentFacts ==
    ASSUME NEW t, NEW U, NEW N, NEW pos, NEW edge, InOrder(t, U, N, pos, edge), NEW n \in U
    PROVE  /\ t.root \in U
           /\ n = t.root => t.parent[n] = Nil
           /\ n # t.root => /\ t.parent[n] \in U /\ t.parent[n] # Nil /\ t.parent[n] # n
                            /\ SideOf(t, n) \in Sides /\ t.kid[t.parent[n]][SideOf(t, n)] = n
                            /\ n # Nil
<1>1. Placed(U, N, pos, edge) /\ RootSpans(t, U, N, edge)
    BY DEF InOrder
<1>2. Nil \notin U
    BY <1>1, PlacedNumbers
<1>3. t.root \in U /\ t.parent[t.root] = Nil
    BY <1>1 DEF RootSpans
<1>4. CASE n # t.root
    <2>1. t.parent[n] \in U /\ t.kid[t.parent[n]][SideOf(t, n)] = n
        BY <1>4 DEF InOrder
    <2>2. t.parent[n] # n
        BY <1>2, <2>1, KidFacts, SidesAre
    <2>3. QED BY <1>2, <1>3, <1>4, <2>1, <2>2, SidesAre
<1>5. QED BY <1>3, <1>4

-----------------------------------------------------------------------------

\* The edges after a rotation: the two nodes exchange what lies between them.
Turned(edge, U, pos, n, up, side) ==
    [m \in U |-> [s \in Sides |->
        IF m = n /\ s = Opposite(side) THEN Beyond(pos[up], side)
        ELSE IF m = up /\ s = side THEN edge[n][side] ELSE edge[m][s]]]

\* A rotation may be made wherever there is a kid to turn up.
LEMMA RotateApplies ==
    ASSUME NEW t, NEW U, NEW N, NEW pos, NEW edge, InOrder(t, U, N, pos, edge),
           NEW n \in U, NEW side \in Sides, NEW up, up = t.kid[n][Opposite(side)], up # Nil
    PROVE  Rotated(t, n, side, up, t.kid[up][side], Rotate(t, n, side))
<1>1. /\ up \in U /\ up # n /\ t.parent[n] # up /\ t.parent[n] # n
      /\ t.kid[up][side] # n /\ t.kid[up][side] # up
    BY KidFacts, SidesAre
<1>2. t \in Tree /\ U \subseteq Node
    BY PlacedNumbers DEF InOrder
<1>3. QED BY <1>1, <1>2, RotateFields

LEMMA RotateKeepsOrder ==
    ASSUME NEW t, NEW U, NEW N, NEW pos, NEW edge, InOrder(t, U, N, pos, edge),
           NEW n \in U, NEW side \in Sides, NEW up, up = t.kid[n][Opposite(side)], up # Nil,
           NEW r, r = Rotate(t, n, side)
    PROVE  InOrder(r, U, N, pos, Turned(edge, U, pos, n, up, side))
<1> DEFINE other == Opposite(side)
           mid == t.kid[up][side]
           e == Turned(edge, U, pos, n, up, side)
<1> USE SidesAre
<1>1. Rotated(t, n, side, up, mid, r)
    BY RotateApplies
<1>2. /\ up \in U /\ up # n /\ t.parent[n] # up /\ t.parent[n] # n
      /\ mid # n /\ mid # up /\ t.parent[up] = n
      /\ edge[up][other] = edge[n][other] /\ edge[up][side] = Beyond(pos[n], other)
      /\ other \in Sides /\ other # side
    BY KidFacts
<1>3. /\ t \in Tree /\ Placed(U, N, pos, edge) /\ RootSpans(t, U, N, edge)
      /\ t.kid[Nil][Left] = Nil
    BY DEF InOrder
<1>4. /\ Nil \notin U /\ Nil \in Links /\ U \subseteq Links /\ N \in Nat
      /\ \A a \in U : /\ pos[a] \in 1..N /\ pos[a] \in Int
                      /\ \A s \in Sides : edge[a][s] \in 1..N /\ edge[a][s] \in Int
                      /\ edge[a][Left] <= pos[a] /\ pos[a] <= edge[a][Right]
    <2>1. /\ pos \in [U -> 1..N] /\ edge \in [U -> [Sides -> 1..N]]
          /\ \A a \in U : edge[a][Left] <= pos[a] /\ pos[a] <= edge[a][Right]
        BY <1>3 DEF Placed
    <2>2. \A a \in U : pos[a] \in 1..N /\ \A s \in Sides : edge[a][s] \in 1..N
        BY <2>1
    <2>3. QED BY <1>3, <2>1, <2>2, PlacedNumbers
<1>5. mid # Nil => mid \in U /\ t.parent[mid] = up /\ edge[mid][side] = edge[up][side]
                   /\ edge[mid][other] = Beyond(pos[up], side)
    BY <1>2, KidFacts
<1>6. mid = Nil => edge[up][side] = pos[up]
    BY <1>2, <1>4 DEF InOrder, Hangs
<1>7. /\ e[n][other] = Beyond(pos[up], side) /\ e[n][side] = edge[n][side]
      /\ e[up][side] = edge[n][side] /\ e[up][other] = edge[up][other]
      /\ \A a \in U : a \notin {n, up} => e[a] = edge[a]
    <2>1. \A a \in U : a \notin {n, up} => e[a] = [s \in Sides |-> edge[a][s]]
        BY DEF Turned
    <2>2. \A a \in U : edge[a] = [s \in Sides |-> edge[a][s]]
        BY <1>3 DEF Placed
    <2>3. QED BY <1>2, <2>1, <2>2 DEF Turned
<1>8. Placed(U, N, pos, e)
    <2>1. Beyond(pos[up], side) \in 1..N
        BY <1>2, <1>4, <1>5, <1>6 DEF Beyond, Opposite, Left, Right
    <2>2. e \in [U -> [Sides -> 1..N]]
        BY <1>2, <1>4, <2>1 DEF Turned
    <2>3. \A a \in U : e[a][Left] <= pos[a] /\ pos[a] <= e[a][Right]
        <3>1. \A a \in U : a \notin {n, up} => e[a][Left] <= pos[a] /\ pos[a] <= e[a][Right]
            BY <1>4, <1>7
        <3>2. e[n][Left] <= pos[n] /\ pos[n] <= e[n][Right]
            BY <1>2, <1>4, <1>7 DEF Beyond, Opposite, Left, Right
        <3>3. e[up][Left] <= pos[up] /\ pos[up] <= e[up][Right]
            BY <1>2, <1>4, <1>7 DEF Beyond, Opposite, Left, Right
        <3>4. QED BY <3>1, <3>2, <3>3
    <2>4. QED BY <1>3, <2>2, <2>3 DEF Placed
<1> HIDE DEF e
<1>9. /\ r \in Tree /\ SameData(t, r)
      /\ r.root = IF t.parent[n] = Nil THEN up ELSE t.root
      /\ r.parent[n] = up /\ r.parent[up] = t.parent[n]
      /\ mid # Nil => r.parent[mid] = n
      /\ \A a \in Links : a \notin {n, up} /\ (a # mid \/ a = Nil) => r.parent[a] = t.parent[a]
      /\ r.kid[n][other] = mid /\ r.kid[n][side] = t.kid[n][side]
      /\ r.kid[up][side] = n /\ r.kid[up][other] = t.kid[up][other]
      /\ t.parent[n] # Nil => r.kid[t.parent[n]][SideOf(t, n)] = up
    BY <1>1 DEF Rotated
<1>10. \A a \in Links, b \in Sides :
          /\ a \notin {n, up}
          /\ a = Nil \/ a # t.parent[n] \/ b # SideOf(t, n)
          => r.kid[a][b] = t.kid[a][b]
    BY <1>1 DEF Rotated
\* A kid that is neither of the three keeps its parent and its edges.
<1>11. ASSUME NEW a \in U, NEW s \in Sides, t.kid[a][s] \notin {n, up, mid}, r.kid[a][s] = t.kid[a][s],
              e[a][s] = edge[a][s]
       PROVE  Hangs(r, U, pos, e, a, s)
    <2>1. Hangs(t, U, pos, edge, a, s)
        BY DEF InOrder
    <2>2. CASE t.kid[a][s] = Nil
        BY <1>4, <1>11, <2>1, <2>2 DEF Hangs
    <2>3. CASE t.kid[a][s] # Nil
        <3>1. t.kid[a][s] \in U /\ r.parent[t.kid[a][s]] = t.parent[t.kid[a][s]] /\ e[t.kid[a][s]] = edge[t.kid[a][s]]
            BY <1>4, <1>7, <1>9, <1>11, <2>1, <2>3 DEF Hangs
        <3>2. QED BY <1>11, <2>1, <2>3, <3>1 DEF Hangs
    <2>4. QED BY <2>2, <2>3
<1>12. Hangs(r, U, pos, e, n, side)
    <2>1. t.kid[n][side] # up /\ t.kid[n][side] # n
        <3>1. t.kid[n][Opposite(other)] # up /\ Opposite(other) = side
            BY <1>2, KidFacts
        <3>2. t.kid[n][side] # n
            BY <1>4, KidFacts
        <3>3. QED BY <3>1, <3>2
    <2>2. t.kid[n][side] = mid => mid = Nil
        BY <1>2, <1>5, KidFacts
    <2>3. CASE t.kid[n][side] = Nil
        BY <1>4, <1>7, <1>9, <2>3 DEF InOrder, Hangs
    <2>4. CASE t.kid[n][side] # Nil
        BY ZenonT(30), <1>7, <1>9, <1>11, <2>1, <2>2, <2>4
    <2>5. QED BY <2>3, <2>4
<1>13. Hangs(r, U, pos, e, n, other)
    <2>1. CASE mid = Nil
        <3>1. Beyond(pos[up], side) = pos[n]
            BY <1>2, <1>4, <1>6, <2>1 DEF Beyond, Opposite, Left, Right
        <3>2. QED BY <1>7, <1>9, <2>1, <3>1 DEF Hangs
    <2>2. CASE mid # Nil
        <3>1. e[mid] = edge[mid] /\ mid \in U /\ r.parent[mid] = n
            BY ZenonT(30), <1>2, <1>5, <1>7, <1>9, <2>2
        <3>2. e[mid][other] = e[n][other] /\ e[mid][side] = Beyond(pos[n], other) /\ Opposite(other) = side
            BY <1>2, <1>5, <1>7, <2>2, <3>1
        <3>3. r.kid[n][other] = mid
            BY <1>9
        <3>4. QED BY <3>1, <3>2, <3>3 DEF Hangs
    <2>3. QED BY <2>1, <2>2
<1>14. Hangs(r, U, pos, e, up, side)
    BY <1>7, <1>9 DEF Hangs
<1>15. Hangs(r, U, pos, e, up, other)
    <2>1. t.kid[up][other] # n /\ t.kid[up][other] # up
        BY <1>2, KidFacts
    <2>2. t.kid[up][other] = mid => mid = Nil
        BY <1>2, KidFacts
    <2>3. CASE t.kid[up][other] = Nil
        BY <1>2, <1>4, <1>7, <1>9, <2>3 DEF InOrder, Hangs
    <2>4. CASE t.kid[up][other] # Nil
        BY ZenonT(30), <1>2, <1>7, <1>9, <1>11, <2>1, <2>2, <2>4
    <2>5. QED BY <2>3, <2>4
<1>16. ASSUME NEW a \in U, a \notin {n, up}, NEW s \in Sides
       PROVE  Hangs(r, U, pos, e, a, s)
    <2>1. CASE a = t.parent[n] /\ s = SideOf(t, n)
        <3>1. t.kid[a][s] = n
            BY <2>1, <1>4, ParentFacts
        <3>2. edge[n][s] = edge[a][s] /\ edge[n][Opposite(s)] = Beyond(pos[a], s)
            BY <1>4, <3>1, KidFacts
        <3>3. e[up][s] = edge[n][s] /\ e[up][Opposite(s)] = edge[n][Opposite(s)]
            BY <1>2, <1>7
        <3>4. r.kid[a][s] = up /\ r.parent[up] = a /\ e[a] = edge[a]
            BY <1>4, <1>7, <1>9, <1>16, <2>1
        <3>5. QED BY <1>2, <3>2, <3>3, <3>4 DEF Hangs
    <2>2. CASE ~(a = t.parent[n] /\ s = SideOf(t, n))
        <3>1. r.kid[a][s] = t.kid[a][s] /\ e[a] = edge[a]
            BY <1>4, <1>7, <1>10, <1>16, <2>2
        <3>2. t.kid[a][s] # n
            BY <1>4, <2>2, KidFacts
        <3>3. t.kid[a][s] # up
            BY <1>2, <1>4, <1>16, KidFacts
        <3>4. CASE t.kid[a][s] = Nil
            BY <1>4, <3>1, <3>4 DEF InOrder, Hangs
        <3>5. CASE t.kid[a][s] # Nil
            <4>1. t.kid[a][s] # mid
                BY <1>5, <1>16, <3>5, KidFacts
            <4>2. QED BY <1>11, <3>1, <3>2, <3>3, <4>1
        <3>6. QED BY <3>4, <3>5
    <2>3. QED BY <2>1, <2>2
<1>17. \A a \in U, s \in Sides : Hangs(r, U, pos, e, a, s)
    BY <1>2, <1>12, <1>13, <1>14, <1>15, <1>16
<1>18. RootSpans(r, U, N, e)
    <2>1. CASE t.parent[n] = Nil
        <3>1. n = t.root
            BY <1>4, <2>1, ParentFacts
        <3>2. e[up][Left] = edge[n][Left] /\ e[up][Right] = edge[n][Right]
            BY <1>2, <1>7
        <3>3. edge[n][Left] = 1 /\ edge[n][Right] = N
            BY <1>3, <3>1 DEF RootSpans
        <3>4. r.root = up /\ r.parent[up] = Nil
            BY <1>9, <2>1
        <3>5. QED BY <1>2, <3>2, <3>3, <3>4 DEF RootSpans
    <2>2. CASE t.parent[n] # Nil
        <3>1. n # t.root /\ t.root # up /\ t.root \in U
            BY <1>2, <2>2, ParentFacts, KidFacts
        <3>2. t.root # mid
            BY <1>2, <1>4, <3>1, KidFacts
        <3>3. r.root = t.root /\ r.parent[t.root] = t.parent[t.root] /\ e[t.root] = edge[t.root]
            BY <1>4, <1>7, <1>9, <2>2, <3>1, <3>2
        <3>4. QED BY <1>3, <3>1, <3>3 DEF RootSpans
    <2>3. QED BY <2>1, <2>2
<1>19. ASSUME NEW a \in U, a # r.root
       PROVE  r.parent[a] \in U /\ r.kid[r.parent[a]][SideOf(r, a)] = a
    \* Whoever hangs below a node is found from there.
    <2>1. \A b \in U, s \in Sides : r.kid[b][s] = a /\ r.parent[a] = b => r.kid[r.parent[a]][SideOf(r, a)] = a
        BY <1>19 DEF SideOf, Sides
    <2>2. CASE a = n
        BY <1>2, <1>9, <2>1, <2>2
    <2>3. CASE a = up
        <3>1. t.parent[n] # Nil
            BY <1>9, <1>19, <2>3
        <3>2. n # t.root
            BY <3>1, ParentFacts
        <3>3. t.parent[n] \in U /\ SideOf(t, n) \in Sides
            BY <3>2, ParentFacts
        <3>4. r.kid[t.parent[n]][SideOf(t, n)] = a /\ r.parent[a] = t.parent[n]
            BY <1>9, <2>3, <3>1
        <3>5. QED BY <2>1, <3>3, <3>4
    <2>4. CASE a \notin {n, up} /\ a = mid
        BY ZenonT(30), <1>4, <1>9, <2>1, <2>4, <1>2
    <2>5. CASE a \notin {n, up, mid}
        <3>1. r.parent[a] = t.parent[a]
            BY <1>4, <1>9, <2>5
        <3>2. a # t.root
            <4>1. CASE t.parent[n] = Nil
                BY <4>1, <2>5, ParentFacts
            <4>2. CASE t.parent[n] # Nil
                BY <4>2, <1>9, <1>19
            <4>3. QED BY <4>1, <4>2
        <3>3. t.parent[a] \in U /\ SideOf(t, a) \in Sides /\ t.kid[t.parent[a]][SideOf(t, a)] = a
            BY <3>2, ParentFacts
        <3>4. PICK b \in U, s \in Sides : b = t.parent[a] /\ t.kid[b][s] = a
            BY <3>3
        <3>5. r.kid[b][s] = a
            <4>1. CASE b = n
                BY ZenonT(30), <4>1, <1>2, <1>9, <2>5, <3>4
            <4>2. CASE b = up
                BY <4>2, <1>2, <1>9, <2>5, <3>4
            <4>3. CASE b \notin {n, up}
                <5>1. ~(b = t.parent[n] /\ s = SideOf(t, n))
                    BY <1>4, <2>5, <3>4, ParentFacts
                <5>2. QED BY <1>4, <1>10, <3>4, <4>3, <5>1
            <4>4. QED BY <4>1, <4>2, <4>3
        <3>6. QED BY <2>1, <3>1, <3>3, <3>4, <3>5
    <2>6. QED BY <2>2, <2>3, <2>4, <2>5
<1>20. r.kid[Nil][Left] = Nil
    BY <1>3, <1>4, <1>2, <1>10
<1>21. InOrder(r, U, N, pos, e)
    BY <1>8, <1>9, <1>17, <1>18, <1>19, <1>20 DEF InOrder
<1>22. QED BY <1>21 DEF e

\* Changing colours leaves the order.
SameLinks(t, u) ==
    /\ u.root = t.root /\ u.kid = t.kid /\ u.parent = t.parent
    /\ u.used = t.used /\ u.key = t.key /\ u.value = t.value

LEMMA ColourFields ==
    ASSUME NEW t \in Tree, NEW n \in Links
    PROVE  /\ Blacken(t, n) \in Tree /\ SameLinks(t, Blacken(t, n)) /\ Blacken(t, n).red = t.red \ {n}
           /\ Redden(t, n) \in Tree /\ SameLinks(t, Redden(t, n)) /\ Redden(t, n).red = t.red \cup {n}
BY DEF Blacken, Redden, Tree, SameLinks

LEMMA SameLinksSameOrder ==
    ASSUME NEW t, NEW U, NEW N, NEW pos, NEW edge, InOrder(t, U, N, pos, edge),
           NEW u \in Tree, SameLinks(t, u)
    PROVE  InOrder(u, U, N, pos, edge)
BY DEF InOrder, SameLinks, RootSpans, Hangs, SideOf

-----------------------------------------------------------------------------

BlackOne(t, n) == IF n \in t.red THEN 0 ELSE 1

\* bd[n] black nodes are on each path from n down, n included.
Levels(t, U, bd) ==
    /\ bd \in [U \cup {Nil} -> Nat] /\ bd[Nil] = 0 /\ t.red \subseteq U
    /\ \A n \in U, s \in Sides : bd[n] = bd[t.kid[n][s]] + BlackOne(t, n)

RedApart(t, n, s) == n \notin t.red \/ t.kid[n][s] \notin t.red

\* A red-black tree.
Balanced(t, U, N, pos, edge, bd) ==
    /\ InOrder(t, U, N, pos, edge)
    /\ Levels(t, U, bd)
    /\ \A n \in U, s \in Sides : RedApart(t, n, s)
    /\ t.root \notin t.red

\* The tree in the loop of RBInsert: only the red node x may be below a red
\* one, or the root.
Inserting(t, U, N, pos, edge, bd, x) ==
    /\ InOrder(t, U, N, pos, edge)
    /\ Levels(t, U, bd)
    /\ x \in U /\ x \in t.red
    /\ \A n \in U, s \in Sides : t.kid[n][s] # x => RedApart(t, n, s)
    /\ t.root \in t.red => t.root = x

\* The same nodes with the same data, in other places of the tree.
SameItems(t, u) == u.used = t.used /\ u.key = t.key /\ u.value = t.value

LEMMA LevelNumbers ==
    ASSUME NEW t, NEW U, NEW bd, Levels(t, U, bd)
    PROVE  /\ \A n \in U \cup {Nil} : bd[n] \in Nat
           /\ bd[Nil] = 0 /\ t.red \subseteq U
           /\ \A n \in U, s \in Sides : bd[n] = bd[t.kid[n][s]] + BlackOne(t, n)
BY DEF Levels

LEMMA KidsAre ==
    ASSUME NEW t, NEW U, NEW N, NEW pos, NEW edge, InOrder(t, U, N, pos, edge)
    PROVE  \A n \in U, s \in Sides : t.kid[n][s] \in U \cup {Nil}
BY DEF InOrder, Hangs

\* The end of the loop of RBInsert: the root is made black.
LEMMA InsertEnds ==
    ASSUME NEW t, NEW U, NEW N, NEW pos, NEW edge, NEW bd, NEW x,
           Inserting(t, U, N, pos, edge, bd, x), x = t.root \/ t.parent[x] \notin t.red,
           NEW u, u = [Blacken(t, t.root) EXCEPT !.parent[t.root] = Nil]
    PROVE  SameItems(t, u) /\ \E b : Balanced(u, U, N, pos, edge, b)
<1> DEFINE b == [bd EXCEPT ![t.root] = @ + 1 - BlackOne(t, t.root)]
<1> USE SidesAre
<1>1. /\ InOrder(t, U, N, pos, edge) /\ Levels(t, U, bd) /\ x \in U /\ x \in t.red
      /\ \A n \in U, s \in Sides : t.kid[n][s] # x => RedApart(t, n, s)
      /\ t.root \in t.red => t.root = x
    BY DEF Inserting
<1>2. t \in Tree /\ t.root \in U /\ t.parent[t.root] = Nil /\ Nil \notin U /\ U \subseteq Links /\ Nil \in Links
    BY <1>1, ParentFacts, PlacedNumbers DEF InOrder
<1>3. u \in Tree /\ SameLinks(t, u) /\ u.red = t.red \ {t.root}
    <2>1. /\ Blacken(t, t.root) \in Tree /\ SameLinks(t, Blacken(t, t.root))
          /\ Blacken(t, t.root).red = t.red \ {t.root}
        BY <1>2, ColourFields
    <2>2. ParentSet(Blacken(t, t.root), t.root, Nil, u)
        BY <1>2, <2>1, SetParent
    <2>3. \A a \in Links : u.parent[a] = t.parent[a]
        BY <1>2, <2>1, <2>2 DEF ParentSet, SameLinks
    <2>4. u.parent \in [Links -> Links] /\ t.parent \in [Links -> Links] /\ u \in Tree
        BY <1>2, <2>2, TreeFields DEF ParentSet
    <2>5. u.parent = t.parent
        BY <2>3, <2>4
    <2>6. QED BY <2>1, <2>2, <2>5 DEF ParentSet, SameLinks, SameData
<1>4. InOrder(u, U, N, pos, edge)
    BY <1>1, <1>3, SameLinksSameOrder
<1>5. \A n \in U, s \in Sides :
         /\ bd[n] = bd[t.kid[n][s]] + BlackOne(t, n) /\ bd[n] \in Nat /\ bd[t.kid[n][s]] \in Nat
         /\ t.kid[n][s] \in U \cup {Nil} /\ t.kid[n][s] # t.root
    <2>1. \A n \in U, s \in Sides : t.kid[n][s] # t.root
        BY <1>1, <1>2, KidFacts
    <2>2. \A n \in U, s \in Sides : t.kid[n][s] \in U \cup {Nil}
        BY <1>1, KidsAre
    <2>3. \A n \in U \cup {Nil} : bd[n] \in Nat
        BY <1>1, LevelNumbers
    <2>4. \A n \in U, s \in Sides : bd[n] = bd[t.kid[n][s]] + BlackOne(t, n)
        BY <1>1, LevelNumbers
    <2>5. QED BY <2>1, <2>2, <2>3, <2>4
<1>6. b \in [U \cup {Nil} -> Nat] /\ b[Nil] = 0 /\ b[t.root] = bd[t.root] + 1 - BlackOne(t, t.root)
      /\ \A n \in U \cup {Nil} : n # t.root => b[n] = bd[n]
    <2>1. bd \in [U \cup {Nil} -> Nat] /\ bd[Nil] = 0
        BY <1>1 DEF Levels
    <2>2. bd[t.root] + 1 - BlackOne(t, t.root) \in Nat
        BY <1>2, <2>1 DEF BlackOne
    <2>3. QED BY <1>2, <2>1, <2>2
<1> HIDE DEF b
<1>7. Levels(u, U, b)
    <2>1. ASSUME NEW n \in U, NEW s \in Sides PROVE b[n] = b[u.kid[n][s]] + BlackOne(u, n)
        <3>1. u.kid[n][s] = t.kid[n][s] /\ b[t.kid[n][s]] = bd[t.kid[n][s]]
            BY <1>3, <1>5, <1>6 DEF SameLinks
        <3>2. b[n] - BlackOne(u, n) = bd[n] - BlackOne(t, n)
            BY <1>3, <1>5, <1>6 DEF BlackOne
        <3>3. b[n] \in Nat /\ b[t.kid[n][s]] \in Nat
            BY <1>5, <1>6
        <3>4. QED BY <1>5, <3>1, <3>2, <3>3 DEF BlackOne
    <2>2. u.red \subseteq U
        BY <1>1, <1>3 DEF Levels
    <2>3. QED BY <1>6, <2>1, <2>2 DEF Levels
<1>8. \A n \in U, s \in Sides : RedApart(u, n, s)
    <2>1. TAKE n \in U, s \in Sides
    <2>2. CASE t.kid[n][s] # x
        BY <1>1, <1>3, <2>2 DEF RedApart, SameLinks
    <2>3. CASE t.kid[n][s] = x
        <3>1. t.parent[x] = n /\ x # t.root
            BY <1>1, <1>2, <2>3, KidFacts
        <3>2. n \notin u.red
            BY <1>3, <3>1
        <3>3. QED BY <3>2 DEF RedApart
    <2>4. QED BY <2>2, <2>3
<1>9. u.root \notin u.red
    BY <1>3 DEF SameLinks
<1>10. Balanced(u, U, N, pos, edge, b)
    BY <1>4, <1>7, <1>8, <1>9 DEF Balanced
<1>11. SameItems(t, u)
    BY <1>3 DEF SameLinks, SameItems
<1>12. QED BY <1>10, <1>11

LEMMA TwoSides ==
    ASSUME NEW side \in Sides
    PROVE  /\ Opposite(side) \in Sides /\ Opposite(side) # side /\ Opposite(Opposite(side)) = side
           /\ \A s \in Sides : s = side \/ s = Opposite(side)
BY SidesAre

\* Where a node hangs.
LEMMA HungOnce ==
    ASSUME NEW t, NEW U, NEW N, NEW pos, NEW edge, InOrder(t, U, N, pos, edge)
    PROVE  /\ \A a \in U, s \in Sides : t.kid[a][s] \in U => t.parent[t.kid[a][s]] = a
           /\ \A a \in U, r, s \in Sides : t.kid[a][s] \in U /\ t.kid[a][r] = t.kid[a][s] => r = s
           /\ \A a \in U, s \in Sides : t.kid[a][s] \in U \cup {Nil}
           /\ \A a \in U, s \in Sides : t.kid[a][s] # a
           /\ \A a \in U, s \in Sides : t.kid[a][s] # t.root
           /\ Nil \notin U /\ U \subseteq Links /\ Nil \in Links /\ t \in Tree
<1>1. Placed(U, N, pos, edge) /\ t \in Tree
    BY DEF InOrder
<1>2. Nil \notin U /\ U \subseteq Links /\ Nil \in Links
    BY <1>1, PlacedNumbers
<1>3. \A a \in U, s \in Sides : t.kid[a][s] # Nil =>
         /\ t.kid[a][s] \in U /\ t.parent[t.kid[a][s]] = a /\ SideOf(t, t.kid[a][s]) = s
         /\ t.kid[a][s] # a /\ t.kid[a][s] # t.root
    BY KidFacts
<1>4. \A a \in U, s \in Sides : t.kid[a][s] = Nil => t.kid[a][s] # t.root
    <2>1. \A a \in U : t.root \in U
        BY ParentFacts
    <2>2. QED BY <1>2, <2>1
<1>5. \A a \in U, s \in Sides : t.kid[a][s] \in U \cup {Nil}
    BY KidsAre
<1>6. \A a \in U, s \in Sides : t.kid[a][s] # a
    BY <1>2, <1>3
<1>7. \A a \in U, s \in Sides : t.kid[a][s] # t.root
    BY <1>3, <1>4
<1>8. \A a \in U, r, s \in Sides : t.kid[a][s] \in U /\ t.kid[a][r] = t.kid[a][s] => r = s
    <2>1. TAKE a \in U, r, s \in Sides
    <2>2. SUFFICES ASSUME t.kid[a][s] \in U, t.kid[a][r] = t.kid[a][s] PROVE r = s
        OBVIOUS
    <2>3. t.kid[a][r] # Nil /\ t.kid[a][s] # Nil
        BY <1>2, <2>2
    <2>4. SideOf(t, t.kid[a][s]) = s
        BY <1>3, <2>3
    <2>5. SideOf(t, t.kid[a][r]) = r
        BY <1>3, <2>3
    <2>6. QED BY <2>2, <2>4, <2>5
<1>9. \A a \in U, s \in Sides : t.kid[a][s] \in U => t.parent[t.kid[a][s]] = a
    BY <1>2, <1>3
<1>10. QED BY <1>1, <1>2, <1>5, <1>6, <1>7, <1>8, <1>9

LEMMA HungBelow ==
    ASSUME NEW t, NEW U, NEW N, NEW pos, NEW edge, InOrder(t, U, N, pos, edge),
           NEW a \in U, NEW s \in Sides, NEW m, m = t.kid[a][s], m # Nil
    PROVE  m \in U /\ m # a /\ m # t.root /\ t.parent[m] = a /\ SideOf(t, m) = s
BY KidFacts

\* No node hangs at two places.
LEMMA HungAtOne ==
    ASSUME NEW t, NEW U, NEW N, NEW pos, NEW edge, InOrder(t, U, N, pos, edge),
           NEW a \in U, NEW s \in Sides, NEW b \in U, NEW r \in Sides,
           t.kid[a][s] # Nil, t.kid[a][s] = t.kid[b][r]
    PROVE  a = b /\ s = r
<1> DEFINE m == t.kid[a][s]
           n == t.kid[b][r]
<1>1. t.parent[m] = a /\ SideOf(t, m) = s
    BY ONLY InOrder(t, U, N, pos, edge), a \in U, s \in Sides, t.kid[a][s] # Nil, HungBelow
<1>2. t.parent[n] = b /\ SideOf(t, n) = r
    <2>1. n # Nil
        OBVIOUS
    <2>2. QED BY ONLY InOrder(t, U, N, pos, edge), b \in U, r \in Sides, <2>1, HungBelow
<1>3. QED BY <1>1, <1>2

\* x goes on in the loop of RBInsert.
Climbs(t, x, p, g, side) ==
    /\ x # t.root /\ t.parent[x] \in t.red
    /\ p = t.parent[x] /\ g = t.parent[p] /\ side = SideOf(t, p)

\* A node that goes on in the loop of RBInsert has a red parent and a black
\* grandparent.
LEMMA InsertAround ==
    ASSUME NEW t, NEW U, NEW N, NEW pos, NEW edge, NEW bd, NEW x,
           NEW p, NEW g, NEW side, Inserting(t, U, N, pos, edge, bd, x), Climbs(t, x, p, g, side)
    PROVE  /\ t.parent[x] = p /\ t.parent[p] = g
           /\ x \in U /\ p \in U /\ g \in U /\ p # x /\ g # x /\ g # p
           /\ x \in t.red /\ p \in t.red /\ g \notin t.red
           /\ p # t.root /\ t.root \notin t.red
           /\ side \in Sides /\ t.kid[g][side] = p
           /\ SideOf(t, x) \in Sides /\ t.kid[p][SideOf(t, x)] = x
           /\ \A s \in Sides : s # SideOf(t, x) => t.kid[p][s] # x
<1>0. /\ x # t.root /\ t.parent[x] \in t.red
      /\ p = t.parent[x] /\ g = t.parent[p] /\ side = SideOf(t, p)
    BY DEF Climbs
<1>1. /\ InOrder(t, U, N, pos, edge) /\ x \in U /\ x \in t.red
      /\ t.root \in t.red => t.root = x
    BY DEF Inserting
<1>2. p \in U /\ p # x /\ SideOf(t, x) \in Sides /\ t.kid[p][SideOf(t, x)] = x
    BY <1>0, <1>1, ParentFacts
<1>3. t.root \notin t.red /\ p # t.root
    BY <1>0, <1>1
<1>4. g \in U /\ g # p /\ side \in Sides /\ t.kid[g][side] = p
    BY <1>0, <1>1, <1>2, <1>3, ParentFacts
<1>5. g \notin t.red
    <2>1. RedApart(t, g, side)
        BY <1>2, <1>4 DEF Inserting
    <2>2. QED BY <1>0, <1>4, <2>1 DEF RedApart
<1>6. \A s \in Sides : s # SideOf(t, x) => t.kid[p][s] # x
    <2>1. \A a \in U, r, s \in Sides : t.kid[a][s] \in U /\ t.kid[a][r] = t.kid[a][s] => r = s
        BY <1>1, HungOnce
    <2>2. QED BY <1>1, <1>2, <2>1
<1>7. QED BY <1>0, <1>1, <1>2, <1>3, <1>4, <1>5, <1>6

\* A red uncle: the grandparent becomes red in their stead.
LEMMA InsertUncle ==
    ASSUME NEW t, NEW U, NEW N, NEW pos, NEW edge, NEW bd, NEW x,
           NEW p, NEW g, NEW side, Inserting(t, U, N, pos, edge, bd, x), Climbs(t, x, p, g, side),
           NEW uncle, uncle = t.kid[g][Opposite(side)],
           uncle \in t.red, NEW u, u = Redden(Blacken(Blacken(t, p), uncle), g)
    PROVE  SameItems(t, u) /\ \E b : Inserting(u, U, N, pos, edge, b, g)
<1> DEFINE b == [n \in U \cup {Nil} |-> IF n \in {p, uncle} THEN bd[n] + 1 ELSE bd[n]]
<1>1. InOrder(t, U, N, pos, edge) /\ Levels(t, U, bd)
    BY DEF Inserting
<1>2. /\ t.parent[x] = p /\ t.parent[p] = g
      /\ x \in U /\ p \in U /\ g \in U /\ p # x /\ g # x /\ g # p
      /\ x \in t.red /\ p \in t.red /\ g \notin t.red /\ t.root \notin t.red
      /\ side \in Sides /\ t.kid[g][side] = p
    BY InsertAround
<1>3. Nil \notin U /\ U \subseteq Links /\ Nil \in Links /\ t \in Tree
    BY <1>1, HungOnce
<1>4. \A a \in U, s \in Sides : t.kid[a][s] \in U \cup {Nil} /\ (t.kid[a][s] \in U => t.parent[t.kid[a][s]] = a)
    BY <1>1, HungOnce
<1>5. bd[Nil] = 0 /\ t.red \subseteq U /\ bd \in [U \cup {Nil} -> Nat]
    BY <1>1 DEF Levels
<1>6. Opposite(side) \in Sides /\ Opposite(side) # side /\ \A s \in Sides : s = side \/ s = Opposite(side)
    BY <1>2, TwoSides
<1>7. uncle \in U /\ t.parent[uncle] = g /\ uncle # p /\ uncle # g
    <2>1. uncle \in U /\ t.parent[uncle] = g
        BY <1>2, <1>4, <1>5, <1>6
    <2>2. \A a \in U, r, s \in Sides : t.kid[a][s] \in U /\ t.kid[a][r] = t.kid[a][s] => r = s
        BY <1>1, HungOnce
    <2>3. uncle # p
        BY <1>2, <1>6, <2>1, <2>2
    <2>4. QED BY <1>2, <2>1, <2>3
<1>8. u \in Tree /\ SameLinks(t, u) /\ u.red = (t.red \ {p, uncle}) \cup {g}
    <2> DEFINE t1 == Blacken(t, p)
               t2 == Blacken(t1, uncle)
    <2>0. p \in Links /\ g \in Links /\ uncle \in Links
        BY <1>2, <1>3, <1>7
    <2>1. t1 \in Tree /\ SameLinks(t, t1) /\ t1.red = t.red \ {p}
        BY <1>3, <2>0, ColourFields
    <2> HIDE DEF t1
    <2>2. t2 \in Tree /\ SameLinks(t1, t2) /\ t2.red = t1.red \ {uncle}
        BY <2>0, <2>1, ColourFields
    <2>3. u = Redden(t2, g)
        BY DEF t1
    <2> HIDE DEF t2
    <2>4. u \in Tree /\ SameLinks(t2, u) /\ u.red = t2.red \cup {g}
        <3>1. Redden(t2, g) \in Tree /\ SameLinks(t2, Redden(t2, g)) /\ Redden(t2, g).red = t2.red \cup {g}
            BY ONLY <2>0, <2>2, ColourFields
        <3>2. QED BY <2>3, <3>1
    <2>5. u.red = (t.red \ {p, uncle}) \cup {g}
        BY <2>1, <2>2, <2>4
    <2>6. SameLinks(t, u)
        BY <2>1, <2>2, <2>4 DEF SameLinks
    <2>7. QED BY <2>4, <2>5, <2>6
<1>9. u.kid = t.kid /\ u.root = t.root
    BY <1>8 DEF SameLinks
<1>10. InOrder(u, U, N, pos, edge)
    BY <1>1, <1>8, SameLinksSameOrder
<1>11. b \in [U \cup {Nil} -> Nat] /\ b[Nil] = 0
    <2>1. Nil \notin {p, uncle}
        BY <1>2, <1>3, <1>7
    <2>2. \A n \in U \cup {Nil} : bd[n] \in Nat /\ bd[n] + 1 \in Nat
        BY <1>5
    <2>3. b \in [U \cup {Nil} -> Nat]
        BY <2>2
    <2>4. b[Nil] = bd[Nil]
        BY <2>1
    <2>5. QED BY <1>5, <2>3, <2>4
<1>12. /\ b[p] = bd[p] + 1 /\ b[uncle] = bd[uncle] + 1
       /\ \A n \in U \cup {Nil} : n \notin {p, uncle} => b[n] = bd[n]
    BY <1>2, <1>5, <1>7
<1> HIDE DEF b
<1>13. ASSUME NEW n \in U, NEW s \in Sides PROVE b[n] = b[t.kid[n][s]] + BlackOne(u, n)
    <2> DEFINE m == t.kid[n][s]
    <2>1. bd[n] = bd[m] + BlackOne(t, n) /\ bd[m] \in Nat /\ bd[n] \in Nat /\ m \in U \cup {Nil}
        <3>1. m \in U \cup {Nil}
            BY <1>4
        <3>2. bd[n] = bd[m] + BlackOne(t, n)
            BY <1>1, LevelNumbers
        <3>3. QED BY <1>5, <3>1, <3>2
    <2>2. CASE n = g
        <3>1. m \in {p, uncle}
            BY <1>2, <1>6, <2>2
        <3>2. b[m] = bd[m] + 1 /\ b[n] = bd[n]
            BY <1>2, <1>7, <1>12, <2>2, <3>1
        <3>3. BlackOne(t, n) = 1 /\ BlackOne(u, n) = 0
            BY <1>2, <1>8, <2>2 DEF BlackOne
        <3>4. QED BY <2>1, <3>2, <3>3
    <2>3. CASE n # g
        <3>1. m \notin {p, uncle}
            <4>1. m \in U => t.parent[m] = n
                BY <1>4
            <4>2. QED BY <1>2, <1>7, <2>3, <4>1
        <3>2. b[m] = bd[m]
            BY <1>12, <2>1, <3>1
        <3>3. CASE n \in {p, uncle}
            <4>1. BlackOne(t, n) = 0 /\ BlackOne(u, n) = 1 /\ b[n] = bd[n] + 1
                BY <1>2, <1>8, <1>12, <2>3, <3>3 DEF BlackOne
            <4>2. QED BY <2>1, <3>2, <4>1
        <3>4. CASE n \notin {p, uncle}
            <4>1. BlackOne(t, n) = BlackOne(u, n) /\ b[n] = bd[n]
                BY <1>8, <1>12, <2>3, <3>4 DEF BlackOne
            <4>2. QED BY <2>1, <3>2, <4>1
        <3>5. QED BY <3>3, <3>4
    <2>4. QED BY <2>2, <2>3
<1>14. Levels(u, U, b)
    <2>1. u.red \subseteq U
        BY <1>2, <1>5, <1>8
    <2>2. QED BY <1>9, <1>11, <1>13, <2>1 DEF Levels
<1>15. ASSUME NEW n \in U, NEW s \in Sides, u.kid[n][s] # g PROVE RedApart(u, n, s)
    <2>1. \A a \in U, r \in Sides : t.kid[a][r] # x => RedApart(t, a, r)
        BY DEF Inserting
    <2>2. CASE n = g
        <3>1. t.kid[g][s] \in {p, uncle}
            BY <1>2, <1>6, <2>2
        <3>2. u.kid[n][s] \notin u.red
            <4>1. g \notin {p, uncle} /\ t.kid[g][s] \notin u.red
                BY <1>2, <1>7, <1>8, <3>1
            <4>2. QED BY <1>9, <2>2, <4>1
        <3>3. QED BY <3>2 DEF RedApart
    <2>3. CASE n # g /\ t.kid[n][s] = x
        <3>1. n = p
            <4>1. t.kid[n][s] \in U => t.parent[t.kid[n][s]] = n
                BY <1>4
            <4>2. QED BY <1>2, <2>3, <4>1
        <3>2. QED BY <1>2, <1>8, <3>1 DEF RedApart
    <2>4. CASE n # g /\ t.kid[n][s] # x
        <3>1. RedApart(t, n, s)
            BY <2>1, <2>4
        <3>2. QED BY <1>8, <1>9, <1>15, <2>4, <3>1 DEF RedApart
    <2>5. QED BY <2>2, <2>3, <2>4
<1>16. Inserting(u, U, N, pos, edge, b, g)
    BY <1>2, <1>8, <1>9, <1>10, <1>14, <1>15 DEF Inserting
<1>17. SameItems(t, u)
    BY <1>8 DEF SameLinks, SameItems
<1>18. QED BY <1>16, <1>17

\* The links and the data after a rotation, for every node.
KidsTurned(t, U, n, side, up, r) ==
    /\ \A a \in U, s \in Sides :
          r.kid[a][s] = IF a = n /\ s = Opposite(side) THEN t.kid[up][side]
                        ELSE IF a = up /\ s = side THEN n
                        ELSE IF t.kid[a][s] = n THEN up ELSE t.kid[a][s]
    /\ r.root = IF t.root = n THEN up ELSE t.root
    /\ r.parent[n] = up /\ r.parent[up] = t.parent[n] /\ r.parent[Nil] = t.parent[Nil]
    /\ SameData(t, r) /\ r \in Tree

LEMMA RotateKids ==
    ASSUME NEW t, NEW U, NEW N, NEW pos, NEW edge, InOrder(t, U, N, pos, edge),
           NEW n \in U, NEW side \in Sides, NEW up, up = t.kid[n][Opposite(side)], up # Nil,
           NEW r, r = Rotate(t, n, side)
    PROVE  KidsTurned(t, U, n, side, up, r)
<1> DEFINE other == Opposite(side)
           mid == t.kid[up][side]
<1>0. other \in Sides /\ other # side /\ \A s \in Sides : s = side \/ s = other
    BY TwoSides
<1>1. Rotated(t, n, side, up, mid, r)
    BY RotateApplies
<1>2. /\ up \in U /\ up # n /\ t.parent[n] # up /\ t.parent[n] # n /\ t.parent[up] = n
      /\ n # Nil /\ n \in Links /\ U \subseteq Links /\ Nil \notin U
    BY <1>0, KidFacts, PlacedNumbers DEF InOrder
<1>3. \A a \in U, s \in Sides : t.kid[a][s] = n => a = t.parent[n] /\ s = SideOf(t, n) /\ a # n /\ a # up
    BY <1>2, KidFacts
<1>4. t.parent[n] # Nil => SideOf(t, n) \in Sides /\ t.kid[t.parent[n]][SideOf(t, n)] = n
    BY ParentFacts
<1>5. ASSUME NEW a \in U, NEW s \in Sides, a \notin {n, up}
      PROVE  r.kid[a][s] = IF t.kid[a][s] = n THEN up ELSE t.kid[a][s]
    <2>1. CASE t.kid[a][s] = n
        <3>1. a = t.parent[n] /\ s = SideOf(t, n) /\ t.parent[n] # Nil
            BY <1>2, <1>3, <2>1
        <3>2. r.kid[t.parent[n]][SideOf(t, n)] = up
            BY <1>1, <3>1 DEF Rotated
        <3>3. QED BY <2>1, <3>1, <3>2
    <2>2. CASE t.kid[a][s] # n
        <3>1. a = Nil \/ a # t.parent[n] \/ s # SideOf(t, n)
            BY <1>4, <2>2
        <3>2. a \in Links
            BY <1>2
        <3>3. r.kid[a][s] = t.kid[a][s]
            BY <1>1, <1>5, <3>1, <3>2 DEF Rotated
        <3>4. QED BY <2>2, <3>3
    <2>3. QED BY <2>1, <2>2
<1>6. /\ r.kid[n][other] = mid /\ r.kid[n][side] = t.kid[n][side]
      /\ r.kid[up][side] = n /\ r.kid[up][other] = t.kid[up][other]
      /\ r.parent[n] = up /\ r.parent[up] = t.parent[n]
      /\ r.root = IF t.parent[n] = Nil THEN up ELSE t.root
      /\ SameData(t, r) /\ r \in Tree
    BY <1>1 DEF Rotated
<1>7. t.kid[n][side] # n /\ t.kid[up][other] # n
    BY <1>0, <1>2, <1>3
<1>8. \A a \in U, s \in Sides :
          r.kid[a][s] = IF a = n /\ s = other THEN mid
                        ELSE IF a = up /\ s = side THEN n
                        ELSE IF t.kid[a][s] = n THEN up ELSE t.kid[a][s]
    <2>1. TAKE a \in U, s \in Sides
    <2>2. CASE a = n
        BY <1>0, <1>2, <1>6, <1>7, <2>2
    <2>3. CASE a = up
        BY <1>0, <1>2, <1>6, <1>7, <2>3
    <2>4. CASE a \notin {n, up}
        BY <1>5, <2>4
    <2>5. QED BY <2>2, <2>3, <2>4
<1>9. r.root = IF t.root = n THEN up ELSE t.root
    <2>1. t.root = n <=> t.parent[n] = Nil
        BY ParentFacts
    <2>2. QED BY <1>6, <2>1
<1>10. r.parent[Nil] = t.parent[Nil]
    <2>1. Nil \in Links /\ Nil \notin {n, up}
        BY <1>2, HungOnce
    <2>2. QED BY <1>1, <2>1 DEF Rotated
<1>11. QED BY <1>6, <1>8, <1>9, <1>10 DEF KidsTurned

\* An inner grandchild is turned into an outer one; no colour changes.
LEMMA InsertInner ==
    ASSUME NEW t, NEW U, NEW N, NEW pos, NEW edge, NEW bd, NEW x,
           NEW p, NEW g, NEW side, Inserting(t, U, N, pos, edge, bd, x), Climbs(t, x, p, g, side),
           x = t.kid[p][Opposite(side)],
           NEW u, u = Rotate(t, p, side)
    PROVE  /\ SameItems(t, u) /\ u.red = t.red
           /\ \E e : Inserting(u, U, N, pos, e, bd, p)
           /\ p # u.root /\ u.parent[p] = x /\ u.parent[x] = g /\ SideOf(u, x) = side
           /\ u.kid[x][Opposite(side)] # p /\ u.kid[g][Opposite(side)] = t.kid[g][Opposite(side)]
<1> DEFINE other == Opposite(side)
           mid == t.kid[x][side]
           e == Turned(edge, U, pos, p, x, side)
<1>1. InOrder(t, U, N, pos, edge) /\ Levels(t, U, bd)
    BY DEF Inserting
<1>2. /\ t.parent[x] = p /\ t.parent[p] = g
      /\ x \in U /\ p \in U /\ g \in U /\ p # x /\ g # x /\ g # p
      /\ x \in t.red /\ p \in t.red /\ g \notin t.red /\ p # t.root /\ t.root \notin t.red
      /\ side \in Sides /\ t.kid[g][side] = p
    BY InsertAround
<1>3. other \in Sides /\ other # side /\ \A s \in Sides : s = side \/ s = other
    BY <1>2, TwoSides
<1>4. Nil \notin U
    BY <1>1, HungOnce
<1>5. /\ \A a \in U, s \in Sides : t.kid[a][s] \in U \cup {Nil} /\ t.kid[a][s] # a
      /\ \A a \in U, s \in Sides : t.kid[a][s] \in U => t.parent[t.kid[a][s]] = a
    BY <1>1, HungOnce
<1>6. InOrder(u, U, N, pos, e)
    BY <1>1, <1>2, <1>4, RotateKeepsOrder
<1>7. KidsTurned(t, U, p, side, x, u)
    BY <1>1, <1>2, <1>4, RotateKids
<1>8. /\ \A a \in U, s \in Sides :
            u.kid[a][s] = IF a = p /\ s = other THEN mid
                          ELSE IF a = x /\ s = side THEN p
                          ELSE IF t.kid[a][s] = p THEN x ELSE t.kid[a][s]
      /\ u.root = t.root /\ u.parent[p] = x /\ u.parent[x] = g /\ u.red = t.red /\ SameItems(t, u)
    BY <1>2, <1>7 DEF KidsTurned, SameData, SameItems
<1> HIDE DEF e
<1>9. bd \in [U \cup {Nil} -> Nat] /\ bd[Nil] = 0 /\ t.red \subseteq U
    BY <1>1 DEF Levels
<1>10. \A a \in U, s \in Sides : bd[a] = bd[t.kid[a][s]] + BlackOne(t, a)
    BY <1>1, LevelNumbers
<1>11. bd[x] \in Nat /\ bd[p] \in Nat /\ bd[p] = bd[x] /\ bd[x] = bd[mid]
    <2>1. BlackOne(t, x) = 0 /\ BlackOne(t, p) = 0
        BY <1>2 DEF BlackOne
    <2>2. bd[x] \in Nat /\ bd[mid] \in Nat
        BY <1>2, <1>5, <1>9
    <2>3. bd[p] = bd[x] + BlackOne(t, p) /\ bd[x] = bd[mid] + BlackOne(t, x)
        BY <1>2, <1>3, <1>10
    <2>4. QED BY <2>1, <2>2, <2>3
<1>12. ASSUME NEW a \in U, NEW s \in Sides PROVE bd[u.kid[a][s]] = bd[t.kid[a][s]]
    <2>1. CASE a = p /\ s = other
        BY <1>8, <1>11, <2>1
    <2>2. CASE a = x /\ s = side
        BY <1>2, <1>8, <1>11, <2>2
    <2>3. CASE ~(a = p /\ s = other) /\ ~(a = x /\ s = side)
        BY <1>8, <1>11, <2>3
    <2>4. QED BY <2>1, <2>2, <2>3
<1>13. Levels(u, U, bd)
    BY <1>8, <1>9, <1>10, <1>12 DEF Levels, BlackOne
<1>14. ASSUME NEW a \in U, NEW s \in Sides, u.kid[a][s] # p PROVE RedApart(u, a, s)
    <2>0. \A c \in U, r \in Sides : t.kid[c][r] # x => RedApart(t, c, r)
        BY DEF Inserting
    <2>1. CASE a = p /\ s = other
        <3>1. mid # x
            BY <1>2, <1>5
        <3>2. mid \notin t.red
            BY <1>2, <2>0, <3>1 DEF RedApart
        <3>3. QED BY <1>8, <2>1, <3>2 DEF RedApart
    <2>2. CASE ~(a = p /\ s = other) /\ t.kid[a][s] = p
        <3>1. a = g
            BY <1>2, <1>5, <2>2
        <3>2. QED BY <1>2, <1>8, <3>1 DEF RedApart
    <2>3. CASE ~(a = p /\ s = other) /\ t.kid[a][s] # p
        <3>1. u.kid[a][s] = t.kid[a][s]
            BY <1>8, <1>14, <2>3
        <3>2. t.kid[a][s] # x
            <4>1. SUFFICES ASSUME t.kid[a][s] = x PROVE FALSE
                OBVIOUS
            <4>2. a = p
                BY <1>2, <1>5, <4>1
            <4>3. s = other
                BY <1>1, <1>2, <1>3, <1>4, <4>1, HungAtOne
            <4>4. QED BY <2>3, <4>2, <4>3
        <3>3. RedApart(t, a, s)
            BY <2>0, <3>2
        <3>4. QED BY <1>8, <3>1, <3>3 DEF RedApart
    <2>4. QED BY <2>1, <2>2, <2>3
<1>15. Inserting(u, U, N, pos, e, bd, p)
    BY <1>2, <1>6, <1>8, <1>13, <1>14 DEF Inserting
<1>16. u.kid[g][side] = x /\ u.kid[g][other] = t.kid[g][other]
    <2>1. t.kid[g][other] # p
        BY <1>1, <1>2, <1>3, <1>4, HungAtOne
    <2>2. QED BY <1>2, <1>3, <1>8, <2>1
<1>17. SideOf(u, x) = side
    <2>1. u.kid[g][side] = x /\ x # Nil
        BY <1>2, <1>4, <1>16
    <2>2. SideOf(u, u.kid[g][side]) = side
        BY <1>2, <1>6, <2>1, KidFacts
    <2>3. QED BY <2>1, <2>2
<1>18. u.kid[x][other] # p
    <2>1. t.kid[x][other] # p
        BY <1>2, <1>3, <1>5
    <2>2. u.kid[x][other] = t.kid[x][other]
        BY <1>2, <1>3, <1>8, <2>1
    <2>3. QED BY <2>1, <2>2
<1>19. QED BY <1>2, <1>8, <1>15, <1>16, <1>17, <1>18

\* An outer grandchild ends the loop: its parent takes the grandparent's place
\* and colour.
LEMMA InsertOuter ==
    ASSUME NEW t, NEW U, NEW N, NEW pos, NEW edge, NEW bd, NEW x,
           NEW p, NEW g, NEW side, Inserting(t, U, N, pos, edge, bd, x), Climbs(t, x, p, g, side),
           t.kid[g][Opposite(side)] \notin t.red, x # t.kid[p][Opposite(side)],
           NEW u, u = Rotate(Redden(Blacken(t, p), g), g, Opposite(side))
    PROVE  /\ SameItems(t, u) /\ u.parent[x] \notin u.red
           /\ \E e, b : Inserting(u, U, N, pos, e, b, x)
<1> DEFINE other == Opposite(side)
           c == Redden(Blacken(t, p), g)
           mid == t.kid[p][other]
           uncle == t.kid[g][other]
           e == Turned(edge, U, pos, g, p, other)
           b == [n \in U \cup {Nil} |-> IF n = p THEN bd[g] ELSE IF n = g THEN bd[g] - 1 ELSE bd[n]]
<1>1. InOrder(t, U, N, pos, edge) /\ Levels(t, U, bd)
    BY DEF Inserting
<1>2. /\ t.parent[x] = p /\ t.parent[p] = g
      /\ x \in U /\ p \in U /\ g \in U /\ p # x /\ g # x /\ g # p
      /\ x \in t.red /\ p \in t.red /\ g \notin t.red /\ p # t.root /\ t.root \notin t.red
      /\ side \in Sides /\ t.kid[g][side] = p
    BY InsertAround
<1>3. other \in Sides /\ other # side /\ Opposite(other) = side /\ \A s \in Sides : s = side \/ s = other
    BY <1>2, TwoSides
<1>4. Nil \notin U /\ U \subseteq Links /\ t \in Tree
    BY <1>1, HungOnce
<1>5. /\ \A a \in U, s \in Sides : t.kid[a][s] \in U \cup {Nil} /\ t.kid[a][s] # a
      /\ \A a \in U, s \in Sides : t.kid[a][s] \in U => t.parent[t.kid[a][s]] = a
    BY <1>1, HungOnce
<1>6. t.kid[p][side] = x
    <2>1. SideOf(t, x) \in Sides /\ t.kid[p][SideOf(t, x)] = x
        BY InsertAround
    <2>2. QED BY <1>3, <2>1
<1>7. c \in Tree /\ SameLinks(t, c) /\ c.red = (t.red \ {p}) \cup {g}
    <2> DEFINE t1 == Blacken(t, p)
    <2>1. p \in Links /\ g \in Links
        BY <1>2, <1>4
    <2>2. t1 \in Tree /\ SameLinks(t, t1) /\ t1.red = t.red \ {p}
        BY ONLY <1>4, <2>1, ColourFields
    <2> HIDE DEF t1
    <2>3. Redden(t1, g) \in Tree /\ SameLinks(t1, Redden(t1, g)) /\ Redden(t1, g).red = t1.red \cup {g}
        BY ONLY <2>1, <2>2, ColourFields
    <2>4. c = Redden(t1, g)
        BY DEF t1
    <2> HIDE DEF c
    <2>5. QED BY <2>2, <2>3, <2>4 DEF SameLinks
<1>8. u = Rotate(c, g, other)
    OBVIOUS
<1> HIDE DEF c
<1>9. c.kid = t.kid /\ c.parent = t.parent /\ c.root = t.root /\ SameItems(t, c)
    BY <1>7 DEF SameLinks, SameItems
<1>10. InOrder(c, U, N, pos, edge)
    BY <1>1, <1>7, SameLinksSameOrder
<1>11. p = c.kid[g][Opposite(other)] /\ p # Nil
    BY <1>2, <1>3, <1>4, <1>9
<1>12. InOrder(u, U, N, pos, e)
    BY <1>2, <1>3, <1>8, <1>10, <1>11, RotateKeepsOrder
<1>13. KidsTurned(c, U, g, other, p, u)
    BY <1>2, <1>3, <1>8, <1>10, <1>11, RotateKids
<1>14. \A a \in U, s \in Sides :
            u.kid[a][s] = IF a = g /\ s = side THEN mid
                          ELSE IF a = p /\ s = other THEN g
                          ELSE IF t.kid[a][s] = g THEN p ELSE t.kid[a][s]
    BY <1>3, <1>9, <1>13 DEF KidsTurned
<1>15. /\ u.root = IF t.root = g THEN p ELSE t.root
       /\ u.red = (t.red \ {p}) \cup {g} /\ SameItems(t, u)
    BY <1>7, <1>9, <1>13 DEF KidsTurned, SameData, SameItems
<1> HIDE DEF e
<1>16. bd \in [U \cup {Nil} -> Nat] /\ bd[Nil] = 0 /\ t.red \subseteq U
    BY <1>1 DEF Levels
<1>17. \A a \in U, s \in Sides : bd[a] = bd[t.kid[a][s]] + BlackOne(t, a)
    BY <1>1, LevelNumbers
<1>18. mid \in U \cup {Nil} /\ uncle \in U \cup {Nil} /\ mid \notin {p, g} /\ uncle \notin {p, g}
    <2>1. mid \in U \cup {Nil} /\ uncle \in U \cup {Nil} /\ mid # p /\ uncle # g
        BY <1>2, <1>3, <1>5
    <2>2. mid # g
        <3>1. SUFFICES ASSUME mid = g PROVE FALSE
            OBVIOUS
        <3>2. t.parent[g] = p /\ t.parent[g] # p
            BY <1>1, <1>2, <1>3, <1>4, <3>1, KidFacts
        <3>3. QED BY <3>2
    <2>3. uncle # p
        BY <1>1, <1>2, <1>3, <1>4, HungAtOne
    <2>4. QED BY <2>1, <2>2, <2>3
<1>19. /\ bd[g] = bd[p] + 1 /\ bd[g] = bd[uncle] + 1 /\ bd[p] = bd[x] /\ bd[p] = bd[mid]
       /\ bd[g] \in Nat /\ bd[p] \in Nat /\ bd[x] \in Nat /\ bd[mid] \in Nat /\ bd[uncle] \in Nat
    <2>1. BlackOne(t, p) = 0 /\ BlackOne(t, g) = 1
        BY <1>2 DEF BlackOne
    <2>2. bd[g] \in Nat /\ bd[p] \in Nat /\ bd[x] \in Nat /\ bd[mid] \in Nat /\ bd[uncle] \in Nat
        BY <1>2, <1>16, <1>18
    <2>3. /\ bd[g] = bd[p] + BlackOne(t, g) /\ bd[g] = bd[uncle] + BlackOne(t, g)
          /\ bd[p] = bd[x] + BlackOne(t, p) /\ bd[p] = bd[mid] + BlackOne(t, p)
        BY <1>2, <1>3, <1>6, <1>17
    <2>4. QED BY <2>1, <2>2, <2>3
<1>20. /\ b \in [U \cup {Nil} -> Nat]
       /\ b[p] = bd[g] /\ b[g] = bd[g] - 1
       /\ \A n \in U \cup {Nil} : n \notin {p, g} => b[n] = bd[n]
    <2>1. bd[g] - 1 \in Nat
        BY <1>19
    <2>2. QED BY <1>2, <1>16, <1>19, <2>1
<1> HIDE DEF b
<1>21. ASSUME NEW a \in U, NEW s \in Sides PROVE b[a] = b[u.kid[a][s]] + BlackOne(u, a)
    <2>1. BlackOne(u, p) = 1 /\ BlackOne(u, g) = 0
        BY <1>2, <1>15 DEF BlackOne
    <2>2. CASE a = g /\ s = side
        <3>1. u.kid[a][s] = mid /\ b[mid] = bd[mid] /\ b[a] = bd[g] - 1
            BY <1>14, <1>18, <1>20, <2>2
        <3>2. QED BY <1>19, <2>1, <2>2, <3>1
    <2>3. CASE a = g /\ s = other
        <3>1. u.kid[a][s] = uncle
            BY <1>2, <1>3, <1>5, <1>14, <2>3
        <3>2. b[uncle] = bd[uncle] /\ b[a] = bd[g] - 1
            BY <1>18, <1>20, <2>3
        <3>3. QED BY <1>19, <2>1, <2>3, <3>1, <3>2
    <2>4. CASE a = p /\ s = other
        <3>1. u.kid[a][s] = g /\ b[a] = bd[g] /\ b[g] = bd[g] - 1
            BY <1>2, <1>14, <1>20, <2>4
        <3>2. QED BY <1>19, <2>1, <2>4, <3>1
    <2>5. CASE a = p /\ s = side
        <3>1. u.kid[a][s] = x /\ b[a] = bd[g] /\ b[x] = bd[x]
            BY <1>2, <1>3, <1>6, <1>14, <1>20, <2>5
        <3>2. QED BY <1>19, <2>1, <2>5, <3>1
    <2>6. CASE a \notin {p, g}
        <3>1. b[a] = bd[a] /\ BlackOne(u, a) = BlackOne(t, a) /\ bd[a] = bd[t.kid[a][s]] + BlackOne(t, a)
            BY <1>15, <1>17, <1>20, <2>6 DEF BlackOne
        <3>2. b[u.kid[a][s]] = bd[t.kid[a][s]]
            <4>1. CASE t.kid[a][s] = g
                BY <1>14, <1>20, <2>6, <4>1
            <4>2. CASE t.kid[a][s] # g
                <5>1. u.kid[a][s] = t.kid[a][s] /\ t.kid[a][s] \in U \cup {Nil}
                    BY <1>5, <1>14, <2>6, <4>2
                <5>2. t.kid[a][s] # p
                    <6>1. t.kid[a][s] \in U => t.parent[t.kid[a][s]] = a
                        BY <1>5
                    <6>2. QED BY <1>2, <2>6, <6>1
                <5>3. QED BY <1>20, <4>2, <5>1, <5>2
            <4>3. QED BY <4>1, <4>2
        <3>3. QED BY <3>1, <3>2
    <2>7. QED BY <1>3, <2>2, <2>3, <2>4, <2>5, <2>6
<1>22. Levels(u, U, b)
    <2>1. b[Nil] = 0 /\ u.red \subseteq U
        BY <1>2, <1>4, <1>15, <1>16, <1>20
    <2>2. QED BY <1>20, <1>21, <2>1 DEF Levels
<1>23. ASSUME NEW a \in U, NEW s \in Sides, u.kid[a][s] # x PROVE RedApart(u, a, s)
    <2>0. \A n \in U, r \in Sides : t.kid[n][r] # x => RedApart(t, n, r)
        BY DEF Inserting
    <2>1. CASE a = p
        BY <1>2, <1>15, <2>1 DEF RedApart
    <2>2. CASE a = g /\ s = side
        <3>1. mid \notin t.red
            BY <1>2, <1>3, <2>0 DEF RedApart
        <3>2. u.kid[a][s] = mid
            BY <1>14, <2>2
        <3>3. QED BY <1>15, <1>18, <3>1, <3>2 DEF RedApart
    <2>3. CASE a = g /\ s = other
        <3>1. u.kid[a][s] = uncle
            BY <1>2, <1>3, <1>5, <1>14, <2>3
        <3>2. QED BY <1>15, <1>18, <3>1 DEF RedApart
    <2>4. CASE a \notin {p, g} /\ t.kid[a][s] = g
        <3>1. u.kid[a][s] = p
            BY <1>14, <2>4
        <3>2. QED BY <1>2, <1>15, <3>1 DEF RedApart
    <2>5. CASE a \notin {p, g} /\ t.kid[a][s] # g
        <3>1. u.kid[a][s] = t.kid[a][s]
            BY <1>14, <2>5
        <3>2. RedApart(t, a, s)
            BY <1>23, <2>0, <3>1
        <3>3. QED BY <1>15, <2>5, <3>1, <3>2 DEF RedApart
    <2>6. QED BY <1>3, <2>1, <2>2, <2>3, <2>4, <2>5
<1>24. u.root \in u.red => u.root = x
    BY <1>2, <1>15
<1>25. x \in u.red
    BY <1>2, <1>15
<1>26. Inserting(u, U, N, pos, e, b, x)
    BY <1>2, <1>12, <1>22, <1>23, <1>24, <1>25 DEF Inserting
<1>27. u.parent[x] = p
    <2>1. u.kid[p][side] = x
        BY <1>2, <1>3, <1>6, <1>14
    <2>2. QED BY <1>2, <1>4, <1>12, <2>1, HungBelow
<1>28. QED BY <1>2, <1>15, <1>26, <1>27

\* No operation on single links leaves the trees.
LEMMA RotateInTree ==
    ASSUME NEW t \in Tree, NEW n \in Links, NEW side \in Sides
    PROVE  Rotate(t, n, side) \in Tree
<1> DEFINE up  == t.kid[n][Opposite(side)]
           mid == t.kid[up][side]
           t1 == IF mid = Nil THEN t ELSE [t EXCEPT !.parent[mid] = n]
           t2 == Relink(t1, n, up)
           t3 == [t2 EXCEPT !.kid[n][Opposite(side)] = mid]
           t4 == [t3 EXCEPT !.kid[up][side] = n]
           t5 == [t4 EXCEPT !.parent[up] = t.parent[n]]
           t6 == [t5 EXCEPT !.parent[n] = up]
<1>1. Opposite(side) \in Sides
    BY TwoSides
<1>2. up \in Links
    BY <1>1, TreeFields
<1>3. mid \in Links /\ t.parent[n] \in Links
    BY <1>2, TreeFields
<1>4. Rotate(t, n, side) = [t2 EXCEPT !.kid[n][Opposite(side)] = mid, !.kid[up][side] = n,
                                      !.parent[up] = t.parent[n], !.parent[n] = up]
    BY DEF Rotate
<1> HIDE DEF up
<1> HIDE DEF mid
<1>5. t1 \in Tree
    BY <1>3, SetParent DEF ParentSet
<1> HIDE DEF t1
<1>6. t2 \in Tree
    BY <1>2, <1>5, RelinkFields DEF Relinked
<1> HIDE DEF t2
<1>7. t3 \in Tree
    BY <1>1, <1>3, <1>6, SetKid DEF KidSet
<1>8. Rotate(t, n, side) = [t3 EXCEPT !.kid[up][side] = n, !.parent[up] = t.parent[n], !.parent[n] = up]
    BY <1>4, <1>6 DEF Tree
<1> HIDE DEF t3
<1>9. t4 \in Tree
    BY <1>2, <1>7, SetKid DEF KidSet
<1>10. Rotate(t, n, side) = [t4 EXCEPT !.parent[up] = t.parent[n], !.parent[n] = up]
    BY <1>8, <1>7 DEF Tree
<1> HIDE DEF t4
<1>11. t5 \in Tree
    BY <1>2, <1>3, <1>9, SetParent DEF ParentSet
<1>12. Rotate(t, n, side) = t6
    BY <1>9, <1>10 DEF Tree
<1> HIDE DEF t5
<1>13. t6 \in Tree
    BY <1>2, <1>11, SetParent DEF ParentSet
<1>14. QED BY <1>12, <1>13

\* Where the loop of RBInsert goes on from.
InsertStep(t, x, p, g, side) ==
    IF t.kid[g][Opposite(side)] \in t.red
    THEN <<Redden(Blacken(Blacken(t, p), t.kid[g][Opposite(side)]), g), g>>
    ELSE IF x = t.kid[p][Opposite(side)] THEN <<Rotate(t, p, side), p>>
    ELSE <<Rotate(Redden(Blacken(t, p), g), g, Opposite(side)), x>>

LEMMA InsertStepInTree ==
    ASSUME NEW t \in Tree, NEW x \in Links, NEW p \in Links, NEW g \in Links, NEW side \in Sides
    PROVE  InsertStep(t, x, p, g, side) \in Tree \X Links
<1> DEFINE uncle == t.kid[g][Opposite(side)]
           t1 == Blacken(t, p)
<1>1. Opposite(side) \in Sides
    BY TwoSides
<1>2. uncle \in Links
    BY <1>1, TreeFields
<1>3. t1 \in Tree
    BY ColourFields
<1>4. Rotate(t, p, side) \in Tree
    BY RotateInTree
<1> HIDE DEF t1
<1>5. Redden(t1, g) \in Tree /\ Blacken(t1, uncle) \in Tree
    BY <1>2, <1>3, ColourFields
<1>6. Redden(Blacken(t1, uncle), g) \in Tree
    BY <1>5, ColourFields
<1>7. Rotate(Redden(t1, g), g, Opposite(side)) \in Tree
    BY <1>1, <1>5, RotateInTree
<1>8. InsertStep(t, x, p, g, side) =
        IF uncle \in t.red THEN <<Redden(Blacken(t1, uncle), g), g>>
        ELSE IF x = t.kid[p][Opposite(side)] THEN <<Rotate(t, p, side), p>>
        ELSE <<Rotate(Redden(t1, g), g, Opposite(side)), x>>
    BY DEF InsertStep, t1
<1>9. QED BY <1>4, <1>6, <1>7, <1>8

LEMMA InsertFixupIs ==
    ASSUME NEW t \in Tree, NEW x \in Links
    PROVE  InsertFixup[<<t, x>>] =
             IF x = t.root \/ t.parent[x] \notin t.red
             THEN [Blacken(t, t.root) EXCEPT !.parent[t.root] = Nil]
             ELSE InsertFixup[InsertStep(t, x, t.parent[x], t.parent[t.parent[x]], SideOf(t, t.parent[x]))]
<1> DEFINE D == Tree \X Links
           Ends == {at \in D : at[2] = at[1].root \/ at[1].parent[at[2]] \notin at[1].red}
           Result == [at \in D |-> [Blacken(at[1], at[1].root) EXCEPT !.parent[at[1].root] = Nil]]
           Next1 == [at \in D |-> InsertStep(at[1], at[2], at[1].parent[at[2]], at[1].parent[at[1].parent[at[2]]],
                                             SideOf(at[1], at[1].parent[at[2]]))]
           Loop(F) ==
              [at \in Tree \X Links |->
                LET u == at[1]
                    y == at[2]
                    p     == u.parent[y]
                    g     == u.parent[p]
                    side  == SideOf(u, p)
                    uncle == u.kid[g][Opposite(side)]
                IN  IF y = u.root \/ p \notin u.red
                    THEN [Blacken(u, u.root) EXCEPT !.parent[u.root] = Nil]
                    ELSE F[
                        IF uncle \in u.red THEN <<Redden(Blacken(Blacken(u, p), uncle), g), g>>
                        ELSE IF y = u.kid[p][Opposite(side)] THEN <<Rotate(u, p, side), p>>
                        ELSE <<Rotate(Redden(Blacken(u, p), g), g, Opposite(side)), y>>]]
           Body(F) == [at \in D |-> IF at \in Ends THEN Result[at] ELSE F[Next1[at]]]
<1>1. \A at \in D : at \in Ends \/ Next1[at] \in D
    <2>1. TAKE at \in D
    <2>2. at[1] \in Tree /\ at[2] \in Links
        OBVIOUS
    <2>3. /\ at[1].parent[at[2]] \in Links /\ at[1].parent[at[1].parent[at[2]]] \in Links
          /\ SideOf(at[1], at[1].parent[at[2]]) \in Sides
        BY <2>2, TreeFields, SidesAre
    <2>4. Next1[at] \in D
        BY ZenonT(30), <2>2, <2>3, InsertStepInTree
    <2>5. QED BY <2>4
<1>2. \A F : Loop(F) = Body(F)
    BY ZenonT(30) DEF InsertStep
<1>3. \E F : F = Body(F)
    <2> HIDE DEF D, Ends, Result, Next1
    <2>1. Computable(D, Ends, Result, Next1)
        BY <1>1, TailRecursion
    <2>2. PICK F : Computes(F, D, Ends, Result, Next1)
        BY <2>1 DEF Computable
    <2>3. F = Body(F)
        BY <2>2 DEF Computes
    <2>4. QED BY <2>3
<1>4. \E F : F = Loop(F)
    <2> HIDE DEF Loop, Body
    <2>1. QED BY <1>2, <1>3
<1>5. InsertFixup = Loop(InsertFixup)
    BY ZenonT(30), <1>4 DEF InsertFixup
<1>6. InsertFixup = Body(InsertFixup)
    <2> HIDE DEF Loop, Body
    <2>1. QED BY <1>2, <1>5
<1>7. <<t, x>> \in D
    OBVIOUS
<1>8. InsertFixup[<<t, x>>] = IF <<t, x>> \in Ends THEN Result[<<t, x>>] ELSE InsertFixup[Next1[<<t, x>>]]
    BY ZenonT(30), <1>6, <1>7
<1>9. QED BY <1>7, <1>8

\* u is t with its nodes in other places, balanced.
BalancedAs(t, u, U, N, pos) == SameItems(t, u) /\ \E e, b : Balanced(u, U, N, pos, e, b)

LEMMA FixupEnds ==
    ASSUME NEW t, NEW U, NEW N, NEW pos, NEW edge, NEW bd, NEW x,
           Inserting(t, U, N, pos, edge, bd, x), x = t.root \/ t.parent[x] \notin t.red
    PROVE  BalancedAs(t, InsertFixup[<<t, x>>], U, N, pos)
<1>1. t \in Tree /\ x \in Links
    <2>1. InOrder(t, U, N, pos, edge) /\ x \in U
        BY DEF Inserting
    <2>2. QED BY <2>1, HungOnce
<1>2. InsertFixup[<<t, x>>] = [Blacken(t, t.root) EXCEPT !.parent[t.root] = Nil]
    BY <1>1, InsertFixupIs
<1>3. QED BY <1>2, InsertEnds DEF BalancedAs

LEMMA FixupClimbs ==
    ASSUME NEW t, NEW U, NEW N, NEW pos, NEW edge, NEW bd, NEW x,
           NEW p, NEW g, NEW side, Inserting(t, U, N, pos, edge, bd, x), Climbs(t, x, p, g, side)
    PROVE  InsertFixup[<<t, x>>] = InsertFixup[InsertStep(t, x, p, g, side)]
<1>1. t \in Tree /\ x \in Links
    <2>1. InOrder(t, U, N, pos, edge) /\ x \in U
        BY DEF Inserting
    <2>2. QED BY <2>1, HungOnce
<1>2. QED BY <1>1, InsertFixupIs DEF Climbs

LEMMA FixupOuter ==
    ASSUME NEW t, NEW U, NEW N, NEW pos, NEW edge, NEW bd, NEW x,
           NEW p, NEW g, NEW side, Inserting(t, U, N, pos, edge, bd, x), Climbs(t, x, p, g, side),
           t.kid[g][Opposite(side)] \notin t.red, x # t.kid[p][Opposite(side)]
    PROVE  BalancedAs(t, InsertFixup[<<t, x>>], U, N, pos)
<1> DEFINE u == Rotate(Redden(Blacken(t, p), g), g, Opposite(side))
<1>1. InsertFixup[<<t, x>>] = InsertFixup[<<u, x>>]
    <2>1. InsertFixup[<<t, x>>] = InsertFixup[InsertStep(t, x, p, g, side)]
        BY FixupClimbs
    <2>2. InsertStep(t, x, p, g, side) = <<u, x>>
        BY DEF InsertStep
    <2>3. QED BY <2>1, <2>2
<1>2. SameItems(t, u) /\ u.parent[x] \notin u.red /\ \E e, b : Inserting(u, U, N, pos, e, b, x)
    BY InsertOuter
<1> HIDE DEF u
<1>3. BalancedAs(u, InsertFixup[<<u, x>>], U, N, pos)
    BY <1>2, FixupEnds
<1>4. QED BY <1>1, <1>2, <1>3 DEF BalancedAs, SameItems

LEMMA FixupInner ==
    ASSUME NEW t, NEW U, NEW N, NEW pos, NEW edge, NEW bd, NEW x,
           NEW p, NEW g, NEW side, Inserting(t, U, N, pos, edge, bd, x), Climbs(t, x, p, g, side),
           t.kid[g][Opposite(side)] \notin t.red, x = t.kid[p][Opposite(side)]
    PROVE  BalancedAs(t, InsertFixup[<<t, x>>], U, N, pos)
<1> DEFINE u == Rotate(t, p, side)
<1>1. InsertFixup[<<t, x>>] = InsertFixup[<<u, p>>]
    <2>1. InsertFixup[<<t, x>>] = InsertFixup[InsertStep(t, x, p, g, side)]
        BY FixupClimbs
    <2>2. InsertStep(t, x, p, g, side) = <<u, p>>
        BY DEF InsertStep
    <2>3. QED BY <2>1, <2>2
<1>2. /\ SameItems(t, u) /\ u.red = t.red
      /\ \E e : Inserting(u, U, N, pos, e, bd, p)
      /\ p # u.root /\ u.parent[p] = x /\ u.parent[x] = g /\ SideOf(u, x) = side
      /\ u.kid[x][Opposite(side)] # p /\ u.kid[g][Opposite(side)] = t.kid[g][Opposite(side)]
    <2>1. u = Rotate(t, p, side)
        OBVIOUS
    <2> HIDE DEF u
    <2>2. QED BY <2>1, InsertInner
<1>3. x \in t.red
    BY DEF Inserting
<1> HIDE DEF u
<1>4. Climbs(u, p, x, g, side)
    BY ZenonT(30), <1>2, <1>3 DEF Climbs
<1>5. BalancedAs(u, InsertFixup[<<u, p>>], U, N, pos)
    BY <1>2, <1>4, FixupOuter
<1>6. QED BY <1>1, <1>2, <1>5 DEF BalancedAs, SameItems

\* How many nodes hang at n.
Span(edge, n) == edge[n][Right] - edge[n][Left]

LEMMA SpanBelow ==
    ASSUME NEW t, NEW U, NEW N, NEW pos, NEW edge, InOrder(t, U, N, pos, edge), NEW n \in U
    PROVE  /\ Span(edge, n) \in Nat /\ Span(edge, n) <= N /\ N \in Nat
           /\ \A s \in Sides : t.kid[n][s] # Nil => Span(edge, t.kid[n][s]) < Span(edge, n)
<1>1. Placed(U, N, pos, edge)
    BY DEF InOrder
<1>2. \A m \in U : /\ pos[m] \in Int /\ edge[m][Left] \in Int /\ edge[m][Right] \in Int
                   /\ edge[m][Left] <= pos[m] /\ pos[m] <= edge[m][Right]
                   /\ 1 <= edge[m][Left] /\ edge[m][Right] <= N
    <2>1. \A m \in U : edge[m][Left] <= pos[m] /\ pos[m] <= edge[m][Right]
        BY <1>1 DEF Placed
    <2>2. QED BY <1>1, <2>1, PlacedNumbers, SidesAre
<1>3. N \in Nat
    BY <1>1 DEF Placed
<1>4. ASSUME NEW s \in Sides, t.kid[n][s] # Nil PROVE Span(edge, t.kid[n][s]) < Span(edge, n)
    <2> DEFINE m == t.kid[n][s]
    <2>1. m \in U /\ edge[m][s] = edge[n][s] /\ edge[m][Opposite(s)] = Beyond(pos[n], s)
        BY <1>4, KidFacts
    <2>2. CASE s = Left
        BY <1>2, <2>1, <2>2, SidesAre DEF Beyond, Span
    <2>3. CASE s = Right
        BY <1>2, <2>1, <2>3, SidesAre DEF Beyond, Span
    <2>4. QED BY <2>2, <2>3, SidesAre
<1>5. QED BY <1>2, <1>3, <1>4 DEF Span

\* The loop of RBInsert balances the tree.
LEMMA InsertFixupBalances ==
    ASSUME NEW t0, NEW U, NEW N, NEW pos, NEW edge, NEW bd0, NEW x0,
           Inserting(t0, U, N, pos, edge, bd0, x0)
    PROVE  BalancedAs(t0, InsertFixup[<<t0, x0>>], U, N, pos)
<1> DEFINE Fails(k) == \E t, bd, x : /\ Inserting(t, U, N, pos, edge, bd, x) /\ k = N - Span(edge, x)
                                     /\ ~BalancedAs(t, InsertFixup[<<t, x>>], U, N, pos)
           T == {k \in Nat : Fails(k)}
<1>1. SUFFICES ASSUME ~BalancedAs(t0, InsertFixup[<<t0, x0>>], U, N, pos) PROVE FALSE
    OBVIOUS
<1>2. \A t, bd, x : Inserting(t, U, N, pos, edge, bd, x) => N - Span(edge, x) \in Nat
    <2>1. TAKE t, bd, x
    <2>2. HAVE Inserting(t, U, N, pos, edge, bd, x)
    <2>3. InOrder(t, U, N, pos, edge) /\ x \in U
        BY <2>2 DEF Inserting
    <2>4. Span(edge, x) \in Nat /\ Span(edge, x) <= N /\ N \in Nat
        BY <2>3, SpanBelow
    <2>5. QED BY <2>4
<1>3. N - Span(edge, x0) \in T
    BY <1>1, <1>2
<1>4. PICK k \in T : \A j \in T : k <= j
    BY <1>3, LeastOf
<1>5. PICK t, bd, x : /\ Inserting(t, U, N, pos, edge, bd, x) /\ k = N - Span(edge, x)
                      /\ ~BalancedAs(t, InsertFixup[<<t, x>>], U, N, pos)
    BY <1>4
<1> DEFINE p == t.parent[x]
           g == t.parent[p]
           side == SideOf(t, p)
           uncle == t.kid[g][Opposite(side)]
           u == Redden(Blacken(Blacken(t, p), uncle), g)
<1>6. Climbs(t, x, p, g, side)
    BY <1>5, FixupEnds DEF Climbs
<1>7. InOrder(t, U, N, pos, edge) /\ x \in U /\ p \in U /\ g \in U /\ side \in Sides /\ SideOf(t, x) \in Sides
      /\ t.kid[p][SideOf(t, x)] = x /\ t.kid[g][side] = p
    <2>1. InOrder(t, U, N, pos, edge)
        BY <1>5 DEF Inserting
    <2> HIDE DEF p, g, side
    <2>2. QED BY <1>5, <1>6, <2>1, InsertAround
<1> HIDE DEF p, g, side
<1>8. uncle \in t.red
    BY <1>5, <1>6, FixupOuter, FixupInner
<1>9. InsertFixup[<<t, x>>] = InsertFixup[<<u, g>>]
    <2>1. InsertFixup[<<t, x>>] = InsertFixup[InsertStep(t, x, p, g, side)]
        BY <1>5, <1>6, FixupClimbs
    <2>2. QED BY <1>8, <2>1 DEF InsertStep
<1>10. SameItems(t, u) /\ \E b : Inserting(u, U, N, pos, edge, b, g)
    BY <1>5, <1>6, <1>8, InsertUncle
<1> HIDE DEF u
<1>11. ~BalancedAs(u, InsertFixup[<<u, g>>], U, N, pos)
    BY <1>5, <1>9, <1>10 DEF BalancedAs, SameItems
<1>12. Span(edge, x) < Span(edge, p) /\ Span(edge, p) < Span(edge, g)
    <2>1. Nil \notin U
        BY <1>7, HungOnce
    <2>2. Span(edge, x) < Span(edge, p)
        BY <1>7, <2>1, SpanBelow
    <2>3. Span(edge, p) < Span(edge, g)
        BY <1>7, <2>1, SpanBelow
    <2>4. QED BY <2>2, <2>3
<1>13. /\ N - Span(edge, g) \in Nat /\ N - Span(edge, g) < k
    <2>1. /\ N \in Nat /\ Span(edge, x) \in Nat /\ Span(edge, p) \in Nat /\ Span(edge, g) \in Nat
          /\ Span(edge, g) <= N
        BY <1>7, SpanBelow
    <2>2. QED BY <1>5, <1>12, <2>1
<1>14. N - Span(edge, g) \in T
    BY <1>10, <1>11, <1>13
<1>15. QED BY <1>4, <1>13, <1>14

\* A loop that gets nearer to an end stays where it should and ends there.
LEMMA LoopEnds ==
    ASSUME NEW F, NEW D, NEW Ends, NEW Result, NEW Next1, Computes(F, D, Ends, Result, Next1),
           NEW G, G \subseteq D, NEW w, \A u \in G : w[u] \in Nat,
           \A u \in G : u \notin Ends => Next1[u] \in G /\ w[Next1[u]] < w[u],
           NEW u0 \in G
    PROVE  \E z \in G : z \in Ends /\ F[u0] = Result[z]
<1> DEFINE Fine(u) == \E z \in G : z \in Ends /\ F[u] = Result[z]
           T == {k \in Nat : \E u \in G : w[u] = k /\ ~Fine(u)}
<1>1. SUFFICES ASSUME ~Fine(u0) PROVE FALSE
    OBVIOUS
<1>2. w[u0] \in T
    BY <1>1
<1>3. PICK k \in T : \A j \in T : k <= j
    BY <1>2, LeastOf
<1>4. PICK u \in G : w[u] = k /\ ~Fine(u)
    BY <1>3
<1>5. F[u] = IF u \in Ends THEN Result[u] ELSE F[Next1[u]]
    BY <1>4 DEF Computes
<1>6. u \notin Ends
    BY <1>4, <1>5
<1>7. Next1[u] \in G /\ w[Next1[u]] < w[u] /\ w[Next1[u]] \in Nat /\ ~Fine(Next1[u])
    BY <1>4, <1>5, <1>6
<1>8. w[Next1[u]] \in T
    BY <1>7
<1>9. QED BY <1>3, <1>4, <1>7, <1>8

\* Keys never fall from one place to the next.
Sorted(t, U, pos) == \A m, n \in U : pos[m] < pos[n] => t.key[m] <= t.key[n]

\* The side of n on which the key is looked for by InsertImpl.
KeySide(t, n, key) == IF key <= t.key[n] THEN Left ELSE Right

LEMMA LeafForIs ==
    ASSUME NEW t \in Tree, NEW key
    PROVE  \E F : /\ Computes(F, Links, {n \in Links : t.kid[n][KeySide(t, n, key)] = Nil}, [n \in Links |-> n],
                              [n \in Links |-> t.kid[n][KeySide(t, n, key)]])
                  /\ LeafFor(t, key) = IF t.root = Nil THEN Nil ELSE F[t.root]
<1> DEFINE Ends == {n \in Links : t.kid[n][KeySide(t, n, key)] = Nil}
           Result == [n \in Links |-> n]
           Next1 == [n \in Links |-> t.kid[n][KeySide(t, n, key)]]
           Loop(F) == [n \in Links |-> LET next == t.kid[n][IF key <= t.key[n] THEN Left ELSE Right]
                                       IN  IF next = Nil THEN n ELSE F[next]]
           Body(F) == [n \in Links |-> IF n \in Ends THEN Result[n] ELSE F[Next1[n]]]
<1>1. \A n \in Links : n \in Ends \/ Next1[n] \in Links
    BY TreeFields, SidesAre DEF KeySide
<1>2. \A F : Loop(F) = Body(F)
    BY DEF KeySide
<1>3. \E F : F = Body(F)
    <2> HIDE DEF Ends, Result, Next1
    <2>1. Computable(Links, Ends, Result, Next1)
        BY <1>1, TailRecursion
    <2>2. PICK F : Computes(F, Links, Ends, Result, Next1)
        BY <2>1 DEF Computable
    <2>3. F = Body(F)
        BY <2>2 DEF Computes
    <2>4. QED BY <2>3
<1>4. \E F : F = Loop(F)
    <2> HIDE DEF Loop, Body
    <2>1. QED BY <1>2, <1>3
<1> DEFINE F == CHOOSE F : F = Loop(F)
<1>5. F = Loop(F)
    <2> HIDE DEF Loop
    <2>1. QED BY <1>4
<1>6. F = Body(F)
    <2> HIDE DEF Loop, Body, F
    <2>1. QED BY <1>2, <1>5
<1>7. LeafFor(t, key) = IF t.root = Nil THEN Nil ELSE F[t.root]
    BY DEF LeafFor
<1>8. Computes(F, Links, Ends, Result, Next1)
    <2> HIDE DEF F, Ends, Result, Next1
    <2>1. QED BY <1>6 DEF Computes
<1>9. QED BY ZenonT(30), <1>7, <1>8

\* The numbers of the nodes, one by one.
LEMMA Numbers ==
    ASSUME NEW t, NEW U, NEW N, NEW pos, NEW edge, InOrder(t, U, N, pos, edge)
    PROVE  \A n \in U : /\ pos[n] \in Int /\ edge[n][Left] \in Int /\ edge[n][Right] \in Int
                        /\ edge[n][Left] <= pos[n] /\ pos[n] <= edge[n][Right]
                        /\ 1 <= edge[n][Left] /\ edge[n][Right] <= N
<1>1. Placed(U, N, pos, edge)
    BY DEF InOrder
<1>2. \A m \in U : edge[m][Left] <= pos[m] /\ pos[m] <= edge[m][Right]
    BY <1>1 DEF Placed
<1>3. QED BY <1>1, <1>2, PlacedNumbers, SidesAre

LEMMA OnePlace ==
    ASSUME NEW t, NEW U, NEW N, NEW pos, NEW edge, InOrder(t, U, N, pos, edge)
    PROVE  \A m, n \in U : pos[m] = pos[n] => m = n
BY DEF InOrder, Placed

\* A node to one side of which nothing hangs.
LEMMA BareSide ==
    ASSUME NEW t, NEW U, NEW N, NEW pos, NEW edge, InOrder(t, U, N, pos, edge),
           NEW n \in U, NEW s \in Sides, t.kid[n][s] = Nil
    PROVE  edge[n][s] = pos[n]
<1>1. Hangs(t, U, pos, edge, n, s) /\ Nil \notin U
    BY HungOnce DEF InOrder
<1>2. QED BY <1>1 DEF Hangs

\* InsertImpl finds the leaf between the smaller keys and the others.
LEMMA LeafForPlace ==
    ASSUME NEW t, NEW U, NEW N, NEW pos, NEW edge, InOrder(t, U, N, pos, edge), Sorted(t, U, pos),
           U # {}, NEW key \in Nat, NEW a, a = LeafFor(t, key), NEW s, s = KeySide(t, a, key)
    PROVE  /\ a \in U /\ s \in Sides /\ t.kid[a][s] = Nil
           /\ \A m \in U : pos[m] < pos[a] \/ (m = a /\ s = Right) => t.key[m] < key
           /\ \A m \in U : pos[m] > pos[a] \/ (m = a /\ s = Left) => key <= t.key[m]
<1> DEFINE Ends == {n \in Links : t.kid[n][KeySide(t, n, key)] = Nil}
           Result == [n \in Links |-> n]
           Next1 == [n \in Links |-> t.kid[n][KeySide(t, n, key)]]
           G == {n \in U : /\ \A m \in U : pos[m] < edge[n][Left] => t.key[m] < key
                           /\ \A m \in U : pos[m] > edge[n][Right] => key <= t.key[m]}
           w == [n \in U |-> Span(edge, n)]
<1>1. t \in Tree /\ U \subseteq Links /\ Nil \notin U
    BY HungOnce
<1>2. PICK F : /\ Computes(F, Links, Ends, Result, Next1)
               /\ LeafFor(t, key) = IF t.root = Nil THEN Nil ELSE F[t.root]
    BY <1>1, LeafForIs
<1>3. t.root \in U
    BY ParentFacts
<1>4. \A n \in U : /\ pos[n] \in Int /\ edge[n][Left] \in Int /\ edge[n][Right] \in Int
                   /\ edge[n][Left] <= pos[n] /\ pos[n] <= edge[n][Right]
                   /\ 1 <= edge[n][Left] /\ edge[n][Right] <= N
    BY Numbers
<1>5. \A n \in U : t.key[n] \in Nat
    BY <1>1, TreeFields
<1>6. \A n \in Links : KeySide(t, n, key) \in Sides
    BY SidesAre DEF KeySide
<1>7. t.root \in G
    <2>1. edge[t.root][Left] = 1 /\ edge[t.root][Right] = N
        BY DEF InOrder, RootSpans
    <2>2. \A m \in U : 1 <= pos[m] /\ pos[m] <= N
        BY PlacedNumbers DEF InOrder
    <2>3. N \in Nat
        BY DEF InOrder, Placed
    <2>4. QED BY <1>3, <1>4, <2>1, <2>2, <2>3
<1>8. ASSUME NEW n \in G, n \notin Ends
      PROVE  Next1[n] \in G /\ w[Next1[n]] < w[n]
    <2> DEFINE r == KeySide(t, n, key)
               m == t.kid[n][r]
    <2>1. n \in U /\ n \in Links /\ r \in Sides /\ m # Nil /\ Next1[n] = m
        BY <1>1, <1>6, <1>8
    <2>2. m \in U /\ edge[m][r] = edge[n][r] /\ edge[m][Opposite(r)] = Beyond(pos[n], r)
        BY <2>1, KidFacts
    <2>3. \A i, j \in U : pos[i] = pos[j] => i = j
        BY OnePlace
    <2>4. \A i, j \in U : pos[i] < pos[j] => t.key[i] <= t.key[j]
        BY DEF Sorted
    <2>5. ASSUME r = Left PROVE m \in G
        <3>1. key <= t.key[n]
            BY <1>5, <2>1, <2>5, SidesAre DEF KeySide
        <3>2. edge[m][Left] = edge[n][Left] /\ edge[m][Right] = pos[n] - 1
            BY <2>2, <2>5, SidesAre DEF Beyond
        <3>3. ASSUME NEW i \in U, pos[i] > edge[m][Right] PROVE key <= t.key[i]
            <4>1. pos[i] >= pos[n]
                BY <1>4, <2>1, <3>2, <3>3
            <4>2. i = n \/ pos[n] < pos[i]
                BY <1>4, <2>1, <2>3, <4>1
            <4>3. t.key[n] <= t.key[i]
                BY <1>5, <2>1, <2>4, <4>2
            <4>4. t.key[i] \in Nat /\ t.key[n] \in Nat
                BY <1>5, <2>1
            <4>5. QED BY ONLY key \in Nat, <3>1, <4>3, <4>4
        <3>4. QED BY <2>2, <3>2, <3>3
    <2>6. ASSUME r = Right PROVE m \in G
        <3>1. t.key[n] < key
            BY <1>5, <2>1, <2>6, SidesAre DEF KeySide
        <3>2. edge[m][Right] = edge[n][Right] /\ edge[m][Left] = pos[n] + 1
            BY <2>2, <2>6, SidesAre DEF Beyond
        <3>3. ASSUME NEW i \in U, pos[i] < edge[m][Left] PROVE t.key[i] < key
            <4>1. pos[i] <= pos[n]
                BY <1>4, <2>1, <3>2, <3>3
            <4>2. i = n \/ pos[i] < pos[n]
                BY <1>4, <2>1, <2>3, <4>1
            <4>3. t.key[i] <= t.key[n]
                BY <1>5, <2>1, <2>4, <4>2
            <4>4. t.key[i] \in Nat /\ t.key[n] \in Nat
                BY <1>5, <2>1
            <4>5. QED BY ONLY key \in Nat, <3>1, <4>3, <4>4
        <3>4. QED BY <2>2, <3>2, <3>3
    <2>7. m \in G
        BY <2>1, <2>5, <2>6, SidesAre
    <2>8. w[m] < w[n]
        BY <2>1, <2>2, SpanBelow
    <2>9. QED BY <2>1, <2>7, <2>8
<1>9. \A n \in G : w[n] \in Nat
    BY SpanBelow
<1>10. G \subseteq Links
    BY <1>1
<1>11. PICK z \in G : z \in Ends /\ F[t.root] = Result[z]
    <2> HIDE DEF G, w, Ends, Result, Next1
    <2>1. QED BY <1>2, <1>7, <1>8, <1>9, <1>10, LoopEnds
<1>12. a = z /\ z \in U /\ z \in Links
    BY <1>1, <1>2, <1>3, <1>11
<1>13. s \in Sides /\ t.kid[a][s] = Nil
    BY <1>6, <1>11, <1>12
<1>14. edge[a][s] = pos[a]
    BY <1>12, <1>13, BareSide
<1>15. ASSUME NEW m \in U, pos[m] < pos[a] \/ (m = a /\ s = Right) PROVE t.key[m] < key
    <2>1. CASE s = Left
        <3>1. pos[m] < edge[a][Left]
            BY <1>14, <1>15, <2>1, SidesAre
        <3>2. QED BY <1>11, <1>12, <3>1
    <2>2. CASE s = Right
        <3>1. t.key[a] < key
            BY <1>5, <1>12, <2>2, SidesAre DEF KeySide
        <3>2. t.key[m] <= t.key[a]
            BY <1>5, <1>12, <1>15 DEF Sorted
        <3>3. QED BY <1>5, <1>12, <3>1, <3>2
    <2>3. QED BY <1>13, <2>1, <2>2, SidesAre
<1>16. ASSUME NEW m \in U, pos[m] > pos[a] \/ (m = a /\ s = Left) PROVE key <= t.key[m]
    <2>1. CASE s = Right
        <3>1. pos[m] > edge[a][Right]
            BY <1>14, <1>16, <2>1, SidesAre
        <3>2. QED BY <1>11, <1>12, <3>1
    <2>2. CASE s = Left
        <3>1. key <= t.key[a]
            BY <1>5, <1>12, <2>2, SidesAre DEF KeySide
        <3>2. t.key[a] <= t.key[m]
            <4>1. m = a \/ pos[a] < pos[m]
                BY <1>4, <1>12, <1>16
            <4>2. QED BY <1>5, <1>12, <4>1 DEF Sorted
        <3>3. QED BY <1>5, <1>12, <3>1, <3>2
    <2>3. QED BY <1>13, <2>1, <2>2, SidesAre
<1>17. QED BY <1>12, <1>13, <1>15, <1>16

\* u is t with the leaf n hung below a on that side.
LeafHung(t, a, s, n, u) ==
    /\ u \in Tree /\ u.root = t.root
    /\ u.used = t.used \cup {n} /\ u.red = t.red \cup {n}
    /\ u.kid[n][Left] = Nil /\ u.kid[n][Right] = Nil /\ u.parent[n] = a /\ u.kid[a][s] = n
    /\ \A m \in Links : m # n => u.parent[m] = t.parent[m] /\ u.key[m] = t.key[m] /\ u.value[m] = t.value[m]
    /\ \A m \in Links, r \in Sides : m # n /\ (m # a \/ r # s) => u.kid[m][r] = t.kid[m][r]

\* The nodes from a on, on that side of the leaf, move on by one place.
PosHung(U, pos, a, s, n) ==
    [m \in U \cup {n} |->
        IF m = n THEN (IF s = Left THEN pos[a] ELSE pos[a] + 1)
        ELSE IF pos[m] > pos[a] \/ (m = a /\ s = Left) THEN pos[m] + 1 ELSE pos[m]]

EdgeHung(U, pos, edge, a, s, n) ==
    [m \in U \cup {n} |-> [r \in Sides |->
        IF m = n THEN (IF s = Left THEN pos[a] ELSE pos[a] + 1)
        ELSE IF r = Left THEN (IF edge[m][Left] > pos[a] THEN edge[m][Left] + 1 ELSE edge[m][Left])
        ELSE IF edge[m][Right] >= pos[a] THEN edge[m][Right] + 1 ELSE edge[m][Right]]]

LEMMA LeafPlaced ==
    ASSUME NEW t, NEW U, NEW N, NEW pos, NEW edge, InOrder(t, U, N, pos, edge),
           NEW a \in U, NEW s \in Sides, NEW n \in Node, n \notin U
    PROVE  /\ Placed(U \cup {n}, N + 1, PosHung(U, pos, a, s, n), EdgeHung(U, pos, edge, a, s, n))
<1> DEFINE p == PosHung(U, pos, a, s, n)
           e == EdgeHung(U, pos, edge, a, s, n)
           V == U \cup {n}
           q == IF s = Left THEN pos[a] ELSE pos[a] + 1
<1>1. \A m \in U : /\ pos[m] \in Int /\ edge[m][Left] \in Int /\ edge[m][Right] \in Int
                   /\ edge[m][Left] <= pos[m] /\ pos[m] <= edge[m][Right]
                   /\ 1 <= edge[m][Left] /\ edge[m][Right] <= N
    BY Numbers
<1>2. \A i, j \in U : pos[i] = pos[j] => i = j
    BY OnePlace
<1>3. /\ N \in Nat /\ U \in SUBSET Node /\ (\A i \in 1..N : \E m \in U : pos[m] = i)
    BY DEF InOrder, Placed
<1>4. p[n] = q /\ \A m \in U : p[m] = IF pos[m] > pos[a] \/ (m = a /\ s = Left) THEN pos[m] + 1 ELSE pos[m]
    BY DEF PosHung
<1>5. /\ \A r \in Sides : e[n][r] = q
      /\ \A m \in U : /\ e[m][Left] = IF edge[m][Left] > pos[a] THEN edge[m][Left] + 1 ELSE edge[m][Left]
                      /\ e[m][Right] = IF edge[m][Right] >= pos[a] THEN edge[m][Right] + 1 ELSE edge[m][Right]
    BY SidesAre DEF EdgeHung
<1>6. DOMAIN p = V /\ p = [m \in V |-> p[m]] /\ e = [m \in V |-> [r \in Sides |-> e[m][r]]]
    BY DEF PosHung, EdgeHung
<1> HIDE DEF p, e
<1>7. q \in 1..(N + 1) /\ pos[a] \in Int /\ 1 <= pos[a] /\ pos[a] <= N
    BY <1>1, <1>3
<1>8. \A m \in U : /\ p[m] \in 1..(N + 1) /\ e[m][Left] \in 1..(N + 1) /\ e[m][Right] \in 1..(N + 1)
                   /\ e[m][Left] <= p[m] /\ p[m] <= e[m][Right]
    <2>1. TAKE m \in U
    <2>2. /\ pos[m] \in Int /\ edge[m][Left] \in Int /\ edge[m][Right] \in Int
          /\ edge[m][Left] <= pos[m] /\ pos[m] <= edge[m][Right]
          /\ 1 <= edge[m][Left] /\ edge[m][Right] <= N
        BY <1>1
    <2>3. /\ p[m] = IF pos[m] > pos[a] \/ (m = a /\ s = Left) THEN pos[m] + 1 ELSE pos[m]
          /\ e[m][Left] = IF edge[m][Left] > pos[a] THEN edge[m][Left] + 1 ELSE edge[m][Left]
          /\ e[m][Right] = IF edge[m][Right] >= pos[a] THEN edge[m][Right] + 1 ELSE edge[m][Right]
        BY <1>4, <1>5
    <2>4. QED BY <1>3, <1>7, <2>2, <2>3
<1>9. p \in [V -> 1..(N + 1)]
    BY <1>4, <1>6, <1>7, <1>8
<1>10. e \in [V -> [Sides -> 1..(N + 1)]]
    <2>1. \A m \in V, r \in Sides : e[m][r] \in 1..(N + 1)
        BY <1>5, <1>7, <1>8, SidesAre
    <2>2. QED BY <1>6, <2>1
<1>11. \A m \in V : e[m][Left] <= p[m] /\ p[m] <= e[m][Right]
    BY <1>4, <1>5, <1>7, <1>8, SidesAre
<1>12. \A i, j \in V : p[i] = p[j] => i = j
    <2>1. \A j \in U : p[j] # q
        <3>1. TAKE j \in U
        <3>2. pos[j] \in Int /\ (pos[j] = pos[a] => j = a)
            BY <1>1, <1>2
        <3>3. p[j] = IF pos[j] > pos[a] \/ (j = a /\ s = Left) THEN pos[j] + 1 ELSE pos[j]
            BY <1>4
        <3>4. QED BY <1>7, <3>2, <3>3
    <2>2. \A i, j \in U : p[i] = p[j] => i = j
        <3>1. TAKE i, j \in U
        <3>2. pos[i] \in Int /\ pos[j] \in Int /\ (pos[i] = pos[j] => i = j)
              /\ (pos[i] = pos[a] => i = a) /\ (pos[j] = pos[a] => j = a)
            BY <1>1, <1>2
        <3>3. /\ p[i] = IF pos[i] > pos[a] \/ (i = a /\ s = Left) THEN pos[i] + 1 ELSE pos[i]
              /\ p[j] = IF pos[j] > pos[a] \/ (j = a /\ s = Left) THEN pos[j] + 1 ELSE pos[j]
            BY <1>4
        <3>4. QED BY <1>7, <3>2, <3>3
    <2>3. QED BY <1>4, <2>1, <2>2
<1>13. \A i \in 1..(N + 1) : \E m \in V : p[m] = i
    <2>1. TAKE i \in 1..(N + 1)
    <2>2. CASE i = q
        BY <1>4, <2>2
    <2>3. CASE i < q
        <3>1. i \in 1..N
            BY <1>3, <1>7, <2>3
        <3>2. PICK m \in U : pos[m] = i
            BY <1>3, <3>1
        <3>3. p[m] = i
            <4>1. p[m] = IF pos[m] > pos[a] \/ (m = a /\ s = Left) THEN pos[m] + 1 ELSE pos[m]
                BY <1>4
            <4>2. QED BY <1>7, <2>3, <3>2, <4>1
        <3>4. QED BY <3>3
    <2>4. CASE i > q
        <3>1. i - 1 \in 1..N
            BY <1>3, <1>7, <2>4
        <3>2. PICK m \in U : pos[m] = i - 1
            BY <1>3, <3>1
        <3>3. p[m] = i
            <4>1. p[m] = IF pos[m] > pos[a] \/ (m = a /\ s = Left) THEN pos[m] + 1 ELSE pos[m]
                BY <1>4
            <4>2. pos[m] = pos[a] => m = a
                BY <1>2
            <4>3. QED BY <1>7, <2>4, <3>2, <4>1, <4>2
        <3>4. QED BY <3>3
    <2>5. QED BY <1>7, <2>2, <2>3, <2>4
<1>14. V \in SUBSET Node /\ N + 1 \in Nat
    BY <1>3
<1>15. Placed(V, N + 1, p, e)
    BY ONLY <1>9, <1>10, <1>11, <1>12, <1>13, <1>14 DEF Placed
<1>16. QED BY <1>15 DEF p, e

LEMMA LeafInOrder ==
    ASSUME NEW t, NEW U, NEW N, NEW pos, NEW edge, InOrder(t, U, N, pos, edge),
           NEW a \in U, NEW s \in Sides, t.kid[a][s] = Nil, NEW n \in Node, n \notin U,
           NEW u, LeafHung(t, a, s, n, u)
    PROVE  InOrder(u, U \cup {n}, N + 1, PosHung(U, pos, a, s, n), EdgeHung(U, pos, edge, a, s, n))
<1> DEFINE p == PosHung(U, pos, a, s, n)
           e == EdgeHung(U, pos, edge, a, s, n)
           V == U \cup {n}
           q == IF s = Left THEN pos[a] ELSE pos[a] + 1
<1>1. \A m \in U : /\ pos[m] \in Int /\ edge[m][Left] \in Int /\ edge[m][Right] \in Int
                   /\ edge[m][Left] <= pos[m] /\ pos[m] <= edge[m][Right]
                   /\ 1 <= edge[m][Left] /\ edge[m][Right] <= N
    BY Numbers
<1>2. \A i, j \in U : pos[i] = pos[j] => i = j
    BY OnePlace
<1>3. p[n] = q /\ \A m \in U : p[m] = IF pos[m] > pos[a] \/ (m = a /\ s = Left) THEN pos[m] + 1 ELSE pos[m]
    BY DEF PosHung
<1>4. /\ \A r \in Sides : e[n][r] = q
      /\ \A m \in U : /\ e[m][Left] = IF edge[m][Left] > pos[a] THEN edge[m][Left] + 1 ELSE edge[m][Left]
                      /\ e[m][Right] = IF edge[m][Right] >= pos[a] THEN edge[m][Right] + 1 ELSE edge[m][Right]
    BY SidesAre DEF EdgeHung
<1>5. Placed(V, N + 1, p, e)
    BY LeafPlaced
<1> HIDE DEF p, e
<1>6. /\ u \in Tree /\ u.root = t.root
      /\ u.kid[n][Left] = Nil /\ u.kid[n][Right] = Nil /\ u.parent[n] = a /\ u.kid[a][s] = n
    BY DEF LeafHung
<1>7. \A m \in U : u.parent[m] = t.parent[m]
    BY HungOnce DEF LeafHung
<1>8. \A m \in Links, r \in Sides : m # n /\ (m # a \/ r # s) => u.kid[m][r] = t.kid[m][r]
    BY DEF LeafHung
<1>9. Nil \notin U /\ U \subseteq Links /\ Nil \in Links /\ t \in Tree /\ n # Nil /\ a # n /\ N \in Nat
    <2>1. Nil \notin U /\ U \subseteq Links /\ Nil \in Links /\ t \in Tree
        BY HungOnce
    <2>2. n # Nil
        BY DEF Node, Nil
    <2>3. N \in Nat
        BY DEF InOrder, Placed
    <2>4. QED BY <2>1, <2>2, <2>3
<1>10. edge[a][s] = pos[a]
    BY BareSide
<1>11. /\ \A b \in U, r \in Sides : t.kid[b][r] \in U \cup {Nil}
    BY HungOnce
<1>12. ASSUME NEW m \in U, NEW r \in Sides, m # a \/ r # s PROVE Hangs(u, V, p, e, m, r)
    <2> DEFINE k == t.kid[m][r]
    <2>1. u.kid[m][r] = k
        BY <1>8, <1>9, <1>12
    <2>2. /\ pos[m] \in Int /\ edge[m][Left] \in Int /\ edge[m][Right] \in Int /\ pos[a] \in Int
          /\ (pos[m] = pos[a] => m = a)
        BY <1>1, <1>2
    <2>3. /\ p[m] = IF pos[m] > pos[a] \/ (m = a /\ s = Left) THEN pos[m] + 1 ELSE pos[m]
          /\ e[m][Left] = IF edge[m][Left] > pos[a] THEN edge[m][Left] + 1 ELSE edge[m][Left]
          /\ e[m][Right] = IF edge[m][Right] >= pos[a] THEN edge[m][Right] + 1 ELSE edge[m][Right]
        BY <1>3, <1>4
    <2>4. CASE k = Nil
        <3>1. edge[m][r] = pos[m]
            BY <2>4, BareSide
        <3>2. e[m][r] = p[m]
            <4>1. CASE r = Left
                BY <1>12, <2>2, <2>3, <3>1, <4>1, SidesAre
            <4>2. CASE r = Right
                BY <1>12, <2>2, <2>3, <3>1, <4>2, SidesAre
            <4>3. QED BY <4>1, <4>2, SidesAre
        <3>3. QED BY <2>1, <2>4, <3>2 DEF Hangs
    <2>5. CASE k # Nil
        <3>1. k \in U /\ t.parent[k] = m /\ edge[k][r] = edge[m][r] /\ edge[k][Opposite(r)] = Beyond(pos[m], r)
            BY <2>5, KidFacts
        <3>2. /\ e[k][Left] = IF edge[k][Left] > pos[a] THEN edge[k][Left] + 1 ELSE edge[k][Left]
              /\ e[k][Right] = IF edge[k][Right] >= pos[a] THEN edge[k][Right] + 1 ELSE edge[k][Right]
              /\ edge[k][Left] \in Int /\ edge[k][Right] \in Int
            BY <1>1, <1>4, <3>1
        <3>3. e[k][r] = e[m][r] /\ e[k][Opposite(r)] = Beyond(p[m], r)
            <4>1. CASE r = Left
                <5>1. edge[k][Right] = pos[m] - 1 /\ edge[k][Left] = edge[m][Left]
                    BY <3>1, <4>1, SidesAre DEF Beyond
                <5>2. e[k][Right] = p[m] - 1 /\ e[k][Left] = e[m][Left]
                    BY <1>12, <2>2, <2>3, <3>2, <4>1, <5>1
                <5>3. QED BY <4>1, <5>2, SidesAre DEF Beyond
            <4>2. CASE r = Right
                <5>1. edge[k][Left] = pos[m] + 1 /\ edge[k][Right] = edge[m][Right]
                    BY <3>1, <4>2, SidesAre DEF Beyond
                <5>2. e[k][Left] = p[m] + 1 /\ e[k][Right] = e[m][Right]
                    BY <1>12, <2>2, <2>3, <3>2, <4>2, <5>1, SidesAre
                <5>3. QED BY <4>2, <5>2, SidesAre DEF Beyond
            <4>3. QED BY <4>1, <4>2, SidesAre
        <3>4. QED BY <1>7, <2>1, <3>1, <3>3 DEF Hangs
    <2>6. QED BY <2>4, <2>5
<1>13. Hangs(u, V, p, e, a, s)
    <2>1. pos[a] \in Int /\ edge[a][Left] \in Int /\ edge[a][Right] \in Int
        BY <1>1
    <2>2. /\ p[a] = IF pos[a] > pos[a] \/ (a = a /\ s = Left) THEN pos[a] + 1 ELSE pos[a]
          /\ e[a][Left] = IF edge[a][Left] > pos[a] THEN edge[a][Left] + 1 ELSE edge[a][Left]
          /\ e[a][Right] = IF edge[a][Right] >= pos[a] THEN edge[a][Right] + 1 ELSE edge[a][Right]
          /\ e[n][Left] = q /\ e[n][Right] = q
        BY <1>3, <1>4, SidesAre
    <2>3. e[n][s] = e[a][s] /\ e[n][Opposite(s)] = Beyond(p[a], s)
        <3>1. CASE s = Left
            BY <1>10, <2>1, <2>2, <3>1, SidesAre DEF Beyond
        <3>2. CASE s = Right
            BY <1>10, <2>1, <2>2, <3>2, SidesAre DEF Beyond
        <3>3. QED BY <3>1, <3>2, SidesAre
    <2>4. QED BY <1>6, <2>3 DEF Hangs
<1>14. \A r \in Sides : Hangs(u, V, p, e, n, r)
    BY <1>3, <1>4, <1>6, SidesAre DEF Hangs
<1>15. \A m \in V, r \in Sides : Hangs(u, V, p, e, m, r)
    BY <1>12, <1>13, <1>14
<1>16. RootSpans(u, V, N + 1, e)
    <2>1. t.root \in U /\ t.parent[t.root] = Nil /\ edge[t.root][Left] = 1 /\ edge[t.root][Right] = N
        BY DEF InOrder, RootSpans
    <2>2. 1 <= pos[a] /\ pos[a] <= N /\ pos[a] \in Int
        BY PlacedNumbers DEF InOrder
    <2>3. e[t.root][Left] = 1 /\ e[t.root][Right] = N + 1
        BY <1>4, <1>9, <2>1, <2>2
    <2>4. QED BY <1>6, <1>7, <2>1, <2>3 DEF RootSpans
<1>17. ASSUME NEW m \in V, m # u.root PROVE u.parent[m] \in V /\ u.kid[u.parent[m]][SideOf(u, m)] = m
    \* Whoever hangs below a node is found from there.
    <2>1. \A b \in V, r \in Sides : u.kid[b][r] = m /\ u.parent[m] = b => u.kid[u.parent[m]][SideOf(u, m)] = m
        BY SidesAre DEF SideOf
    <2>2. CASE m = n
        BY <1>6, <2>1, <2>2
    <2>3. CASE m # n
        <3>1. m \in U /\ m # t.root /\ u.parent[m] = t.parent[m]
            BY <1>6, <1>7, <1>17, <2>3
        <3>2. t.parent[m] \in U /\ SideOf(t, m) \in Sides /\ t.kid[t.parent[m]][SideOf(t, m)] = m
            BY <3>1, ParentFacts
        <3>3. PICK b \in U, r \in Sides : b = t.parent[m] /\ t.kid[b][r] = m
            BY <3>2
        <3>4. b # n /\ b \in Links /\ (b # a \/ r # s)
            BY <1>9, <3>1, <3>3
        <3>5. u.kid[b][r] = m
            BY <1>8, <3>3, <3>4
        <3>6. QED BY <2>1, <3>1, <3>3, <3>5
    <2>4. QED BY <2>2, <2>3
<1>18. u.kid[Nil][Left] = Nil
    <2>1. t.kid[Nil][Left] = Nil
        BY DEF InOrder
    <2>2. Nil # a
        BY <1>9
    <2>3. QED BY <1>8, <1>9, <2>1, <2>2, SidesAre
<1>19. InOrder(u, V, N + 1, p, e)
    BY ONLY <1>5, <1>6, <1>15, <1>16, <1>17, <1>18 DEF InOrder
<1>20. QED BY <1>19 DEF p, e

LEMMA LeafSorted ==
    ASSUME NEW t, NEW U, NEW N, NEW pos, NEW edge, InOrder(t, U, N, pos, edge), Sorted(t, U, pos),
           NEW a \in U, NEW s \in Sides, NEW n \in Node, n \notin U,
           NEW u, LeafHung(t, a, s, n, u), u.key[n] \in Nat,
           \A m \in U : pos[m] < pos[a] \/ (m = a /\ s = Right) => t.key[m] < u.key[n],
           \A m \in U : pos[m] > pos[a] \/ (m = a /\ s = Left) => u.key[n] <= t.key[m]
    PROVE  Sorted(u, U \cup {n}, PosHung(U, pos, a, s, n))
<1> DEFINE p == PosHung(U, pos, a, s, n)
           V == U \cup {n}
           q == IF s = Left THEN pos[a] ELSE pos[a] + 1
<1>1. \A m \in U : pos[m] \in Int /\ (pos[m] = pos[a] => m = a)
    BY Numbers, OnePlace
<1>2. p[n] = q /\ \A m \in U : p[m] = IF pos[m] > pos[a] \/ (m = a /\ s = Left) THEN pos[m] + 1 ELSE pos[m]
    BY DEF PosHung
<1>3. U \subseteq Links /\ t \in Tree
    BY HungOnce
<1>4. \A m \in U : u.key[m] = t.key[m] /\ t.key[m] \in Nat
    <2>1. \A m \in U : t.key[m] \in Nat
        BY <1>3, TreeFields
    <2>2. QED BY <1>3, <2>1 DEF LeafHung
<1> HIDE DEF p
<1>5. ASSUME NEW m \in U, p[m] < q PROVE t.key[m] < u.key[n]
    <2>1. p[m] = IF pos[m] > pos[a] \/ (m = a /\ s = Left) THEN pos[m] + 1 ELSE pos[m]
        BY <1>2
    <2>2. pos[m] < pos[a] \/ (m = a /\ s = Right)
        <3>1. pos[m] \in Int /\ pos[a] \in Int /\ (pos[m] = pos[a] => m = a)
            BY <1>1
        <3>2. s = Left \/ s = Right
            BY SidesAre
        <3>3. QED BY <1>5, <2>1, <3>1, <3>2
    <2>3. QED BY <2>2
<1>6. ASSUME NEW m \in U, p[m] > q PROVE u.key[n] <= t.key[m]
    <2>1. p[m] = IF pos[m] > pos[a] \/ (m = a /\ s = Left) THEN pos[m] + 1 ELSE pos[m]
        BY <1>2
    <2>2. pos[m] > pos[a] \/ (m = a /\ s = Left)
        <3>1. pos[m] \in Int /\ pos[a] \in Int /\ (pos[m] = pos[a] => m = a)
            BY <1>1
        <3>2. s = Left \/ s = Right
            BY SidesAre
        <3>3. QED BY <1>6, <2>1, <3>1, <3>2
    <2>3. QED BY <2>2
<1>7. ASSUME NEW i \in U, NEW j \in U, p[i] < p[j] PROVE t.key[i] <= t.key[j]
    <2>1. pos[i] < pos[j]
        <3>1. pos[i] \in Int /\ pos[j] \in Int /\ pos[a] \in Int /\ (pos[i] = pos[a] => i = a) /\ (pos[j] = pos[a] => j = a)
            BY <1>1
        <3>2. /\ p[i] = IF pos[i] > pos[a] \/ (i = a /\ s = Left) THEN pos[i] + 1 ELSE pos[i]
              /\ p[j] = IF pos[j] > pos[a] \/ (j = a /\ s = Left) THEN pos[j] + 1 ELSE pos[j]
            BY <1>2
        <3>3. QED BY <1>7, <3>1, <3>2
    <2>2. QED BY <2>1 DEF Sorted
<1>8. ASSUME NEW i \in V, NEW j \in V, p[i] < p[j] PROVE u.key[i] <= u.key[j]
    <2>1. CASE i \in U /\ j \in U
        BY <1>4, <1>7, <1>8, <2>1
    <2>2. CASE i \in U /\ j = n
        <3>1. t.key[i] < u.key[n]
            BY <1>2, <1>5, <1>8, <2>2
        <3>2. t.key[i] \in Nat /\ u.key[i] = t.key[i]
            BY <1>4, <2>2
        <3>3. QED BY <2>2, <3>1, <3>2
    <2>3. CASE i = n /\ j \in U
        BY <1>2, <1>4, <1>6, <1>8, <2>3
    <2>4. CASE i = n /\ j = n
        <3>1. q \in Int
            BY <1>1
        <3>2. QED BY <1>2, <1>8, <2>4, <3>1
    <2>5. QED BY <2>1, <2>2, <2>3, <2>4
<1>9. QED BY <1>8 DEF Sorted, p

\* The tree between two operations: some order of its nodes and some black
\* depths make it a red-black tree, and the keys are in that order.
WellMade(t) ==
    \E N, pos, edge, bd : Balanced(t, t.used, N, pos, edge, bd) /\ Sorted(t, t.used, pos)

\* u has the node n in addition, with that item.
ItemAdded(t, u, n, key, value) ==
    /\ u.used = t.used \cup {n} /\ u.key[n] = key /\ u.value[n] = value
    /\ \A m \in t.used : u.key[m] = t.key[m] /\ u.value[m] = t.value[m]

LEMMA SameItemsSorted ==
    ASSUME NEW t, NEW U, NEW pos, Sorted(t, U, pos), NEW u, SameItems(t, u)
    PROVE  Sorted(u, U, pos)
BY DEF Sorted, SameItems

\* InsertImpl below a node.
LEMMA InsertImplHangs ==
    ASSUME NEW t \in Tree, NEW n \in Node, NEW key \in Nat, NEW value \in Nat,
           NEW a, a = LeafFor(t, key), a \in Node, a # n, NEW s, s = KeySide(t, a, key)
    PROVE  LET u == InsertImpl(t, n, key, value)
           IN  LeafHung(t, a, s, n, u) /\ u.key[n] = key /\ u.value[n] = value
<1> DEFINE t1 == [Redden(t, n) EXCEPT
                     !.used = @ \cup {n}, !.kid[n] = <<Nil, Nil>>, !.parent[n] = a,
                     !.key[n] = key, !.value[n] = value]
           u == [t1 EXCEPT !.kid[a][s] = n]
<1>1. n \in Links /\ a \in Links /\ Nil \in Links /\ a # Nil /\ s \in Sides
    BY SidesAre DEF Links, Node, Nil, KeySide
<1>2. InsertImpl(t, n, key, value) = u
    BY <1>1 DEF InsertImpl, KeySide
<1>3. /\ t1 \in Tree /\ t1.root = t.root
      /\ t1.used = t.used \cup {n} /\ t1.red = t.red \cup {n}
      /\ t1.kid = [t.kid EXCEPT ![n] = <<Nil, Nil>>] /\ t1.parent = [t.parent EXCEPT ![n] = a]
      /\ t1.key = [t.key EXCEPT ![n] = key] /\ t1.value = [t.value EXCEPT ![n] = value]
    <2>1. /\ Redden(t, n) \in Tree /\ SameLinks(t, Redden(t, n)) /\ Redden(t, n).red = t.red \cup {n}
        BY <1>1, ColourFields
    <2> DEFINE t0 == Redden(t, n)
    <2> HIDE DEF t0
    <2>2. t0 \in Tree /\ SameLinks(t, t0) /\ t0.red = t.red \cup {n}
        BY <2>1 DEF t0
    <2>3. t1 = [t0 EXCEPT !.used = @ \cup {n}, !.kid[n] = <<Nil, Nil>>, !.parent[n] = a,
                          !.key[n] = key, !.value[n] = value]
        BY DEF t0
    <2> HIDE DEF t1
    <2>4. QED BY <1>1, <2>2, <2>3 DEF Tree, SameLinks
<1> HIDE DEF t1
<1>4. /\ t1.kid[n][Left] = Nil /\ t1.kid[n][Right] = Nil /\ t1.parent[n] = a /\ t1.key[n] = key /\ t1.value[n] = value
      /\ \A m \in Links : m # n => /\ t1.kid[m] = t.kid[m] /\ t1.parent[m] = t.parent[m]
                                   /\ t1.key[m] = t.key[m] /\ t1.value[m] = t.value[m]
    BY <1>1, <1>3 DEF Tree, Left, Right
<1>5. KidSet(t1, a, s, n, u)
    BY <1>1, <1>3, SetKid
<1> HIDE DEF u
<1>6. u \in Tree /\ SameData(t1, u) /\ u.root = t1.root /\ u.parent = t1.parent /\ u.kid[a][s] = n
    BY <1>5 DEF KidSet
<1>7. \A m \in Links, r \in Sides : m # a \/ r # s => u.kid[m][r] = t1.kid[m][r]
    BY <1>5 DEF KidSet
<1>8. u.kid[n][Left] = Nil /\ u.kid[n][Right] = Nil
    BY <1>1, <1>4, <1>7, SidesAre
<1>9. \A m \in Links, r \in Sides : m # n /\ (m # a \/ r # s) => u.kid[m][r] = t.kid[m][r]
    BY <1>4, <1>7
<1>10. LeafHung(t, a, s, n, u)
    BY <1>3, <1>4, <1>6, <1>8, <1>9 DEF LeafHung, SameData
<1>11. u.key[n] = key /\ u.value[n] = value
    BY <1>4, <1>6 DEF SameData
<1>12. QED BY <1>2, <1>10, <1>11

\* A red leaf leaves the black depths.
LEMMA LeafInserting ==
    ASSUME NEW t, NEW U, NEW N, NEW pos, NEW edge, NEW bd, Balanced(t, U, N, pos, edge, bd),
           NEW a \in U, NEW s \in Sides, t.kid[a][s] = Nil, NEW n \in Node, n \notin U,
           NEW u, LeafHung(t, a, s, n, u),
           NEW M, NEW p, NEW e, InOrder(u, U \cup {n}, M, p, e)
    PROVE  \E b : Inserting(u, U \cup {n}, M, p, e, b, n)
<1> DEFINE V == U \cup {n}
           b == [m \in V \cup {Nil} |-> IF m = n THEN 0 ELSE bd[m]]
<1>1. InOrder(t, U, N, pos, edge) /\ Levels(t, U, bd) /\ t.root \notin t.red
    BY DEF Balanced
<1>2. Nil \notin U /\ U \subseteq Links /\ n # Nil /\ a # n
    <2>1. Nil \notin U /\ U \subseteq Links
        BY <1>1, HungOnce
    <2>2. QED BY <2>1 DEF Node, Nil
<1>3. /\ u.root = t.root /\ u.red = t.red \cup {n}
      /\ u.kid[n][Left] = Nil /\ u.kid[n][Right] = Nil /\ u.kid[a][s] = n
    BY DEF LeafHung
<1>4. \A m \in U, r \in Sides : m # a \/ r # s => u.kid[m][r] = t.kid[m][r]
    BY <1>2 DEF LeafHung
<1>5. bd \in [U \cup {Nil} -> Nat] /\ bd[Nil] = 0 /\ t.red \subseteq U
    BY <1>1 DEF Levels
<1>6. \A m \in U, r \in Sides : t.kid[m][r] \in U \cup {Nil}
    BY <1>1, HungOnce
<1>7. b \in [V \cup {Nil} -> Nat] /\ b[n] = 0 /\ b[Nil] = 0 /\ \A m \in U \cup {Nil} : b[m] = bd[m]
    <2>1. \A m \in U \cup {Nil} : bd[m] \in Nat
        BY <1>5
    <2>2. b \in [V \cup {Nil} -> Nat]
        BY <2>1
    <2>3. QED BY <1>2, <1>5, <2>2
<1> HIDE DEF b
<1>8. \A m \in U : BlackOne(u, m) = BlackOne(t, m)
    BY <1>3 DEF BlackOne
<1>9. ASSUME NEW m \in V, NEW r \in Sides PROVE b[m] = b[u.kid[m][r]] + BlackOne(u, m)
    <2>1. CASE m = n
        <3>1. u.kid[m][r] = Nil
            BY <1>3, <2>1, SidesAre
        <3>2. BlackOne(u, m) = 0
            BY <1>3, <2>1 DEF BlackOne
        <3>3. QED BY <1>7, <2>1, <3>1, <3>2
    <2>2. CASE m # n
        <3>1. m \in U
            BY <2>2
        <3>2. bd[m] = bd[t.kid[m][r]] + BlackOne(t, m)
            BY <1>1, <3>1, LevelNumbers
        <3>3. b[u.kid[m][r]] = bd[t.kid[m][r]]
            <4>1. CASE m = a /\ r = s
                BY <1>3, <1>5, <1>7, <4>1
            <4>2. CASE m # a \/ r # s
                BY <1>4, <1>6, <1>7, <3>1, <4>2
            <4>3. QED BY <4>1, <4>2
        <3>4. QED BY <1>7, <1>8, <3>1, <3>2, <3>3
    <2>3. QED BY <2>1, <2>2
<1>10. Levels(u, V, b)
    BY <1>3, <1>5, <1>7, <1>9 DEF Levels
<1>11. ASSUME NEW m \in V, NEW r \in Sides, u.kid[m][r] # n PROVE RedApart(u, m, r)
    <2>1. CASE m = n
        <3>1. u.kid[m][r] = Nil
            BY <1>3, <2>1, SidesAre
        <3>2. QED BY <1>2, <1>3, <1>5, <3>1 DEF RedApart
    <2>2. CASE m # n
        <3>1. m \in U /\ u.kid[m][r] = t.kid[m][r]
            BY <1>3, <1>4, <1>11, <2>2
        <3>2. RedApart(t, m, r)
            BY <3>1 DEF Balanced
        <3>3. QED BY <1>3, <1>11, <2>2, <3>1, <3>2 DEF RedApart
    <2>3. QED BY <2>1, <2>2
<1>12. u.root \in u.red => u.root = n
    BY <1>1, <1>3
<1>13. Inserting(u, V, M, p, e, b, n)
    BY <1>3, <1>10, <1>11, <1>12 DEF Inserting
<1>14. QED BY <1>13

\* The first node of a tree.
LEMMA InsertFirst ==
    ASSUME NEW t \in Tree, t.root = Nil, t.red = {}, t.used = {}, t.kid[Nil][Left] = Nil,
           NEW n \in Node, NEW key \in Nat, NEW value \in Nat,
           NEW u, u = InsertImpl(t, n, key, value)
    PROVE  /\ ItemAdded(t, u, n, key, value)
           /\ \E N, pos, edge, b : Inserting(u, {n}, N, pos, edge, b, n) /\ Sorted(u, {n}, pos)
<1> DEFINE t1 == [Redden(t, n) EXCEPT
                     !.used = @ \cup {n}, !.kid[n] = <<Nil, Nil>>, !.parent[n] = Nil,
                     !.key[n] = key, !.value[n] = value]
           pos == [m \in {n} |-> 1]
           edge == [m \in {n} |-> [s \in Sides |-> 1]]
           bd == [m \in {n} \cup {Nil} |-> 0]
<1>1. n \in Links /\ Nil \in Links /\ n # Nil
    BY DEF Links, Node, Nil
<1>2. LeafFor(t, key) = Nil
    BY DEF LeafFor
<1>3. u = [t1 EXCEPT !.root = n]
    BY <1>2 DEF InsertImpl
<1>4. /\ t1 \in Tree
      /\ t1.used = {n} /\ t1.red = {n}
      /\ t1.kid = [t.kid EXCEPT ![n] = <<Nil, Nil>>] /\ t1.parent = [t.parent EXCEPT ![n] = Nil]
      /\ t1.key = [t.key EXCEPT ![n] = key] /\ t1.value = [t.value EXCEPT ![n] = value]
    <2>1. /\ Redden(t, n) \in Tree /\ SameLinks(t, Redden(t, n)) /\ Redden(t, n).red = t.red \cup {n}
        BY <1>1, ColourFields
    <2> DEFINE t0 == Redden(t, n)
    <2> HIDE DEF t0
    <2>2. t0 \in Tree /\ SameLinks(t, t0) /\ t0.red = t.red \cup {n}
        BY <2>1 DEF t0
    <2>3. t1 = [t0 EXCEPT !.used = @ \cup {n}, !.kid[n] = <<Nil, Nil>>, !.parent[n] = Nil,
                          !.key[n] = key, !.value[n] = value]
        BY DEF t0
    <2> HIDE DEF t1
    <2>4. QED BY ZenonT(30), <1>1, <2>2, <2>3 DEF Tree, SameLinks
<1> HIDE DEF t1
<1>5. /\ u \in Tree /\ u.root = n /\ u.used = {n} /\ u.red = {n} /\ u.kid = t1.kid /\ u.parent = t1.parent
      /\ u.key = t1.key /\ u.value = t1.value
    BY <1>1, <1>3, <1>4 DEF Tree
<1>6. u.kid[n][Left] = Nil /\ u.kid[n][Right] = Nil /\ u.parent[n] = Nil /\ u.key[n] = key /\ u.value[n] = value
    BY <1>1, <1>4, <1>5 DEF Tree, Left, Right
<1>7. u.kid[Nil][Left] = Nil
    BY <1>1, <1>4, <1>5 DEF Tree
<1>8. Placed({n}, 1, pos, edge)
    <2>1. pos \in [{n} -> 1..1] /\ edge \in [{n} -> [Sides -> 1..1]]
        OBVIOUS
    <2>2. pos[n] = 1 /\ edge[n][Left] = 1 /\ edge[n][Right] = 1
        BY SidesAre
    <2>3. \A i \in 1..1 : i = 1
        OBVIOUS
    <2> HIDE DEF pos, edge
    <2>4. QED BY <2>1, <2>2, <2>3 DEF Placed
<1>9. \A s \in Sides : Hangs(u, {n}, pos, edge, n, s)
    BY <1>6, SidesAre DEF Hangs
<1>10. RootSpans(u, {n}, 1, edge)
    BY <1>5, <1>6, SidesAre DEF RootSpans
<1> HIDE DEF pos, edge
<1>11. InOrder(u, {n}, 1, pos, edge)
    BY <1>5, <1>7, <1>8, <1>9, <1>10 DEF InOrder
<1>12. Levels(u, {n}, bd)
    <2>1. bd \in [{n} \cup {Nil} -> Nat] /\ bd[Nil] = 0 /\ bd[n] = 0
        OBVIOUS
    <2>2. BlackOne(u, n) = 0
        BY <1>5 DEF BlackOne
    <2>3. \A s \in Sides : u.kid[n][s] = Nil
        BY <1>6, SidesAre
    <2> HIDE DEF bd
    <2>4. QED BY <1>5, <2>1, <2>2, <2>3 DEF Levels
<1> HIDE DEF bd
<1>13. \A s \in Sides : RedApart(u, n, s)
    BY <1>1, <1>5, <1>6, SidesAre DEF RedApart
<1>14. Inserting(u, {n}, 1, pos, edge, bd, n)
    BY <1>5, <1>11, <1>12, <1>13 DEF Inserting
<1>15. Sorted(u, {n}, pos)
    BY DEF Sorted, pos
<1>16. ItemAdded(t, u, n, key, value)
    BY <1>5, <1>6 DEF ItemAdded
<1>17. QED BY <1>14, <1>15, <1>16

\* What a tree holds when it is empty.
LEMMA WellMadeFields ==
    ASSUME NEW t, WellMade(t)
    PROVE  /\ t \in Tree /\ t.used \subseteq Node /\ t.red \subseteq t.used /\ t.kid[Nil][Left] = Nil
           /\ t.used = {} => t.root = Nil
<1>1. PICK N, pos, edge, bd : Balanced(t, t.used, N, pos, edge, bd) /\ Sorted(t, t.used, pos)
    BY DEF WellMade
<1>2. InOrder(t, t.used, N, pos, edge) /\ Levels(t, t.used, bd)
    BY <1>1 DEF Balanced
<1>3. QED BY <1>2 DEF InOrder, Levels, RootSpans, Placed

LEMMA InsertImplInserts ==
    ASSUME NEW t, WellMade(t), NEW n \in Node, n \notin t.used, NEW key \in Nat, NEW value \in Nat,
           NEW u, u = InsertImpl(t, n, key, value)
    PROVE  /\ ItemAdded(t, u, n, key, value)
           /\ \E N, pos, edge, b : Inserting(u, t.used \cup {n}, N, pos, edge, b, n) /\ Sorted(u, t.used \cup {n}, pos)
<1>1. /\ t \in Tree /\ t.used \subseteq Node /\ t.red \subseteq t.used /\ t.kid[Nil][Left] = Nil
      /\ t.used = {} => t.root = Nil
    BY WellMadeFields
<1>2. CASE t.used = {}
    <2>1. t.used \cup {n} = {n} /\ t.red = {}
        BY <1>1, <1>2
    <2>2. QED BY <1>1, <1>2, <2>1, InsertFirst
<1>3. CASE t.used # {}
    <2> DEFINE U == t.used
               a == LeafFor(t, key)
               s == KeySide(t, a, key)
    <2>1. PICK N, pos, edge, bd : Balanced(t, U, N, pos, edge, bd) /\ Sorted(t, U, pos)
        BY DEF WellMade
    <2>2. InOrder(t, U, N, pos, edge)
        BY <2>1 DEF Balanced
    <2> HIDE DEF U
    <2>3. /\ a \in U /\ s \in Sides /\ t.kid[a][s] = Nil
          /\ \A m \in U : pos[m] < pos[a] \/ (m = a /\ s = Right) => t.key[m] < key
          /\ \A m \in U : pos[m] > pos[a] \/ (m = a /\ s = Left) => key <= t.key[m]
        BY <1>3, <2>1, <2>2, LeafForPlace DEF U
    <2>4. a \in Node /\ a # n /\ n \notin U
        BY <1>1, <2>3 DEF U
    <2>5. a = LeafFor(t, key) /\ s = KeySide(t, a, key)
        OBVIOUS
    <2> HIDE DEF a, s
    <2>6. LeafHung(t, a, s, n, u) /\ u.key[n] = key /\ u.value[n] = value
        BY <1>1, <2>4, <2>5, InsertImplHangs
    <2> DEFINE p == PosHung(U, pos, a, s, n)
               e == EdgeHung(U, pos, edge, a, s, n)
    <2>7. InOrder(u, U \cup {n}, N + 1, p, e)
        BY <2>2, <2>3, <2>4, <2>6, LeafInOrder
    <2>8. Sorted(u, U \cup {n}, p)
        BY <2>1, <2>2, <2>3, <2>4, <2>6, LeafSorted
    <2> HIDE DEF p, e
    <2>9. \E b : Inserting(u, U \cup {n}, N + 1, p, e, b, n)
        BY <2>1, <2>3, <2>4, <2>6, <2>7, LeafInserting
    <2>10. ItemAdded(t, u, n, key, value)
        <3>1. \A m \in t.used : m \in Links /\ m # n
            BY <1>1 DEF Links
        <3>2. QED BY <2>6, <3>1 DEF ItemAdded, LeafHung
    <2>11. QED BY <2>8, <2>9, <2>10 DEF U
<1>4. QED BY <1>2, <1>3

\* RBInsert keeps the tree a red-black tree in order, and only adds the item.
THEOREM RBInsertWellMade ==
    ASSUME NEW t, WellMade(t), NEW n \in Node, n \notin t.used, NEW key \in Nat, NEW value \in Nat
    PROVE  /\ WellMade(RBInsert(t, n, key, value))
           /\ ItemAdded(t, RBInsert(t, n, key, value), n, key, value)
<1> DEFINE u == InsertImpl(t, n, key, value)
           r == RBInsert(t, n, key, value)
<1>1. /\ ItemAdded(t, u, n, key, value)
      /\ \E N, pos, edge, b : Inserting(u, t.used \cup {n}, N, pos, edge, b, n) /\ Sorted(u, t.used \cup {n}, pos)
    BY InsertImplInserts
<1>2. r = InsertFixup[<<u, n>>]
    BY DEF RBInsert
<1> HIDE DEF u, r
<1>3. PICK N, pos, edge, b : Inserting(u, t.used \cup {n}, N, pos, edge, b, n) /\ Sorted(u, t.used \cup {n}, pos)
    BY <1>1
<1>4. BalancedAs(u, r, t.used \cup {n}, N, pos)
    BY <1>2, <1>3, InsertFixupBalances
<1>5. SameItems(u, r) /\ r.used = t.used \cup {n}
    BY <1>1, <1>4 DEF BalancedAs, SameItems, ItemAdded
<1>6. Sorted(r, r.used, pos)
    BY <1>3, <1>5, SameItemsSorted
<1>7. WellMade(r)
    BY <1>4, <1>5, <1>6 DEF WellMade, BalancedAs
<1>8. ItemAdded(t, r, n, key, value)
    BY <1>1, <1>5 DEF ItemAdded, SameItems
<1>9. QED BY <1>7, <1>8 DEF r

\* The black node that is missing on the paths from hp down to that side.
Gap(n, s, hp, hs) == IF n = hp /\ s = hs THEN 1 ELSE 0

\* bd are black depths with that gap.
Depths(t, U, bd, hp, hs) ==
    /\ bd \in [U \cup {Nil} -> Nat] /\ bd[Nil] = 0
    /\ \A n \in U, s \in Sides : bd[n] = bd[t.kid[n][s]] + BlackOne(t, n) + Gap(n, s, hp, hs)

\* u is t with the red node up turned above the black node n, and the colours
\* of the two exchanged.
Exchanged(t, U, n, dir, up, u) ==
    /\ \A a \in U, s \in Sides :
          u.kid[a][s] = IF a = n /\ s = Opposite(dir) THEN t.kid[up][dir]
                        ELSE IF a = up /\ s = dir THEN n
                        ELSE IF t.kid[a][s] = n THEN up ELSE t.kid[a][s]
    /\ u.root = IF t.root = n THEN up ELSE t.root
    /\ u.red = (t.red \ {up}) \cup {n} /\ u.parent[Nil] = t.parent[Nil]
    /\ SameItems(t, u)

LEMMA ExchangeIs ==
    ASSUME NEW t, NEW U, NEW N, NEW pos, NEW edge, InOrder(t, U, N, pos, edge),
           NEW n \in U, NEW dir \in Sides, NEW up, up = t.kid[n][Opposite(dir)], up # Nil,
           NEW u, u = Rotate(Redden(Blacken(t, up), n), n, dir)
    PROVE  Exchanged(t, U, n, dir, up, u) /\ InOrder(u, U, N, pos, Turned(edge, U, pos, n, up, dir))
<1> DEFINE c == Redden(Blacken(t, up), n)
<1>1. up \in U /\ U \subseteq Links /\ t \in Tree
    <2>1. Opposite(dir) \in Sides
        BY TwoSides
    <2>2. QED BY <2>1, HungBelow, HungOnce
<1>2. c \in Tree /\ SameLinks(t, c) /\ c.red = (t.red \ {up}) \cup {n}
    <2> DEFINE t1 == Blacken(t, up)
    <2>1. n \in Links /\ up \in Links
        BY <1>1
    <2>2. t1 \in Tree /\ SameLinks(t, t1) /\ t1.red = t.red \ {up}
        BY ONLY <1>1, <2>1, ColourFields
    <2> HIDE DEF t1
    <2>3. Redden(t1, n) \in Tree /\ SameLinks(t1, Redden(t1, n)) /\ Redden(t1, n).red = t1.red \cup {n}
        BY ONLY <2>1, <2>2, ColourFields
    <2>4. c = Redden(t1, n)
        BY DEF t1
    <2> HIDE DEF c
    <2>5. QED BY <2>2, <2>3, <2>4 DEF SameLinks
<1>3. u = Rotate(c, n, dir)
    OBVIOUS
<1> HIDE DEF c
<1>4. InOrder(c, U, N, pos, edge)
    BY <1>2, SameLinksSameOrder
<1>5. up = c.kid[n][Opposite(dir)] /\ c.kid = t.kid /\ c.parent = t.parent /\ c.root = t.root /\ SameItems(t, c)
    BY <1>2 DEF SameLinks, SameItems
<1>6. InOrder(u, U, N, pos, Turned(edge, U, pos, n, up, dir))
    BY <1>3, <1>4, <1>5, RotateKeepsOrder
<1>7. KidsTurned(c, U, n, dir, up, u)
    BY <1>3, <1>4, <1>5, RotateKids
<1>8. Exchanged(t, U, n, dir, up, u)
    <2>1. \A a \in U, s \in Sides :
             u.kid[a][s] = IF a = n /\ s = Opposite(dir) THEN t.kid[up][dir]
                           ELSE IF a = up /\ s = dir THEN n
                           ELSE IF t.kid[a][s] = n THEN up ELSE t.kid[a][s]
        BY ONLY <1>5, <1>7 DEF KidsTurned
    <2>2. u.root = IF t.root = n THEN up ELSE t.root
        BY ONLY <1>5, <1>7 DEF KidsTurned
    <2>3. u.red = (t.red \ {up}) \cup {n} /\ u.parent[Nil] = t.parent[Nil]
        BY ONLY <1>2, <1>5, <1>7 DEF KidsTurned, SameData
    <2>4. SameItems(t, u)
        BY ONLY <1>5, <1>7 DEF KidsTurned, SameData, SameItems
    <2>5. QED BY ONLY <2>1, <2>2, <2>3, <2>4 DEF Exchanged
<1>9. QED BY <1>6, <1>8

\* The exchange leaves the depths, if the gap is not between the two or above
\* them.
LEMMA ExchangeDepths ==
    ASSUME NEW t, NEW U, NEW N, NEW pos, NEW edge, InOrder(t, U, N, pos, edge),
           NEW bd, NEW hp, NEW hs, Depths(t, U, bd, hp, hs), Nil \notin t.red,
           NEW n \in U, NEW dir \in Sides, NEW up, up = t.kid[n][Opposite(dir)], up \in t.red, n \notin t.red,
           NEW u, Exchanged(t, U, n, dir, up, u),
           \/ hp = n /\ hs = dir
           \/ hp \notin {n, up} /\ (hp \in U => t.kid[hp][hs] # n)
    PROVE  \E b : Depths(u, U, b, hp, hs)
<1> DEFINE other == Opposite(dir)
           mid == t.kid[up][dir]
           near == t.kid[n][dir]
           far == t.kid[up][other]
           G == Gap(n, dir, hp, hs)
           b == [m \in U \cup {Nil} |-> IF m = up THEN bd[n] ELSE IF m = n THEN bd[n] - 1 ELSE bd[m]]
<1>1. other \in Sides /\ other # dir /\ Opposite(other) = dir /\ \A s \in Sides : s = dir \/ s = other
    BY TwoSides
<1>2. Nil \notin U /\ U \subseteq Links /\ t \in Tree
    BY HungOnce
<1>3. up \in U /\ up # n /\ t.parent[up] = n
    BY <1>1, HungBelow
<1>4. /\ \A a \in U, s \in Sides : t.kid[a][s] \in U \cup {Nil} /\ t.kid[a][s] # a
      /\ \A a \in U, s \in Sides : t.kid[a][s] \in U => t.parent[t.kid[a][s]] = a
    BY HungOnce
<1>5. bd \in [U \cup {Nil} -> Nat] /\ bd[Nil] = 0
    BY DEF Depths
<1>6. \A a \in U, s \in Sides : bd[a] = bd[t.kid[a][s]] + BlackOne(t, a) + Gap(a, s, hp, hs)
    BY DEF Depths
<1>7. \A a \in U, s \in Sides :
            u.kid[a][s] = IF a = n /\ s = other THEN mid
                          ELSE IF a = up /\ s = dir THEN n
                          ELSE IF t.kid[a][s] = n THEN up ELSE t.kid[a][s]
    BY DEF Exchanged
<1>8. u.red = (t.red \ {up}) \cup {n}
    BY DEF Exchanged
<1>9. /\ Gap(n, other, hp, hs) = 0 /\ G \in {0, 1} /\ \A s \in Sides : Gap(up, s, hp, hs) = 0
      /\ \A a \in U, s \in Sides : t.kid[a][s] = n => Gap(a, s, hp, hs) = 0
    <2>1. Gap(n, other, hp, hs) = 0 /\ G \in {0, 1} /\ \A s \in Sides : Gap(up, s, hp, hs) = 0
        BY <1>1, <1>3 DEF Gap
    <2>2. \A a \in U, s \in Sides : t.kid[a][s] = n => Gap(a, s, hp, hs) = 0
        BY <1>4 DEF Gap
    <2>3. QED BY <2>1, <2>2
<1> HIDE DEF G
<1>10. /\ mid \in U \cup {Nil} /\ near \in U \cup {Nil} /\ far \in U \cup {Nil}
       /\ mid \notin {up, n} /\ near \notin {up, n} /\ far \notin {up, n}
    <2>1. \A s \in Sides : t.kid[up][s] # n
        BY <1>1, <1>2, <1>3, KidFacts
    <2>2. near # up
        BY <1>1, <1>2, <1>3, HungAtOne
    <2>3. QED BY <1>1, <1>3, <1>4, <2>1, <2>2
<1>11. /\ bd[n] = bd[up] + 1 /\ bd[n] = bd[near] + 1 + G /\ bd[up] = bd[mid] /\ bd[up] = bd[far]
       /\ bd[n] \in Nat /\ bd[up] \in Nat /\ bd[mid] \in Nat /\ bd[near] \in Nat /\ bd[far] \in Nat
    <2>1. BlackOne(t, up) = 0 /\ BlackOne(t, n) = 1
        BY DEF BlackOne
    <2>2. bd[n] \in Nat /\ bd[up] \in Nat /\ bd[mid] \in Nat /\ bd[near] \in Nat /\ bd[far] \in Nat
        BY <1>3, <1>5, <1>10
    <2>3. /\ bd[n] = bd[up] + BlackOne(t, n) + Gap(n, other, hp, hs)
          /\ bd[n] = bd[near] + BlackOne(t, n) + G
          /\ bd[up] = bd[mid] + BlackOne(t, up) + Gap(up, dir, hp, hs)
          /\ bd[up] = bd[far] + BlackOne(t, up) + Gap(up, other, hp, hs)
        BY <1>1, <1>3, <1>6 DEF G
    <2>4. Gap(up, dir, hp, hs) = 0 /\ Gap(up, other, hp, hs) = 0
        BY <1>1, <1>9
    <2>5. Gap(n, other, hp, hs) = 0
        BY <1>9
    <2>6. bd[n] = bd[up] + 1 /\ bd[n] = bd[near] + 1 + G
        BY ONLY <2>1, <2>2, <2>3, <2>5
    <2>7. bd[up] = bd[mid] /\ bd[up] = bd[far]
        BY ONLY <2>1, <2>2, <2>3, <2>4
    <2>8. QED BY <2>2, <2>6, <2>7
<1>12. /\ b \in [U \cup {Nil} -> Nat] /\ b[Nil] = 0
       /\ b[up] = bd[n] /\ b[n] = bd[n] - 1
       /\ \A m \in U \cup {Nil} : m \notin {up, n} => b[m] = bd[m]
    <2>1. bd[n] - 1 \in Nat
        BY <1>11
    <2>2. QED BY ZenonT(30), <1>2, <1>3, <1>5, <1>11, <2>1
<1> HIDE DEF b, mid, near, far
<1>13. ASSUME NEW a \in U, NEW s \in Sides PROVE b[a] = b[u.kid[a][s]] + BlackOne(u, a) + Gap(a, s, hp, hs)
    <2>1. BlackOne(u, up) = 1 /\ BlackOne(u, n) = 0
        BY <1>3, <1>8 DEF BlackOne
    <2>2. CASE a = n /\ s = dir
        <3>1. u.kid[a][s] = near
            BY <1>1, <1>3, <1>4, <1>7, <2>2 DEF near
        <3>2. b[near] = bd[near] /\ b[a] = bd[n] - 1 /\ Gap(a, s, hp, hs) = G
            BY <1>10, <1>12, <2>2 DEF G
        <3>3. QED BY <1>9, <1>11, <2>1, <2>2, <3>1, <3>2
    <2>3. CASE a = n /\ s = other
        <3>1. u.kid[a][s] = mid /\ b[mid] = bd[mid] /\ b[a] = bd[n] - 1
            BY <1>7, <1>10, <1>12, <2>3
        <3>2. Gap(a, s, hp, hs) = 0 /\ BlackOne(u, a) = 0
            <4>1. Gap(n, other, hp, hs) = 0
                BY <1>9
            <4>2. QED BY ONLY <4>1, <2>1, <2>3
        <3>3. bd[n] - 1 = bd[mid] + 0 + 0
            BY <1>11
        <3>4. b[a] = b[u.kid[a][s]] + 0 + 0
            BY ONLY <3>1, <3>3
        <3>5. QED BY ONLY <3>2, <3>4
    <2>4. CASE a = up /\ s = dir
        <3>1. u.kid[a][s] = n /\ b[a] = bd[n] /\ b[n] = bd[n] - 1
            BY <1>3, <1>7, <1>12, <2>4
        <3>2. Gap(a, s, hp, hs) = 0
            BY <1>9, <2>4
        <3>3. QED BY <1>11, <2>1, <2>4, <3>1, <3>2
    <2>5. CASE a = up /\ s = other
        <3>1. u.kid[a][s] = far /\ b[a] = bd[n] /\ b[far] = bd[far]
            BY <1>1, <1>3, <1>7, <1>10, <1>12, <2>5 DEF far
        <3>2. Gap(a, s, hp, hs) = 0
            BY <1>9, <2>5
        <3>3. QED BY <1>11, <2>1, <2>5, <3>1, <3>2
    <2>6. CASE a \notin {n, up}
        <3>1. b[a] = bd[a] /\ BlackOne(u, a) = BlackOne(t, a)
              /\ bd[a] = bd[t.kid[a][s]] + BlackOne(t, a) + Gap(a, s, hp, hs)
            BY <1>6, <1>8, <1>12, <2>6 DEF BlackOne
        <3>2. b[u.kid[a][s]] = bd[t.kid[a][s]]
            <4>1. CASE t.kid[a][s] = n
                BY <1>7, <1>12, <2>6, <4>1
            <4>2. CASE t.kid[a][s] # n
                <5>1. u.kid[a][s] = t.kid[a][s] /\ t.kid[a][s] \in U \cup {Nil}
                    BY <1>4, <1>7, <2>6, <4>2
                <5>2. t.kid[a][s] # up
                    <6>1. t.kid[a][s] \in U => t.parent[t.kid[a][s]] = a
                        BY <1>4
                    <6>2. QED BY <1>3, <2>6, <6>1
                <5>3. QED BY <1>12, <4>2, <5>1, <5>2
            <4>3. QED BY <4>1, <4>2
        <3>3. QED BY <3>1, <3>2
    <2>7. QED BY <1>1, <2>2, <2>3, <2>4, <2>5, <2>6
<1>14. QED BY <1>12, <1>13 DEF Depths

\* The end of the loop of RBDeleteFixup.
DeleteEnd(t, p, w, side) == LET done == LastTurn(t, p, w, side) IN Blacken(done, done.root)

\* Where the loop of RBDeleteFixup goes on from.
DeleteStep(t, x, p, w, side) ==
    IF w \in t.red THEN <<Rotate(Redden(Blacken(t, w), p), p, side), x>>
    ELSE IF t.kid[w][side] \notin t.red THEN <<Redden(t, w), p>>
    ELSE <<Rotate(Redden(Blacken(t, t.kid[w][side]), w), w, Opposite(side)), x>>

LEMMA DeleteStepInTree ==
    ASSUME NEW t \in Tree, NEW x \in Links, NEW p \in Links, NEW w \in Links, NEW side \in Sides
    PROVE  DeleteStep(t, x, p, w, side) \in Tree \X Links
<1> DEFINE inner == t.kid[w][side]
           t1 == Blacken(t, w)
           t2 == Blacken(t, inner)
<1>1. Opposite(side) \in Sides
    BY TwoSides
<1>2. inner \in Links
    BY TreeFields
<1>3. t1 \in Tree /\ t2 \in Tree /\ Redden(t, w) \in Tree
    BY ZenonT(30), <1>2, ColourFields
<1>4. DeleteStep(t, x, p, w, side) =
        IF w \in t.red THEN <<Rotate(Redden(t1, p), p, side), x>>
        ELSE IF inner \notin t.red THEN <<Redden(t, w), p>>
        ELSE <<Rotate(Redden(t2, w), w, Opposite(side)), x>>
    BY DEF DeleteStep
<1> HIDE DEF t1, t2
<1>5. Redden(t1, p) \in Tree /\ Redden(t2, w) \in Tree
    BY <1>3, ColourFields
<1>6. Rotate(Redden(t1, p), p, side) \in Tree /\ Rotate(Redden(t2, w), w, Opposite(side)) \in Tree
    BY <1>1, <1>5, RotateInTree
<1>7. QED BY <1>3, <1>4, <1>6

LEMMA DeleteFixupIs ==
    ASSUME NEW t \in Tree, NEW x \in Links,
           NEW p, p = t.parent[x], NEW side, side = SideOf(t, x), NEW w, w = t.kid[p][Opposite(side)]
    PROVE  DeleteFixup[<<t, x>>] =
             IF x = t.root \/ x \in t.red THEN Blacken(t, x)
             ELSE IF w \notin t.red /\ t.kid[w][Opposite(side)] \in t.red THEN DeleteEnd(t, p, w, side)
             ELSE DeleteFixup[DeleteStep(t, x, p, w, side)]
<1> DEFINE D == Tree \X Links
           P(at) == at[1].parent[at[2]]
           S(at) == SideOf(at[1], at[2])
           W(at) == at[1].kid[P(at)][Opposite(S(at))]
           Early(at) == at[2] = at[1].root \/ at[2] \in at[1].red
           Late(at) == W(at) \notin at[1].red /\ at[1].kid[W(at)][Opposite(S(at))] \in at[1].red
           Ends == {at \in D : Early(at) \/ Late(at)}
           Result == [at \in D |-> IF Early(at) THEN Blacken(at[1], at[2]) ELSE DeleteEnd(at[1], P(at), W(at), S(at))]
           Next1 == [at \in D |-> DeleteStep(at[1], at[2], P(at), W(at), S(at))]
           LoopAt(F, at) ==
                LET u == at[1]
                    y == at[2]
                    q     == u.parent[y]
                    sd    == SideOf(u, y)
                    v     == u.kid[q][Opposite(sd)]
                    inner == u.kid[v][sd]
                    outer == u.kid[v][Opposite(sd)]
                IN  IF y = u.root \/ y \in u.red THEN Blacken(u, y)
                    ELSE IF v \notin u.red /\ outer \in u.red
                    THEN LET done == LastTurn(u, q, v, sd) IN Blacken(done, done.root)
                    ELSE F[
                        IF v \in u.red THEN <<Rotate(Redden(Blacken(u, v), q), q, sd), y>>
                        ELSE IF inner \notin u.red THEN <<Redden(u, v), q>>
                        ELSE <<Rotate(Redden(Blacken(u, inner), v), v, Opposite(sd)), y>>]
           Loop(F) == [at \in Tree \X Links |-> LoopAt(F, at)]
           Body(F) == [at \in D |-> IF at \in Ends THEN Result[at] ELSE F[Next1[at]]]
<1>1. \A at \in D : at \in Ends \/ Next1[at] \in D
    <2>1. TAKE at \in D
    <2>2. at[1] \in Tree /\ at[2] \in Links
        OBVIOUS
    <2>3. P(at) \in Links /\ S(at) \in Sides
        BY <2>2, TreeFields, SidesAre
    <2>4. W(at) \in Links
        <3>1. Opposite(S(at)) \in Sides
            BY <2>3, TwoSides
        <3>2. QED BY <2>2, <2>3, <3>1, TreeFields
    <2>5. Next1[at] \in D
        BY ZenonT(30), <2>2, <2>3, <2>4, DeleteStepInTree
    <2> HIDE DEF D, Ends, Next1
    <2>6. QED BY <2>5
<1>2. ASSUME NEW F
      PROVE  Loop(F) = Body(F)
    <2>1. ASSUME NEW at \in D
          PROVE  LoopAt(F, at) = IF at \in Ends THEN Result[at] ELSE F[Next1[at]]
        <3>1. CASE Early(at)
            BY ZenonT(30), <3>1
        <3>2. CASE ~Early(at) /\ Late(at)
            <4>1. at \in Ends /\ Result[at] = DeleteEnd(at[1], P(at), W(at), S(at))
                BY <3>2
            <4>2. LoopAt(F, at) = DeleteEnd(at[1], P(at), W(at), S(at))
                BY ZenonT(30), <3>2 DEF DeleteEnd
            <4>3. QED BY ONLY ZenonT(30), <4>1, <4>2
        <3>3. CASE ~Early(at) /\ ~Late(at)
            <4>1. at \notin Ends /\ Next1[at] = DeleteStep(at[1], at[2], P(at), W(at), S(at))
                BY ZenonT(30), <3>3
            <4>2. LoopAt(F, at) = F[DeleteStep(at[1], at[2], P(at), W(at), S(at))]
                BY ZenonT(30), <3>3 DEF DeleteStep
            <4> HIDE DEF LoopAt, Ends, Result, Next1
            <4>3. QED BY <4>1, <4>2
        <3>4. QED BY ZenonT(30), <3>1, <3>2, <3>3
    <2> HIDE DEF LoopAt, Ends, Result, Next1
    <2>2. QED BY <2>1
<1>3. \E F : F = Body(F)
    <2> HIDE DEF D, Ends, Result, Next1
    <2>1. Computable(D, Ends, Result, Next1)
        BY <1>1, TailRecursion
    <2>2. PICK F : Computes(F, D, Ends, Result, Next1)
        BY <2>1 DEF Computable
    <2>3. F = Body(F)
        BY <2>2 DEF Computes
    <2>4. QED BY <2>3
<1>4. \E F : F = Loop(F)
    <2> HIDE DEF Loop, Body
    <2>1. QED BY <1>2, <1>3
<1>5. DeleteFixup = Loop(DeleteFixup)
    BY ZenonT(30), <1>4 DEF DeleteFixup
<1>6. DeleteFixup = Body(DeleteFixup)
    <2> HIDE DEF Loop, Body
    <2>1. QED BY <1>2, <1>5
<1>7. <<t, x>> \in D
    OBVIOUS
<1>8. DeleteFixup[<<t, x>>] = IF <<t, x>> \in Ends THEN Result[<<t, x>>] ELSE DeleteFixup[Next1[<<t, x>>]]
    BY ZenonT(30), <1>6, <1>7
<1>9. P(<<t, x>>) = p /\ S(<<t, x>>) = side /\ W(<<t, x>>) = w
    OBVIOUS
<1>10. QED BY ZenonT(30), <1>7, <1>8, <1>9

\* The tree in the loop of RBDeleteFixup: one black node is missing on the
\* paths from p down to x on that side (p is Nil when x is the root); only x
\* may be red below a red node, above one, or at the root.
Short(t, U, N, pos, edge, bd, x, p, side) ==
    /\ InOrder(t, U, N, pos, edge)
    /\ Depths(t, U, bd, p, side)
    /\ t.red \subseteq U
    /\ \A n \in U, s \in Sides : n # x /\ t.kid[n][s] # x => RedApart(t, n, s)
    /\ t.root \in t.red => t.root = x
    /\ x \in U \cup {Nil}
    /\ \/ x = t.root /\ p = Nil
       \/ p \in U /\ side \in Sides /\ t.kid[p][side] = x /\ t.parent[x] = p

\* Paths of equal length where the gap is nowhere.
LEMMA NoGap ==
    ASSUME NEW t, NEW U, NEW bd, NEW hp, NEW hs, Depths(t, U, bd, hp, hs), hp \notin U, t.red \subseteq U,
           \A n \in U, s \in Sides : t.kid[n][s] \in U \cup {Nil}
    PROVE  Levels(t, U, bd)
<1>1. \A n \in U, s \in Sides : Gap(n, s, hp, hs) = 0
    BY DEF Gap
<1>2. bd \in [U \cup {Nil} -> Nat]
    BY DEF Depths
<1>3. ASSUME NEW n \in U, NEW s \in Sides PROVE bd[n] = bd[t.kid[n][s]] + BlackOne(t, n)
    <2>1. bd[n] = bd[t.kid[n][s]] + BlackOne(t, n) + Gap(n, s, hp, hs) /\ Gap(n, s, hp, hs) = 0 /\ bd[n] \in Nat
        BY <1>1, <1>2 DEF Depths
    <2>2. BlackOne(t, n) \in Int
        BY DEF BlackOne
    <2>3. bd[t.kid[n][s]] \in Nat
        BY <1>2
    <2>4. QED BY <2>1, <2>2, <2>3
<1>4. QED BY <1>2, <1>3 DEF Levels, Depths

LEMMA ShortPlace ==
    ASSUME NEW t, NEW U, NEW N, NEW pos, NEW edge, NEW bd, NEW x, NEW p, NEW side,
           Short(t, U, N, pos, edge, bd, x, p, side)
    PROVE  /\ t \in Tree /\ U \subseteq Links /\ Nil \notin U /\ Nil \notin t.red /\ x \in Links
           /\ x = t.root => p = Nil
           /\ x # t.root => /\ p \in U /\ side \in Sides /\ t.kid[p][side] = x /\ t.parent[x] = p /\ x # p
                            /\ t.root \in U
<1>1. InOrder(t, U, N, pos, edge) /\ x \in U \cup {Nil} /\ t.red \subseteq U
      /\ ((x = t.root /\ p = Nil) \/ (p \in U /\ side \in Sides /\ t.kid[p][side] = x /\ t.parent[x] = p))
    BY DEF Short
<1>2. t \in Tree /\ U \subseteq Links /\ Nil \notin U /\ Nil \in Links
    BY <1>1, HungOnce DEF Links
<1>3. ASSUME p \in U, side \in Sides, t.kid[p][side] = x PROVE x # t.root /\ x # p /\ t.root \in U
    <2>1. t.root \in U
        BY <1>1, <1>3, ParentFacts
    <2>2. CASE x = Nil
        BY <1>2, <1>3, <2>1, <2>2
    <2>3. CASE x # Nil
        <3>1. x # p /\ x # t.root
            BY <1>1, <1>3, <2>3, KidFacts
        <3>2. QED BY <2>1, <3>1
    <2>4. QED BY <2>2, <2>3
<1>4. QED BY <1>1, <1>2, <1>3

\* The loop ends at the root, or at a red node, which is made black.
LEMMA DeleteEnds ==
    ASSUME NEW t, NEW U, NEW N, NEW pos, NEW edge, NEW bd, NEW x, NEW p, NEW side,
           Short(t, U, N, pos, edge, bd, x, p, side), x = t.root \/ x \in t.red
    PROVE  BalancedAs(t, Blacken(t, x), U, N, pos)
<1> DEFINE u == Blacken(t, x)
           b == [n \in U \cup {Nil} |-> IF n = x /\ x \in t.red THEN bd[n] + 1 ELSE bd[n]]
<1>1. /\ InOrder(t, U, N, pos, edge) /\ t.red \subseteq U
      /\ \A n \in U, s \in Sides : n # x /\ t.kid[n][s] # x => RedApart(t, n, s)
      /\ t.root \in t.red => t.root = x
    BY DEF Short
<1>2. /\ t \in Tree /\ U \subseteq Links /\ Nil \notin U /\ Nil \notin t.red /\ x \in Links
      /\ x = t.root => p = Nil
      /\ x # t.root => p \in U /\ side \in Sides /\ t.kid[p][side] = x /\ t.parent[x] = p /\ x # p
    BY ShortPlace
<1>3. u \in Tree /\ SameLinks(t, u) /\ u.red = t.red \ {x}
    BY <1>2, ColourFields
<1>4. InOrder(u, U, N, pos, edge)
    BY <1>1, <1>3, SameLinksSameOrder
<1>5. /\ bd \in [U \cup {Nil} -> Nat] /\ bd[Nil] = 0
      /\ \A n \in U, s \in Sides : bd[n] = bd[t.kid[n][s]] + BlackOne(t, n) + Gap(n, s, p, side)
    BY DEF Short, Depths
<1>6. \A n \in U, s \in Sides : t.kid[n][s] \in U \cup {Nil}
    BY <1>1, KidsAre
<1>7. /\ b \in [U \cup {Nil} -> Nat] /\ b[Nil] = 0
      /\ \A n \in U \cup {Nil} : b[n] = IF n = x /\ x \in t.red THEN bd[n] + 1 ELSE bd[n]
    <2>1. \A n \in U \cup {Nil} : bd[n] \in Nat /\ bd[n] + 1 \in Nat
        BY <1>5
    <2>2. QED BY <1>2, <1>5, <2>1
<1> HIDE DEF u, b
<1>8. \A n \in U, s \in Sides : RedApart(u, n, s)
    <2>1. TAKE n \in U, s \in Sides
    <2>2. CASE n # x /\ t.kid[n][s] # x
        <3>1. RedApart(t, n, s)
            BY <1>1, <2>2
        <3>2. QED BY <1>3, <3>1 DEF RedApart, SameLinks
    <2>3. CASE ~(n # x /\ t.kid[n][s] # x)
        BY <1>3, <2>3 DEF RedApart, SameLinks
    <2>4. QED BY <2>2, <2>3
<1>9. ASSUME NEW n \in U, NEW s \in Sides PROVE b[n] = b[u.kid[n][s]] + BlackOne(u, n)
    <2> DEFINE m == t.kid[n][s]
    <2>1. u.kid[n][s] = m /\ m \in U \cup {Nil}
        BY <1>3, <1>6 DEF SameLinks
    <2>2. bd[n] = bd[m] + BlackOne(t, n) + Gap(n, s, p, side) /\ bd[n] \in Nat /\ bd[m] \in Nat
        BY <1>5, <2>1
    <2>3. m # n
        <3>1. CASE m = Nil
            BY <1>2, <3>1
        <3>2. CASE m # Nil
            BY <1>1, <3>2, KidFacts
        <3>3. QED BY <3>1, <3>2
    <2>4. n = x => Gap(n, s, p, side) = 0
        BY <1>2 DEF Gap
    <2>5. CASE x \in t.red /\ m = x
        <3>1. n = p /\ s = side
            <4>1. x # t.root /\ m # Nil
                BY <1>1, <1>2, <2>5, KidFacts
            <4>2. p \in U /\ side \in Sides /\ t.kid[p][side] = m
                BY <1>2, <2>5, <4>1
            <4>3. QED BY <1>1, <4>1, <4>2, HungAtOne
        <3>2. Gap(n, s, p, side) = 1 /\ BlackOne(u, n) = BlackOne(t, n) /\ BlackOne(t, n) \in {0, 1}
            BY <1>3, <2>3, <2>5, <3>1 DEF Gap, BlackOne
        <3>3. b[n] = bd[n] /\ b[m] = bd[m] + 1
            BY <1>7, <2>1, <2>3, <2>5
        <3>4. QED BY <2>1, <2>2, <3>2, <3>3
    <2>6. CASE x \in t.red /\ m # x
        <3>1. Gap(n, s, p, side) = 0
            BY <1>2, <2>6 DEF Gap
        <3>2. b[m] = bd[m] /\ b[n] - BlackOne(u, n) = bd[n] - BlackOne(t, n)
            BY <1>3, <1>7, <2>1, <2>2, <2>6 DEF BlackOne
        <3>3. b[n] \in Nat /\ BlackOne(u, n) \in {0, 1} /\ BlackOne(t, n) \in {0, 1}
            BY <1>7 DEF BlackOne
        <3>4. QED BY <2>1, <2>2, <3>1, <3>2, <3>3
    <2>7. CASE x \notin t.red
        <3>1. Gap(n, s, p, side) = 0
            BY <1>2, <2>7 DEF Gap
        <3>2. b[m] = bd[m] /\ b[n] = bd[n] /\ BlackOne(u, n) = BlackOne(t, n) /\ BlackOne(t, n) \in {0, 1}
            BY <1>3, <1>7, <2>1, <2>7 DEF BlackOne
        <3>3. QED BY <2>1, <2>2, <3>1, <3>2
    <2>8. QED BY <2>5, <2>6, <2>7
<1>10. Levels(u, U, b)
    <2>1. u.red \subseteq U
        BY <1>1, <1>3
    <2>2. QED BY <1>7, <1>9, <2>1 DEF Levels
<1>11. u.root \notin u.red
    BY <1>1, <1>3 DEF SameLinks
<1>12. Balanced(u, U, N, pos, edge, b)
    BY <1>4, <1>8, <1>10, <1>11 DEF Balanced
<1>13. SameItems(t, u)
    BY <1>3 DEF SameLinks, SameItems
<1>14. QED BY <1>12, <1>13 DEF BalancedAs, u

\* x has a sibling w: its paths have one black node more.
LEMMA ShortSibling ==
    ASSUME NEW t, NEW U, NEW N, NEW pos, NEW edge, NEW bd, NEW x, NEW p, NEW side,
           Short(t, U, N, pos, edge, bd, x, p, side), x # t.root, x \notin t.red,
           NEW w, w = t.kid[p][Opposite(side)]
    PROVE  /\ p \in U /\ side \in Sides /\ t.kid[p][side] = x /\ t.parent[x] = p /\ SideOf(t, x) = side
           /\ w \in U /\ w # x /\ w # p /\ bd[w] = bd[x] + 1 /\ bd[p] = bd[w] + BlackOne(t, p)
           /\ \A n \in U, s \in Sides : RedApart(t, n, s)
           /\ t.root \notin t.red
<1> DEFINE other == Opposite(side)
<1>1. /\ InOrder(t, U, N, pos, edge) /\ Depths(t, U, bd, p, side)
      /\ \A n \in U, s \in Sides : n # x /\ t.kid[n][s] # x => RedApart(t, n, s)
      /\ t.root \in t.red => t.root = x
      /\ x \in U \cup {Nil}
    BY DEF Short
<1>2. /\ t \in Tree /\ U \subseteq Links /\ Nil \notin U
      /\ p \in U /\ side \in Sides /\ t.kid[p][side] = x /\ t.parent[x] = p /\ x # p
    BY ShortPlace
<1>3. other \in Sides /\ other # side /\ Opposite(other) = side
    BY <1>2, TwoSides
<1>4. w \in U \cup {Nil}
    BY <1>1, <1>2, <1>3, KidsAre
<1>5. bd[w] \in Nat /\ bd[x] \in Nat /\ bd[p] \in Nat /\ BlackOne(t, p) \in {0, 1} /\ bd[Nil] = 0
    <2>1. bd \in [U \cup {Nil} -> Nat] /\ bd[Nil] = 0
        BY <1>1 DEF Depths
    <2>2. QED BY <1>1, <1>2, <1>4, <2>1 DEF BlackOne
<1>6. bd[p] = bd[x] + BlackOne(t, p) + 1 /\ bd[p] = bd[w] + BlackOne(t, p) + 0
    <2>1. Gap(p, side, p, side) = 1 /\ Gap(p, other, p, side) = 0
        BY <1>3 DEF Gap
    <2>2. /\ bd[p] = bd[t.kid[p][side]] + BlackOne(t, p) + Gap(p, side, p, side)
          /\ bd[p] = bd[t.kid[p][other]] + BlackOne(t, p) + Gap(p, other, p, side)
        BY <1>1, <1>2, <1>3 DEF Depths
    <2>3. QED BY <1>2, <2>1, <2>2
<1>7. bd[w] = bd[x] + 1 /\ bd[p] = bd[w] + BlackOne(t, p)
    BY <1>5, <1>6
<1>8. w # Nil /\ w \in U /\ w # x
    BY <1>4, <1>5, <1>7
<1>9. w # p /\ t.kid[p][side] # w
    BY <1>1, <1>2, <1>3, <1>8, KidFacts
<1>10. SideOf(t, x) = side
    <2>1. CASE x # Nil
        BY <1>1, <1>2, <2>1, KidFacts
    <2>2. CASE x = Nil
        <3>1. side = Left => t.kid[t.parent[x]][Left] = x
            BY <1>2
        <3>2. side = Right => t.kid[t.parent[x]][Left] # x
            <4>1. Opposite(Right) = Left
                BY SidesAre
            <4>2. QED BY <1>2, <1>8, <4>1
        <3>3. side = Left \/ side = Right
            BY <1>2, SidesAre
        <3>4. QED BY <3>1, <3>2, <3>3 DEF SideOf
    <2>3. QED BY <2>1, <2>2
<1>11. \A n \in U, s \in Sides : RedApart(t, n, s)
    BY <1>1 DEF RedApart
<1>12. QED BY <1>1, <1>2, <1>7, <1>8, <1>9, <1>10, <1>11

\* Exchanging a black node and its red kid leaves x where it is.
LEMMA ShortExchange ==
    ASSUME NEW t, NEW U, NEW N, NEW pos, NEW edge, NEW bd, NEW x, NEW p, NEW side,
           Short(t, U, N, pos, edge, bd, x, p, side), x # t.root, x \notin t.red,
           NEW n \in U, NEW dir \in Sides, NEW up, up = t.kid[n][Opposite(dir)], up \in t.red,
           n \notin t.red, t.kid[n][dir] \notin t.red, x # n,
           (p = n /\ side = dir) \/ p \notin {n, up},
           NEW u, u = Rotate(Redden(Blacken(t, up), n), n, dir)
    PROVE  /\ Exchanged(t, U, n, dir, up, u) /\ x # u.root /\ x \notin u.red
           /\ \E e, b : Short(u, U, N, pos, e, b, x, p, side)
<1> DEFINE e == Turned(edge, U, pos, n, up, dir)
<1>1. InOrder(t, U, N, pos, edge) /\ Depths(t, U, bd, p, side) /\ t.red \subseteq U /\ x \in U \cup {Nil}
    BY DEF Short
<1>2. t \in Tree /\ U \subseteq Links /\ Nil \notin U /\ Nil \notin t.red /\ t.root \in U
    BY ShortPlace
<1>3. /\ p \in U /\ side \in Sides /\ t.kid[p][side] = x /\ t.parent[x] = p
      /\ \A a \in U, s \in Sides : RedApart(t, a, s)
      /\ t.root \notin t.red
    BY ShortSibling
<1>4. up # Nil /\ up \in U /\ up # n /\ up # x
    <2>1. up # Nil /\ up # x
        BY <1>2
    <2>2. Opposite(dir) \in Sides
        BY TwoSides
    <2>3. QED BY <1>1, <2>1, <2>2, HungBelow
<1>5. Exchanged(t, U, n, dir, up, u) /\ InOrder(u, U, N, pos, e)
    BY <1>1, <1>4, ExchangeIs
<1> HIDE DEF e
<1>6. \E b : Depths(u, U, b, p, side)
    <2>1. (p = n /\ side = dir) \/ (p \notin {n, up} /\ (p \in U => t.kid[p][side] # n))
        BY <1>3
    <2>2. QED BY <1>1, <1>2, <1>5, <2>1, ExchangeDepths
<1>7. /\ \A a \in U, s \in Sides :
          u.kid[a][s] = IF a = n /\ s = Opposite(dir) THEN t.kid[up][dir]
                        ELSE IF a = up /\ s = dir THEN n
                        ELSE IF t.kid[a][s] = n THEN up ELSE t.kid[a][s]
      /\ u.root = IF t.root = n THEN up ELSE t.root
      /\ u.red = (t.red \ {up}) \cup {n} /\ u.parent[Nil] = t.parent[Nil]
    BY <1>5 DEF Exchanged
<1>8. u.kid[p][side] = x
    <2>1. dir # Opposite(dir)
        BY TwoSides
    <2>2. ~(p = n /\ side = Opposite(dir)) /\ p # up
        BY <1>4, <2>1
    <2>3. QED BY <1>3, <1>7, <2>2
<1>9. u.parent[x] = p
    <2>1. CASE x = Nil
        BY <1>3, <1>7, <2>1
    <2>2. CASE x # Nil
        BY <1>3, <1>5, <1>8, <2>2, KidFacts
    <2>3. QED BY <2>1, <2>2
<1>10. x \notin u.red /\ x # u.root /\ u.root \notin u.red
    BY <1>3, <1>4, <1>7
<1>11. ASSUME NEW a \in U, NEW s \in Sides PROVE RedApart(u, a, s)
    <2>1. \A r \in Sides : r = dir \/ r = Opposite(dir)
        BY TwoSides
    <2>2. CASE a = n
        <3>1. u.kid[n][dir] = t.kid[n][dir] /\ t.kid[n][dir] # n
            <4>1. t.kid[n][dir] # n /\ dir # Opposite(dir)
                BY <1>1, HungOnce, TwoSides
            <4>2. QED BY <1>4, <1>7, <4>1
        <3>2. u.kid[n][Opposite(dir)] = t.kid[up][dir] /\ t.kid[up][dir] # n
            <4>1. t.kid[up][dir] # n
                BY <1>1, <1>4, KidFacts, TwoSides
            <4>2. QED BY <1>7, <4>1, TwoSides
        <3>3. t.kid[up][dir] \notin t.red
            BY <1>3, <1>4 DEF RedApart
        <3>4. u.kid[n][dir] \notin u.red /\ u.kid[n][Opposite(dir)] \notin u.red
            BY <1>7, <3>1, <3>2, <3>3
        <3>5. QED BY <2>1, <2>2, <3>4 DEF RedApart
    <2>3. CASE a = up
        BY <1>4, <1>7, <2>3 DEF RedApart
    <2>4. CASE a \notin {n, up}
        <3>1. RedApart(t, a, s)
            BY <1>3
        <3>2. u.kid[a][s] = IF t.kid[a][s] = n THEN up ELSE t.kid[a][s]
            BY <1>7, <2>4
        <3>3. QED BY <1>4, <1>7, <2>4, <3>1, <3>2 DEF RedApart
    <2>5. QED BY <2>2, <2>3, <2>4
<1>12. u.red \subseteq U
    BY <1>1, <1>7
<1>13. PICK b : Depths(u, U, b, p, side)
    BY <1>6
<1>14. Short(u, U, N, pos, e, b, x, p, side)
    BY <1>1, <1>3, <1>5, <1>8, <1>9, <1>10, <1>11, <1>12, <1>13 DEF Short
<1>15. QED BY <1>5, <1>10, <1>14

\* A black sibling with black kids is made red: the gap moves up.
LEMMA ShortClimbs ==
    ASSUME NEW t, NEW U, NEW N, NEW pos, NEW edge, NEW bd, NEW x, NEW p, NEW side,
           Short(t, U, N, pos, edge, bd, x, p, side), x # t.root, x \notin t.red,
           NEW w, w = t.kid[p][Opposite(side)], w \notin t.red, \A s \in Sides : t.kid[w][s] \notin t.red,
           NEW u, u = Redden(t, w)
    PROVE  /\ SameItems(t, u) /\ (p \in t.red => p \in u.red)
           /\ \E b, q, s : Short(u, U, N, pos, edge, b, p, q, s)
<1> DEFINE q == t.parent[p]
           sq == SideOf(t, p)
           b == [n \in U \cup {Nil} |-> IF n \in {w, p} THEN bd[n] - 1 ELSE bd[n]]
<1>1. InOrder(t, U, N, pos, edge) /\ Depths(t, U, bd, p, side) /\ t.red \subseteq U /\ x \in U \cup {Nil}
    BY DEF Short
<1>2. t \in Tree /\ U \subseteq Links /\ Nil \notin U /\ Nil \notin t.red /\ t.root \in U
    BY ShortPlace
<1>3. /\ p \in U /\ side \in Sides /\ t.kid[p][side] = x /\ t.parent[x] = p
      /\ w \in U /\ w # x /\ w # p /\ bd[w] = bd[x] + 1 /\ bd[p] = bd[w] + BlackOne(t, p)
      /\ \A a \in U, s \in Sides : RedApart(t, a, s)
      /\ t.root \notin t.red
    BY ShortSibling
<1>4. u \in Tree /\ SameLinks(t, u) /\ u.red = t.red \cup {w}
    BY <1>2, <1>3, ColourFields
<1> HIDE DEF b
<1>5. InOrder(u, U, N, pos, edge)
    BY <1>1, <1>4, SameLinksSameOrder
<1>6. bd \in [U \cup {Nil} -> Nat] /\ bd[Nil] = 0
      /\ \A n \in U, s \in Sides : bd[n] = bd[t.kid[n][s]] + BlackOne(t, n) + Gap(n, s, p, side)
    BY <1>1 DEF Depths
<1>7. /\ b \in [U \cup {Nil} -> Nat] /\ b[Nil] = 0 /\ b[w] = bd[w] - 1 /\ b[p] = bd[p] - 1
      /\ \A n \in U \cup {Nil} : n \notin {w, p} => b[n] = bd[n]
    <2>1. bd[w] - 1 \in Nat /\ bd[p] - 1 \in Nat
        <3>1. bd[x] \in Nat /\ bd[p] \in Nat /\ bd[w] \in Nat /\ BlackOne(t, p) \in {0, 1}
            BY <1>1, <1>3, <1>6 DEF BlackOne
        <3>2. QED BY <1>3, <3>1
    <2>2. QED BY <1>2, <1>3, <1>6, <2>1 DEF b
<1>8. \A a \in U, s \in Sides : t.kid[a][s] \in U \cup {Nil} /\ t.kid[a][s] # a
    BY <1>1, HungOnce
<1>9. Opposite(side) \in Sides /\ Opposite(side) # side /\ \A s \in Sides : s = side \/ s = Opposite(side)
    BY <1>3, TwoSides
<1>10. \A a \in U, s \in Sides : t.kid[a][s] = w => a = p /\ s = Opposite(side)
    <2>1. TAKE a \in U, s \in Sides
    <2>2. HAVE t.kid[a][s] = w
    <2>3. w # Nil
        BY <1>2, <1>3
    <2>4. QED BY <1>1, <1>3, <1>9, <2>2, <2>3, HungAtOne
<1>11. \A s \in Sides : t.kid[w][s] # p
    <2>1. w # Nil
        BY <1>2, <1>3
    <2>2. QED BY <1>1, <1>3, <1>9, <2>1, KidFacts
<1>12. \A a \in U, s \in Sides : t.kid[a][s] = p => a = q /\ s = sq /\ p # t.root
    <2>1. p # Nil
        BY <1>2, <1>3
    <2>2. QED BY <1>1, <2>1, KidFacts
<1>13. p # t.root => q \in U /\ sq \in Sides /\ t.kid[q][sq] = p
    BY <1>1, <1>3, ParentFacts
<1>14. p = t.root => q = Nil
    BY <1>1, <1>3, ParentFacts
<1> HIDE DEF q, sq
<1>15. ASSUME NEW a \in U, NEW s \in Sides PROVE b[a] = b[u.kid[a][s]] + BlackOne(u, a) + Gap(a, s, q, sq)
    <2> DEFINE m == t.kid[a][s]
    <2>1. /\ u.kid[a][s] = m /\ m \in U \cup {Nil} /\ m # a
          /\ bd[a] = bd[m] + BlackOne(t, a) + Gap(a, s, p, side) /\ bd[a] \in Nat /\ bd[m] \in Nat
          /\ BlackOne(t, a) \in {0, 1} /\ BlackOne(u, a) \in {0, 1}
        <3>1. u.kid[a][s] = m /\ m \in U \cup {Nil} /\ m # a
            BY <1>4, <1>8 DEF SameLinks
        <3>2. QED BY <1>6, <3>1 DEF BlackOne
    <2>2. CASE a = w
        <3>1. Gap(a, s, p, side) = 0 /\ BlackOne(t, a) = 1 /\ BlackOne(u, a) = 0
            BY <1>3, <1>4, <2>2 DEF Gap, BlackOne
        <3>2. Gap(a, s, q, sq) = 0
            BY <1>11, <1>13, <1>14, <1>2, <2>2 DEF Gap
        <3>3. m \notin {w, p}
            BY <1>11, <2>1, <2>2
        <3>4. b[a] = bd[a] - 1 /\ b[m] = bd[m]
            BY ZenonT(30), <1>7, <2>1, <2>2, <3>3
        <3>5. QED BY <2>1, <3>1, <3>2, <3>4
    <2>3. CASE a = p
        <3>1. Gap(a, s, q, sq) = 0 /\ BlackOne(u, a) = BlackOne(t, a) /\ b[a] = bd[a] - 1
            BY <1>2, <1>3, <1>4, <1>7, <1>8, <1>13, <1>14, <2>3 DEF Gap, BlackOne
        <3>2. CASE s = side
            <4>1. m = x /\ m \notin {w, p}
                BY <1>3, <2>1, <2>3, <3>2
            <4>2. Gap(a, s, p, side) = 1 /\ b[m] = bd[m]
                BY <1>7, <2>1, <2>3, <3>2, <4>1 DEF Gap
            <4>3. QED BY <2>1, <3>1, <4>2
        <3>3. CASE s = Opposite(side)
            <4>1. m = w
                BY <2>3, <3>3
            <4>2. Gap(a, s, p, side) = 0 /\ b[m] = bd[m] - 1
                BY <1>7, <1>9, <2>3, <3>3, <4>1 DEF Gap
            <4>3. QED BY <2>1, <3>1, <4>2
        <3>4. QED BY <1>9, <3>2, <3>3
    <2>4. CASE a \notin {w, p}
        <3>1. Gap(a, s, p, side) = 0 /\ BlackOne(u, a) = BlackOne(t, a) /\ b[a] = bd[a] /\ m # w
            BY <1>4, <1>7, <1>10, <2>4 DEF Gap, BlackOne
        <3>2. CASE m = p
            <4>1. Gap(a, s, q, sq) = 1 /\ b[m] = bd[m] - 1
                BY <1>7, <1>12, <3>2 DEF Gap
            <4>2. QED BY <2>1, <3>1, <4>1
        <3>3. CASE m # p
            <4>1. Gap(a, s, q, sq) = 0
                BY <1>13, <1>14, <1>2, <3>3 DEF Gap
            <4>2. b[m] = bd[m]
                BY <1>7, <2>1, <3>1, <3>3
            <4>3. QED BY <2>1, <3>1, <4>1, <4>2
        <3>4. QED BY <3>2, <3>3
    <2>5. QED BY <2>2, <2>3, <2>4
<1>16. Depths(u, U, b, q, sq)
    BY ZenonT(30), <1>7, <1>15 DEF Depths
<1>17. ASSUME NEW a \in U, NEW s \in Sides, a # p, t.kid[a][s] # p PROVE RedApart(u, a, s)
    <2>1. RedApart(t, a, s) /\ t.kid[a][s] # w
        BY <1>3, <1>10, <1>17
    <2>2. CASE a = w
        BY <1>4, <2>1, <2>2 DEF RedApart, SameLinks
    <2>3. CASE a # w
        BY <1>4, <2>1, <2>3 DEF RedApart, SameLinks
    <2>4. QED BY <2>2, <2>3
<1>18. u.root \notin u.red
    <2>1. t.root # w
        BY <1>1, <1>2, <1>3, <1>9, HungBelow
    <2>2. QED BY <1>3, <1>4, <2>1 DEF SameLinks
<1>19. (p = u.root /\ q = Nil) \/ (q \in U /\ sq \in Sides /\ u.kid[q][sq] = p /\ u.parent[p] = q)
    BY <1>4, <1>13, <1>14 DEF SameLinks, q
<1>20. Short(u, U, N, pos, edge, b, p, q, sq)
    <2>1. \A a \in U, s \in Sides : a # p /\ u.kid[a][s] # p => RedApart(u, a, s)
        BY <1>4, <1>17 DEF SameLinks
    <2>2. u.red \subseteq U
        BY <1>1, <1>3, <1>4
    <2>3. QED BY ZenonT(30), <1>3, <1>5, <1>16, <1>18, <1>19, <2>1, <2>2 DEF Short
<1>21. SameItems(t, u)
    BY <1>4 DEF SameLinks, SameItems
<1>22. QED BY <1>4, <1>20, <1>21

\* The last turn in links and colours.
LEMMA LastTurnIs ==
    ASSUME NEW t, NEW U, NEW N, NEW pos, NEW edge, InOrder(t, U, N, pos, edge), t.red \subseteq U,
           NEW p \in U, NEW side \in Sides, NEW w, w = t.kid[p][Opposite(side)], w \in U, w \notin t.red,
           NEW far, far = t.kid[w][Opposite(side)], far \in t.red,
           NEW u, u = DeleteEnd(t, p, w, side), t.root \notin t.red
    PROVE  /\ InOrder(u, U, N, pos, Turned(edge, U, pos, p, w, side)) /\ SameItems(t, u)
           /\ u.red = (IF p \in t.red THEN t.red \cup {w} ELSE t.red) \ {p, far}
           /\ u.root = IF t.root = p THEN w ELSE t.root
           /\ \A a \in U, s \in Sides :
                 u.kid[a][s] = IF a = p /\ s = Opposite(side) THEN t.kid[w][side]
                               ELSE IF a = w /\ s = side THEN p
                               ELSE IF t.kid[a][s] = p THEN w ELSE t.kid[a][s]
<1> DEFINE e == Turned(edge, U, pos, p, w, side)
           c1 == IF p \in t.red THEN Redden(t, w) ELSE Blacken(t, w)
           c2 == Blacken(c1, p)
           c3 == Blacken(c2, far)
           done == Rotate(c3, p, side)
<1>1. t \in Tree /\ U \subseteq Links /\ Nil \notin U /\ far \in U /\ p \in Links /\ w \in Links /\ far \in Links /\ w # p
      /\ w # Nil /\ far # w
    <2>1. Opposite(side) \in Sides
        BY TwoSides
    <2>2. t \in Tree /\ U \subseteq Links /\ Nil \notin U
        BY HungOnce
    <2>3. w # Nil /\ w # p
        BY <2>1, <2>2, HungBelow
    <2>4. far # w /\ far \in U
        BY <2>1, <2>2, HungOnce
    <2>5. QED BY <2>2, <2>3, <2>4
<1>2. c1 \in Tree /\ SameLinks(t, c1) /\ c1.red = IF p \in t.red THEN t.red \cup {w} ELSE t.red \ {w}
    BY <1>1, ColourFields
<1> HIDE DEF c1
<1>3. c2 \in Tree /\ SameLinks(c1, c2) /\ c2.red = c1.red \ {p}
    BY <1>1, <1>2, ColourFields
<1> HIDE DEF c2
<1>4. c3 \in Tree /\ SameLinks(c2, c3) /\ c3.red = c2.red \ {far}
    BY <1>1, <1>3, ColourFields
<1>5. u = Blacken(done, done.root)
    BY DEF DeleteEnd, LastTurn, c1, c2
<1> HIDE DEF c3
<1>6. SameLinks(t, c3)
    BY <1>2, <1>3, <1>4 DEF SameLinks
<1>7. c3.red = (IF p \in t.red THEN t.red \cup {w} ELSE t.red) \ {p, far}
    BY <1>2, <1>3, <1>4
<1>8. InOrder(c3, U, N, pos, edge)
    BY <1>4, <1>6, SameLinksSameOrder
<1>9. w = c3.kid[p][Opposite(side)]
    BY <1>6 DEF SameLinks
<1>10. InOrder(done, U, N, pos, e) /\ KidsTurned(c3, U, p, side, w, done)
    BY <1>1, <1>8, <1>9, RotateKeepsOrder, RotateKids
<1> HIDE DEF done, e
<1>11. /\ \A a \in U, s \in Sides :
             done.kid[a][s] = IF a = p /\ s = Opposite(side) THEN t.kid[w][side]
                               ELSE IF a = w /\ s = side THEN p
                               ELSE IF t.kid[a][s] = p THEN w ELSE t.kid[a][s]
       /\ done.root = IF t.root = p THEN w ELSE t.root
    BY ONLY <1>6, <1>10 DEF KidsTurned, SameLinks
<1>12. done.red = c3.red /\ SameItems(t, done) /\ done \in Tree
    BY ONLY <1>6, <1>10 DEF KidsTurned, SameLinks, SameData, SameItems
<1>13. done.root \notin done.red
    <2>1. CASE t.root = p
        BY <1>7, <1>11, <1>12, <2>1
    <2>2. CASE t.root # p
        <3>1. done.root = t.root
            BY <1>11, <2>2
        <3>2. t.root # w
            BY <1>1, HungBelow, TwoSides
        <3>3. t.root \notin c3.red
            BY <1>7, <3>2
        <3>4. QED BY <1>12, <3>1, <3>3
    <2>3. QED BY <2>1, <2>2
<1>14. done.root \in Links
    BY <1>12, TreeFields
<1>15. u \in Tree /\ SameLinks(done, u) /\ u.red = done.red \ {done.root}
    BY <1>5, <1>12, <1>14, ColourFields
<1>16. InOrder(u, U, N, pos, e)
    BY <1>10, <1>15, SameLinksSameOrder
<1>17. u.red = (IF p \in t.red THEN t.red \cup {w} ELSE t.red) \ {p, far}
    BY <1>7, <1>12, <1>13, <1>15
<1>18. SameItems(t, u)
    BY <1>12, <1>15 DEF SameLinks, SameItems
<1>19. u.kid = done.kid /\ u.root = done.root
    BY <1>15 DEF SameLinks
<1>20. QED BY <1>11, <1>16, <1>17, <1>18, <1>19 DEF e

\* With a red outer child of a black sibling the last turn fills the gap.
LEMMA DeleteTurns ==
    ASSUME NEW t, NEW U, NEW N, NEW pos, NEW edge, NEW bd, NEW x, NEW p, NEW side,
           Short(t, U, N, pos, edge, bd, x, p, side), x # t.root, x \notin t.red,
           NEW w, w = t.kid[p][Opposite(side)], w \notin t.red, t.kid[w][Opposite(side)] \in t.red
    PROVE  BalancedAs(t, DeleteEnd(t, p, w, side), U, N, pos)
<1> DEFINE other == Opposite(side)
           far == t.kid[w][other]
           inner == t.kid[w][side]
           e == Turned(edge, U, pos, p, w, side)
           u == DeleteEnd(t, p, w, side)
           b == [n \in U \cup {Nil} |-> IF n = w THEN bd[p] ELSE IF n \in {p, far} THEN bd[w] ELSE bd[n]]
<1>1. InOrder(t, U, N, pos, edge) /\ Depths(t, U, bd, p, side) /\ t.red \subseteq U /\ x \in U \cup {Nil}
    BY DEF Short
<1>2. t \in Tree /\ U \subseteq Links /\ Nil \notin U /\ Nil \notin t.red /\ t.root \in U
    BY ShortPlace
<1>3. /\ p \in U /\ side \in Sides /\ t.kid[p][side] = x /\ t.parent[x] = p
      /\ w \in U /\ w # x /\ w # p /\ bd[w] = bd[x] + 1 /\ bd[p] = bd[w] + BlackOne(t, p)
      /\ \A a \in U, s \in Sides : RedApart(t, a, s)
      /\ t.root \notin t.red
    BY ShortSibling
<1>4. other \in Sides /\ other # side /\ \A s \in Sides : s = side \/ s = other
    BY <1>3, TwoSides
<1>5. /\ InOrder(u, U, N, pos, e) /\ SameItems(t, u)
      /\ u.red = (IF p \in t.red THEN t.red \cup {w} ELSE t.red) \ {p, far}
      /\ u.root = IF t.root = p THEN w ELSE t.root
      /\ \A a \in U, s \in Sides :
            u.kid[a][s] = IF a = p /\ s = other THEN inner
                          ELSE IF a = w /\ s = side THEN p
                          ELSE IF t.kid[a][s] = p THEN w ELSE t.kid[a][s]
    <2> HIDE DEF u
    <2>1. u = DeleteEnd(t, p, w, side) /\ far \in t.red
        BY DEF u
    <2>2. QED BY <1>1, <1>3, <2>1, LastTurnIs
<1> HIDE DEF u, e, b
<1>6. /\ bd \in [U \cup {Nil} -> Nat] /\ bd[Nil] = 0
      /\ \A n \in U, s \in Sides : bd[n] = bd[t.kid[n][s]] + BlackOne(t, n) + Gap(n, s, p, side)
    BY <1>1 DEF Depths
<1>7. \A a \in U, s \in Sides : t.kid[a][s] \in U \cup {Nil} /\ t.kid[a][s] # a
    BY <1>1, HungOnce
<1>8. \A a \in U, s \in Sides : t.kid[a][s] = w => a = p /\ s = other
    <2>1. TAKE a \in U, s \in Sides
    <2>2. HAVE t.kid[a][s] = w
    <2>3. w # Nil
        BY <1>2, <1>3
    <2>4. QED BY <1>1, <1>3, <1>4, <2>2, <2>3, HungAtOne
<1>9. far \in U /\ far \in t.red
    BY <1>1
<1>10. \A a \in U, s \in Sides : t.kid[a][s] = far => a = w /\ s = other
    <2>1. TAKE a \in U, s \in Sides
    <2>2. HAVE t.kid[a][s] = far
    <2>3. far # Nil
        BY <1>2, <1>9
    <2>4. QED BY <1>1, <1>3, <1>4, <2>2, <2>3, HungAtOne
<1>11. /\ \A s \in Sides : t.kid[w][s] # p /\ t.kid[far][s] # w
       /\ far # w /\ far # p /\ inner # p /\ inner # w /\ inner # far
    <2>1. w # Nil /\ far # Nil
        BY <1>2, <1>3, <1>9
    <2>2. \A s \in Sides : t.kid[w][s] # p
        BY <1>1, <1>3, <1>4, <2>1, KidFacts
    <2>3. \A s \in Sides : t.kid[far][s] # w
        BY <1>1, <1>3, <1>4, <2>1, KidFacts
    <2>4. far # w /\ far # p /\ inner # p /\ inner # w
        BY <1>3, <1>4, <1>7, <2>2
    <2>5. inner # far
        BY <1>3, <1>4, <1>10
    <2>6. QED BY ZenonT(30), <2>2, <2>3, <2>4, <2>5
<1>12. far # x /\ \A s \in Sides : t.kid[far][s] # far /\ t.kid[far][s] # p
    <2>1. far # x
        BY <1>9
    <2>2. ASSUME NEW s \in Sides, t.kid[far][s] = p PROVE FALSE
        <3>1. far = t.parent[p]
            BY <1>1, <1>2, <1>3, <1>9, <2>2, HungBelow
        <3>2. p # t.root
            BY <1>1, <1>2, <1>3, <1>9, <2>2, HungBelow
        <3>3. edge[p][s] = edge[far][s] /\ edge[p][Opposite(s)] = Beyond(pos[far], s)
            BY <1>1, <1>2, <1>3, <1>9, <2>2, KidFacts
        <3>4. edge[w][other] = edge[p][other] /\ edge[w][side] = Beyond(pos[p], other)
            BY <1>1, <1>2, <1>3, <1>4, KidFacts, TwoSides
        <3>5. edge[far][other] = edge[w][other] /\ edge[far][side] = Beyond(pos[w], other)
            BY <1>1, <1>2, <1>3, <1>4, <1>9, KidFacts, TwoSides
        <3>6. \A m \in U : /\ pos[m] \in Int /\ edge[m][Left] \in Int /\ edge[m][Right] \in Int
                           /\ edge[m][Left] <= pos[m] /\ pos[m] <= edge[m][Right]
            <4>1. Placed(U, N, pos, edge)
                BY <1>1 DEF InOrder
            <4>2. \A m \in U : edge[m][Left] <= pos[m] /\ pos[m] <= edge[m][Right]
                BY <4>1 DEF Placed
            <4>3. QED BY <4>1, <4>2, PlacedNumbers, SidesAre
        <3>7. QED BY <1>3, <1>4, <1>9, <3>3, <3>4, <3>5, <3>6, SidesAre DEF Beyond
    <2>3. QED BY ZenonT(30), <1>7, <1>9, <2>1, <2>2
<1>13. /\ b \in [U \cup {Nil} -> Nat] /\ b[Nil] = 0 /\ b[w] = bd[p] /\ b[p] = bd[w] /\ b[far] = bd[w]
       /\ \A n \in U \cup {Nil} : n \notin {w, p, far} => b[n] = bd[n]
    <2>1. bd[w] \in Nat /\ bd[p] \in Nat
        BY <1>3, <1>6
    <2>2. QED BY ZenonT(30), <1>2, <1>3, <1>6, <1>9, <1>11, <2>1 DEF b
<1>14. /\ bd[x] \in Nat /\ bd[p] \in Nat /\ bd[w] \in Nat /\ bd[far] \in Nat /\ bd[inner] \in Nat
       /\ bd[w] = bd[far] + 1 /\ bd[w] = bd[inner] + 1
    <2>1. inner \in U \cup {Nil}
        BY <1>3, <1>7
    <2>2. bd[x] \in Nat /\ bd[p] \in Nat /\ bd[w] \in Nat /\ bd[far] \in Nat /\ bd[inner] \in Nat
        BY <1>1, <1>3, <1>6, <1>9, <2>1
    <2>3. BlackOne(t, w) = 1 /\ \A s \in Sides : Gap(w, s, p, side) = 0
        BY <1>3 DEF BlackOne, Gap
    <2>4. /\ bd[w] = bd[inner] + BlackOne(t, w) + Gap(w, side, p, side)
          /\ bd[w] = bd[far] + BlackOne(t, w) + Gap(w, other, p, side)
        BY <1>3, <1>4, <1>6
    <2>5. Gap(w, side, p, side) = 0 /\ Gap(w, other, p, side) = 0
        BY <1>3, <1>4, <2>3
    <2>6. QED BY <2>2, <2>3, <2>4, <2>5
<1>15. /\ BlackOne(u, p) = 1 /\ BlackOne(u, far) = 1 /\ BlackOne(u, w) = BlackOne(t, p) /\ BlackOne(t, p) \in {0, 1}
       /\ BlackOne(t, far) = 0
       /\ \A n \in U : n \notin {w, p, far} => BlackOne(u, n) = BlackOne(t, n)
    BY ZenonT(30), <1>3, <1>5, <1>9, <1>11 DEF BlackOne
<1>16. ASSUME NEW a \in U, NEW s \in Sides PROVE b[a] = b[u.kid[a][s]] + BlackOne(u, a)
    <2>1. CASE a = p /\ s = other
        <3>1. u.kid[a][s] = inner /\ b[inner] = bd[inner] /\ b[a] = bd[w] /\ BlackOne(u, a) = 1
            BY ZenonT(30), <1>3, <1>5, <1>7, <1>11, <1>13, <1>15, <2>1
        <3>2. QED BY ONLY <1>14, <3>1
    <2>2. CASE a = p /\ s = side
        <3>1. u.kid[a][s] = x
            BY <1>3, <1>4, <1>5, <1>7, <2>2
        <3>2. x # p
            BY <1>3, <1>7
        <3>3. b[x] = bd[x] /\ b[a] = bd[w] /\ BlackOne(u, a) = 1
            BY ZenonT(30), <1>1, <1>3, <1>12, <1>13, <1>15, <2>2, <3>2
        <3>4. QED BY ONLY <1>3, <1>14, <3>1, <3>3
    <2>3. CASE a = w /\ s = side
        <3>1. u.kid[a][s] = p /\ b[a] = bd[p] /\ b[p] = bd[w] /\ BlackOne(u, a) = BlackOne(t, p)
            BY ZenonT(30), <1>3, <1>5, <1>13, <1>15, <2>3
        <3>2. bd[p] = bd[w] + BlackOne(t, p)
            BY <1>3
        <3>3. QED BY ONLY <3>1, <3>2
    <2>4. CASE a = w /\ s = other
        <3>1. u.kid[a][s] = far
            BY ZenonT(30), <1>3, <1>4, <1>5, <1>11, <2>4
        <3>2. b[a] = bd[p] /\ b[far] = bd[w] /\ BlackOne(u, a) = BlackOne(t, p)
            BY ZenonT(30), <1>13, <1>15, <2>4
        <3>3. bd[p] = bd[w] + BlackOne(t, p)
            BY <1>3
        <3>4. QED BY ONLY <3>1, <3>2, <3>3
    <2>5. CASE a = far
        <3>1. u.kid[a][s] = t.kid[far][s] /\ t.kid[far][s] \notin {w, p, far} /\ t.kid[far][s] \in U \cup {Nil}
            <4>1. t.kid[far][s] \notin {w, p, far} /\ t.kid[far][s] \in U \cup {Nil}
                BY ZenonT(30), <1>7, <1>9, <1>11, <1>12
            <4>2. ~(a = p /\ s = other) /\ ~(a = w /\ s = side) /\ t.kid[a][s] # p
                BY ZenonT(30), <1>11, <2>5, <4>1
            <4>3. u.kid[a][s] = t.kid[a][s]
                BY <1>5, <4>2
            <4>4. QED BY ZenonT(30), <2>5, <4>1, <4>3
        <3>2. b[t.kid[far][s]] = bd[t.kid[far][s]] /\ bd[t.kid[far][s]] \in Nat
            BY ZenonT(30), <1>6, <1>13, <3>1
        <3>3. bd[far] = bd[t.kid[far][s]] + BlackOne(t, far) + Gap(far, s, p, side) /\ Gap(far, s, p, side) = 0
            BY ZenonT(30), <1>6, <1>9, <1>11 DEF Gap
        <3>4. b[a] = bd[w] /\ BlackOne(u, a) = 1 /\ BlackOne(t, far) = 0
            BY <1>13, <1>15, <2>5
        <3>5. QED BY ONLY <1>14, <3>1, <3>2, <3>3, <3>4
    <2>6. CASE a \notin {w, p, far}
        <3>1. b[a] = bd[a] /\ BlackOne(u, a) = BlackOne(t, a) /\ Gap(a, s, p, side) = 0 /\ BlackOne(t, a) \in {0, 1}
            BY <1>13, <1>15, <2>6 DEF Gap, BlackOne
        <3>2. t.kid[a][s] \notin {w, far} /\ t.kid[a][s] \in U \cup {Nil}
            BY <1>7, <1>8, <1>10, <2>6
        <3>3. b[u.kid[a][s]] = bd[t.kid[a][s]] /\ bd[t.kid[a][s]] \in Nat
            <4>1. CASE t.kid[a][s] = p
                BY ZenonT(30), <1>5, <1>13, <1>14, <2>6, <4>1
            <4>2. CASE t.kid[a][s] # p
                <5>1. u.kid[a][s] = t.kid[a][s]
                    BY ZenonT(30), <1>5, <2>6, <4>2
                <5>2. bd[t.kid[a][s]] \in Nat
                    BY <1>6, <3>2
                <5>3. b[t.kid[a][s]] = bd[t.kid[a][s]]
                    BY ZenonT(30), <1>13, <3>2, <4>2
                <5>4. QED BY ONLY <5>1, <5>2, <5>3
            <4>3. QED BY <4>1, <4>2
        <3>4. bd[a] = bd[t.kid[a][s]] + BlackOne(t, a) + Gap(a, s, p, side)
            BY <1>6
        <3>5. QED BY ONLY <3>1, <3>3, <3>4
    <2>7. QED BY <1>4, <2>1, <2>2, <2>3, <2>4, <2>5, <2>6
<1>17. Levels(u, U, b)
    <2>1. u.red \subseteq U
        BY <1>1, <1>3, <1>5
    <2>2. QED BY <1>13, <1>16, <2>1 DEF Levels
<1>18. ASSUME NEW a \in U, NEW s \in Sides PROVE RedApart(u, a, s)
    <2>1. p \notin u.red /\ far \notin u.red /\ (w \in u.red => p \in t.red)
        BY <1>5
    <2>2. CASE a = p
        BY <2>1, <2>2 DEF RedApart
    <2>3. CASE a = w
        <3>1. s = side => u.kid[a][s] = p
            BY <1>3, <1>5, <2>3
        <3>2. s = other => u.kid[a][s] = far
            BY ZenonT(30), <1>3, <1>4, <1>5, <1>11, <2>3
        <3>3. QED BY <1>4, <2>1, <3>1, <3>2 DEF RedApart
    <2>4. CASE a \notin {p, w}
        <3>1. RedApart(t, a, s)
            BY <1>3
        <3>2. a \in u.red => a \in t.red
            BY <1>5, <2>4
        <3>3. u.kid[a][s] = IF t.kid[a][s] = p THEN w ELSE t.kid[a][s]
            BY <1>5, <2>4
        <3>4. t.kid[a][s] # w
            BY <1>8, <2>4
        <3>5. u.kid[a][s] \in u.red => t.kid[a][s] \in t.red
            BY <1>5, <2>1, <3>3, <3>4
        <3>6. QED BY <3>1, <3>2, <3>5 DEF RedApart
    <2>5. QED BY <2>2, <2>3, <2>4
<1>19. u.root \notin u.red
    <2>1. t.root # w
        BY <1>1, <1>2, <1>3, <1>4, HungBelow
    <2>2. QED BY <1>3, <1>5, <2>1
<1>20. Balanced(u, U, N, pos, e, b)
    BY <1>5, <1>17, <1>18, <1>19 DEF Balanced
<1>21. QED BY <1>5, <1>20 DEF BalancedAs, u

\* One round of the loop of RBDeleteFixup.
LEMMA ShortRound ==
    ASSUME NEW t, NEW U, NEW N, NEW pos, NEW edge, NEW bd, NEW x, NEW p, NEW side,
           Short(t, U, N, pos, edge, bd, x, p, side), x # t.root, x \notin t.red,
           NEW w, w = t.kid[p][Opposite(side)]
    PROVE  DeleteFixup[<<t, x>>] =
             IF w \notin t.red /\ t.kid[w][Opposite(side)] \in t.red THEN DeleteEnd(t, p, w, side)
             ELSE DeleteFixup[DeleteStep(t, x, p, w, side)]
<1>1. t \in Tree /\ x \in Links /\ t.parent[x] = p
    BY ShortPlace
<1>2. SideOf(t, x) = side
    BY ShortSibling
<1>3. QED BY <1>1, <1>2, DeleteFixupIs

LEMMA FixupFinishes ==
    ASSUME NEW t, NEW U, NEW N, NEW pos, NEW edge, NEW bd, NEW x, NEW p, NEW side,
           Short(t, U, N, pos, edge, bd, x, p, side), x = t.root \/ x \in t.red
    PROVE  BalancedAs(t, DeleteFixup[<<t, x>>], U, N, pos)
<1>1. t \in Tree /\ x \in Links
    BY ShortPlace
<1>2. DeleteFixup[<<t, x>>] = Blacken(t, x)
    BY <1>1, DeleteFixupIs
<1>3. QED BY <1>2, DeleteEnds

LEMMA FixupTurns ==
    ASSUME NEW t, NEW U, NEW N, NEW pos, NEW edge, NEW bd, NEW x, NEW p, NEW side,
           Short(t, U, N, pos, edge, bd, x, p, side), x # t.root, x \notin t.red,
           NEW w, w = t.kid[p][Opposite(side)], w \notin t.red, t.kid[w][Opposite(side)] \in t.red
    PROVE  BalancedAs(t, DeleteFixup[<<t, x>>], U, N, pos)
<1>1. DeleteFixup[<<t, x>>] = DeleteEnd(t, p, w, side)
    BY ShortRound
<1>2. QED BY <1>1, DeleteTurns

\* A red inner child of the sibling is turned outside.
LEMMA FixupTurnsTwice ==
    ASSUME NEW t, NEW U, NEW N, NEW pos, NEW edge, NEW bd, NEW x, NEW p, NEW side,
           Short(t, U, N, pos, edge, bd, x, p, side), x # t.root, x \notin t.red,
           NEW w, w = t.kid[p][Opposite(side)], w \notin t.red,
           NEW s \in Sides, t.kid[w][s] \in t.red
    PROVE  BalancedAs(t, DeleteFixup[<<t, x>>], U, N, pos)
<1> DEFINE other == Opposite(side)
           inner == t.kid[w][side]
           u == Rotate(Redden(Blacken(t, inner), w), w, other)
<1>1. SUFFICES ASSUME t.kid[w][other] \notin t.red PROVE BalancedAs(t, DeleteFixup[<<t, x>>], U, N, pos)
    BY FixupTurns
<1>2. /\ p \in U /\ side \in Sides /\ t.kid[p][side] = x /\ w \in U /\ w # x /\ w # p
      /\ InOrder(t, U, N, pos, edge)
    BY ShortSibling DEF Short
<1>3. other \in Sides /\ other # side /\ Opposite(other) = side /\ (s = side \/ s = other)
    BY <1>2, TwoSides
<1>4. inner \in t.red /\ inner = t.kid[w][Opposite(other)]
    BY <1>1, <1>3
<1>5. p # inner
    <2>1. w # Nil
        BY <1>2, HungOnce
    <2>2. QED BY <1>2, <1>3, <2>1, KidFacts
<1>6. DeleteFixup[<<t, x>>] = DeleteFixup[<<u, x>>]
    <2>1. DeleteFixup[<<t, x>>] = DeleteFixup[DeleteStep(t, x, p, w, side)]
        BY <1>1, ShortRound
    <2>2. DeleteStep(t, x, p, w, side) = <<u, x>>
        BY <1>4 DEF DeleteStep
    <2>3. QED BY <2>1, <2>2
<1>7. /\ Exchanged(t, U, w, other, inner, u) /\ x # u.root /\ x \notin u.red
      /\ \E e, b : Short(u, U, N, pos, e, b, x, p, side)
    <2>1. u = Rotate(Redden(Blacken(t, inner), w), w, other)
        OBVIOUS
    <2> HIDE DEF u, inner, other
    <2>2. p \notin {w, inner} /\ x # w
        BY <1>2, <1>5
    <2>3. QED BY <1>1, <1>2, <1>3, <1>4, <2>1, <2>2, ShortExchange
<1> HIDE DEF u
<1>8. inner # w /\ inner \in U
    <2>1. inner # Nil
        BY <1>4, ShortPlace
    <2>2. QED BY <1>2, <2>1, HungBelow
<1>9. /\ u.kid[p][other] = inner /\ u.kid[inner][other] = w
      /\ inner \notin u.red /\ w \in u.red /\ SameItems(t, u)
    BY ZenonT(30), <1>2, <1>3, <1>5, <1>7, <1>8 DEF Exchanged
<1> HIDE DEF inner
<1>10. PICK e, b : Short(u, U, N, pos, e, b, x, p, side)
    BY <1>7
<1>11. BalancedAs(u, DeleteFixup[<<u, x>>], U, N, pos)
    BY <1>7, <1>9, <1>10, FixupTurns
<1>12. QED BY <1>6, <1>9, <1>11 DEF BalancedAs, SameItems

LEMMA FixupClimbsUp ==
    ASSUME NEW t, NEW U, NEW N, NEW pos, NEW edge, NEW bd, NEW x, NEW p, NEW side,
           Short(t, U, N, pos, edge, bd, x, p, side), x # t.root, x \notin t.red,
           NEW w, w = t.kid[p][Opposite(side)], w \notin t.red, \A s \in Sides : t.kid[w][s] \notin t.red
    PROVE  /\ DeleteFixup[<<t, x>>] = DeleteFixup[<<Redden(t, w), p>>]
           /\ SameItems(t, Redden(t, w)) /\ (p \in t.red => p \in Redden(t, w).red)
           /\ \E b, q, s : Short(Redden(t, w), U, N, pos, edge, b, p, q, s)
<1>1. side \in Sides /\ Opposite(side) \in Sides
    BY ShortSibling, TwoSides
<1>2. DeleteFixup[<<t, x>>] = DeleteFixup[DeleteStep(t, x, p, w, side)]
    BY <1>1, ShortRound
<1>3. DeleteStep(t, x, p, w, side) = <<Redden(t, w), p>>
    BY <1>1 DEF DeleteStep
<1>4. QED BY <1>2, <1>3, ShortClimbs

\* Below a red node the loop ends soon.
LEMMA FixupBelowRed ==
    ASSUME NEW t, NEW U, NEW N, NEW pos, NEW edge, NEW bd, NEW x, NEW p, NEW side,
           Short(t, U, N, pos, edge, bd, x, p, side), x # t.root, x \notin t.red, p \in t.red
    PROVE  BalancedAs(t, DeleteFixup[<<t, x>>], U, N, pos)
<1> DEFINE w == t.kid[p][Opposite(side)]
           u == Redden(t, w)
<1>1. side \in Sides /\ Opposite(side) \in Sides /\ p \in U /\ \A a \in U, s \in Sides : RedApart(t, a, s)
    BY ShortSibling, TwoSides
<1>2. w \notin t.red
    BY <1>1 DEF RedApart
<1>3. SUFFICES ASSUME \A s \in Sides : t.kid[w][s] \notin t.red PROVE BalancedAs(t, DeleteFixup[<<t, x>>], U, N, pos)
    BY <1>2, FixupTurnsTwice
<1>4. /\ DeleteFixup[<<t, x>>] = DeleteFixup[<<u, p>>] /\ SameItems(t, u) /\ p \in u.red
      /\ \E b, q, s : Short(u, U, N, pos, edge, b, p, q, s)
    BY <1>2, <1>3, FixupClimbsUp
<1> HIDE DEF u
<1>5. BalancedAs(u, DeleteFixup[<<u, p>>], U, N, pos)
    BY <1>4, FixupFinishes
<1>6. QED BY <1>4, <1>5 DEF BalancedAs, SameItems

\* A red sibling is turned into a black one below a red node.
LEMMA FixupRedSibling ==
    ASSUME NEW t, NEW U, NEW N, NEW pos, NEW edge, NEW bd, NEW x, NEW p, NEW side,
           Short(t, U, N, pos, edge, bd, x, p, side), x # t.root, x \notin t.red,
           NEW w, w = t.kid[p][Opposite(side)], w \in t.red
    PROVE  BalancedAs(t, DeleteFixup[<<t, x>>], U, N, pos)
<1> DEFINE u == Rotate(Redden(Blacken(t, w), p), p, side)
<1>1. /\ side \in Sides /\ Opposite(side) \in Sides /\ p \in U /\ t.kid[p][side] = x /\ x # p
      /\ \A a \in U, s \in Sides : RedApart(t, a, s)
    BY ShortSibling, ShortPlace, TwoSides
<1>2. p \notin t.red
    BY <1>1 DEF RedApart
<1>3. DeleteFixup[<<t, x>>] = DeleteFixup[<<u, x>>]
    <2>1. DeleteFixup[<<t, x>>] = DeleteFixup[DeleteStep(t, x, p, w, side)]
        BY ShortRound
    <2>2. DeleteStep(t, x, p, w, side) = <<u, x>>
        BY DEF DeleteStep
    <2>3. QED BY <2>1, <2>2
<1>4. /\ Exchanged(t, U, p, side, w, u) /\ x # u.root /\ x \notin u.red
      /\ \E e, b : Short(u, U, N, pos, e, b, x, p, side)
    <2>1. u = Rotate(Redden(Blacken(t, w), p), p, side)
        OBVIOUS
    <2> HIDE DEF u
    <2>2. t.kid[p][side] \notin t.red
        BY <1>1
    <2>3. QED BY <1>1, <1>2, <2>1, <2>2, ShortExchange
<1> HIDE DEF u
<1>5. p \in u.red /\ SameItems(t, u)
    BY <1>4 DEF Exchanged
<1>6. BalancedAs(u, DeleteFixup[<<u, x>>], U, N, pos)
    BY <1>4, <1>5, FixupBelowRed
<1>7. QED BY <1>3, <1>5, <1>6 DEF BalancedAs, SameItems

\* How many nodes hang at n, none at the sentinel.
Size(edge, n) == IF n = Nil THEN 0 ELSE Span(edge, n) + 1

LEMMA SizeBelow ==
    ASSUME NEW t, NEW U, NEW N, NEW pos, NEW edge, InOrder(t, U, N, pos, edge), NEW n \in U
    PROVE  /\ Size(edge, n) \in Nat /\ Size(edge, n) <= N + 1 /\ N \in Nat
           /\ \A s \in Sides : Size(edge, t.kid[n][s]) < Size(edge, n)
<1>1. n # Nil /\ \A s \in Sides : t.kid[n][s] \in U \cup {Nil}
    BY HungOnce, KidsAre
<1>2. Span(edge, n) \in Nat /\ Span(edge, n) <= N /\ N \in Nat
    BY SpanBelow
<1>3. ASSUME NEW s \in Sides PROVE Size(edge, t.kid[n][s]) < Size(edge, n)
    <2>1. CASE t.kid[n][s] = Nil
        BY <1>1, <1>2, <2>1 DEF Size
    <2>2. CASE t.kid[n][s] # Nil
        <3>1. t.kid[n][s] \in U
            BY <1>1, <2>2
        <3>2. Span(edge, t.kid[n][s]) \in Nat /\ Span(edge, t.kid[n][s]) < Span(edge, n)
            BY <2>2, <3>1, SpanBelow
        <3>3. QED BY <1>1, <1>2, <2>2, <3>2 DEF Size
    <2>3. QED BY <2>1, <2>2
<1>4. QED BY <1>1, <1>2, <1>3 DEF Size

\* The loop of RBDeleteFixup balances the tree.
LEMMA DeleteFixupBalances ==
    ASSUME NEW t0, NEW U, NEW N, NEW pos, NEW edge, NEW bd0, NEW x0, NEW p0, NEW side0,
           Short(t0, U, N, pos, edge, bd0, x0, p0, side0)
    PROVE  BalancedAs(t0, DeleteFixup[<<t0, x0>>], U, N, pos)
<1> DEFINE Fails(k) == \E t, bd, x, p, side :
                          /\ Short(t, U, N, pos, edge, bd, x, p, side) /\ k = N + 1 - Size(edge, x)
                          /\ ~BalancedAs(t, DeleteFixup[<<t, x>>], U, N, pos)
           K == {k \in Nat : Fails(k)}
<1>1. SUFFICES ASSUME ~BalancedAs(t0, DeleteFixup[<<t0, x0>>], U, N, pos) PROVE FALSE
    OBVIOUS
<1>2. \A t, bd, x, p, side : Short(t, U, N, pos, edge, bd, x, p, side) =>
          N + 1 - Size(edge, x) \in Nat /\ N \in Nat /\ Size(edge, x) \in Nat
    <2>1. TAKE t, bd, x, p, side
    <2>2. HAVE Short(t, U, N, pos, edge, bd, x, p, side)
    <2>3. InOrder(t, U, N, pos, edge) /\ x \in U \cup {Nil}
        BY <2>2 DEF Short
    <2>4. N \in Nat
        BY <2>3, PlacedNumbers DEF InOrder
    <2>5. CASE x = Nil
        BY <2>4, <2>5 DEF Size
    <2>6. CASE x \in U
        <3>1. Size(edge, x) \in Nat /\ Size(edge, x) <= N + 1
            BY <2>3, <2>6, SizeBelow
        <3>2. QED BY <2>4, <3>1
    <2>7. QED BY <2>3, <2>5, <2>6
<1>3. N + 1 - Size(edge, x0) \in K
    BY <1>1, <1>2
<1>4. PICK k \in K : \A j \in K : k <= j
    BY <1>3, LeastOf
<1>5. PICK t, bd, x, p, side :
           /\ Short(t, U, N, pos, edge, bd, x, p, side) /\ k = N + 1 - Size(edge, x)
           /\ ~BalancedAs(t, DeleteFixup[<<t, x>>], U, N, pos)
    BY <1>4
<1> DEFINE w == t.kid[p][Opposite(side)]
           u == Redden(t, w)
<1>6. x # t.root /\ x \notin t.red
    BY <1>5, FixupFinishes
<1>7. w \notin t.red
    BY <1>5, <1>6, FixupRedSibling
<1>8. \A s \in Sides : t.kid[w][s] \notin t.red
    BY <1>5, <1>6, <1>7, FixupTurnsTwice
<1>9. /\ DeleteFixup[<<t, x>>] = DeleteFixup[<<u, p>>] /\ SameItems(t, u)
      /\ \E b, q, s : Short(u, U, N, pos, edge, b, p, q, s)
    BY <1>5, <1>6, <1>7, <1>8, FixupClimbsUp
<1> HIDE DEF u
<1>10. ~BalancedAs(u, DeleteFixup[<<u, p>>], U, N, pos)
    BY <1>5, <1>9 DEF BalancedAs, SameItems
<1>11. N + 1 - Size(edge, p) \in K
    BY <1>2, <1>9, <1>10
<1>12. Size(edge, x) < Size(edge, p) /\ Size(edge, p) \in Nat
    <2>1. InOrder(t, U, N, pos, edge) /\ p \in U /\ side \in Sides /\ t.kid[p][side] = x
        BY <1>5, <1>6, ShortPlace DEF Short
    <2>2. QED BY <2>1, SizeBelow
<1>13. k <= N + 1 - Size(edge, p)
    BY <1>4, <1>11
<1>14. k = N + 1 - Size(edge, x) /\ N \in Nat /\ Size(edge, x) \in Nat
    BY <1>2, <1>5
<1>15. QED BY <1>12, <1>13, <1>14

\* u is t without y, whose only kid, or Nil, takes its place.
Unlinked(t, U, y, x, u) ==
    /\ u \in Tree /\ SameData(t, u)
    /\ u.root = IF t.root = y THEN x ELSE t.root
    /\ \A a \in Links : u.parent[a] = IF a = x THEN t.parent[y] ELSE t.parent[a]
    /\ \A a \in U, s \in Sides : u.kid[a][s] = IF t.kid[a][s] = y THEN x ELSE t.kid[a][s]
    /\ u.kid[Nil][Left] = Nil

LEMMA UnlinkFields ==
    ASSUME NEW t, NEW U, NEW N, NEW pos, NEW edge, InOrder(t, U, N, pos, edge), NEW y \in U,
           NEW c \in Sides, NEW x, x = t.kid[y][c],
           NEW u, u = Relink([t EXCEPT !.parent[x] = t.parent[y]], y, x)
    PROVE  Unlinked(t, U, y, x, u)
<1> DEFINE t1 == [t EXCEPT !.parent[x] = t.parent[y]]
<1>1. t \in Tree /\ U \subseteq Links /\ Nil \notin U /\ Nil \in Links /\ x \in U \cup {Nil} /\ x # y
    BY HungOnce DEF Links
<1>2. x \in Links /\ t.parent[y] \in Links /\ y \in Links
    BY <1>1, TreeFields
<1>3. ParentSet(t, x, t.parent[y], t1)
    BY <1>1, <1>2, SetParent
<1> HIDE DEF t1
<1>4. t1 \in Tree /\ SameData(t, t1) /\ t1.root = t.root /\ t1.kid = t.kid /\ t1.parent[y] = t.parent[y]
    BY <1>1, <1>2, <1>3 DEF ParentSet
<1>5. \A a \in Links : t1.parent[a] = IF a = x THEN t.parent[y] ELSE t.parent[a]
    BY <1>3 DEF ParentSet
<1>6. Relinked(t1, y, x, u)
    BY <1>1, <1>2, <1>4, RelinkFields DEF t1
<1>7. SideOf(t1, y) = SideOf(t, y)
    BY <1>4 DEF SideOf
<1>8. /\ u \in Tree /\ SameData(t1, u) /\ u.parent = t1.parent
      /\ u.root = IF t.parent[y] = Nil THEN x ELSE t.root
      /\ t.parent[y] # Nil => u.kid[t.parent[y]][SideOf(t, y)] = x
      /\ \A a \in Links, b \in Sides :
          a = Nil \/ a # t.parent[y] \/ b # SideOf(t, y) => u.kid[a][b] = t.kid[a][b]
    BY ZenonT(30), <1>4, <1>6, <1>7 DEF Relinked
<1>9. u.root = IF t.root = y THEN x ELSE t.root
    BY <1>8, ParentFacts
<1>10. ASSUME NEW a \in U, NEW s \in Sides PROVE u.kid[a][s] = IF t.kid[a][s] = y THEN x ELSE t.kid[a][s]
    <2>1. CASE t.kid[a][s] = y
        <3>1. t.parent[y] = a /\ SideOf(t, y) = s /\ a # Nil
            BY <1>1, <2>1, HungBelow
        <3>2. QED BY <1>8, <2>1, <3>1
    <2>2. CASE t.kid[a][s] # y
        <3>1. t.parent[y] # Nil => t.kid[t.parent[y]][SideOf(t, y)] = y
            BY ParentFacts
        <3>2. a = Nil \/ a # t.parent[y] \/ s # SideOf(t, y)
            BY <2>2, <3>1
        <3>3. QED BY <1>1, <1>8, <2>2, <3>2
    <2>3. QED BY <2>1, <2>2
<1>11. t.kid[Nil][Left] = Nil
    BY DEF InOrder
<1>12. u.kid[Nil][Left] = Nil
    BY <1>1, <1>8, <1>11, SidesAre
<1>13. SameData(t, u)
    BY <1>4, <1>8 DEF SameData
<1>14. QED BY ZenonT(30), <1>5, <1>8, <1>9, <1>10, <1>12, <1>13 DEF Unlinked

-----------------------------------------------------------------------------

\* The place i when the place gap has closed; an edge there goes inside.
Closer(gap, i, side) == IF i > gap \/ (side = Right /\ i = gap) THEN i - 1 ELSE i

LEMMA CloserIs ==
    ASSUME NEW k \in Int, NEW i \in Int, NEW s \in Sides
    PROVE  /\ Closer(k, i, s) \in Int
           /\ i # k => Closer(k, i, Left) = Closer(k, i, s) /\ Closer(k, i, Right) = Closer(k, i, s)
           /\ i # k => Closer(k, Beyond(i, s), Opposite(s)) = Beyond(Closer(k, i, Left), s)
           /\ k = Beyond(i, s) => /\ Closer(k, k, s) = Closer(k, i, Left)
                                  /\ Closer(k, Beyond(k, s), Opposite(s)) = Beyond(Closer(k, i, Left), s)
           /\ Closer(k, Beyond(k, Opposite(s)), s) = Closer(k, k, s)
BY SidesAre DEF Closer, Beyond

PosCut(U, pos, y) == [n \in U \ {y} |-> Closer(pos[y], pos[n], Left)]

EdgeCut(U, pos, edge, y) == [n \in U \ {y} |-> [s \in Sides |-> Closer(pos[y], edge[n][s], s)]]

LEMMA CutFacts ==
    ASSUME NEW U, NEW N, NEW pos, NEW edge, Placed(U, N, pos, edge), NEW y \in U
    PROVE  /\ \A n \in U \ {y} : PosCut(U, pos, y)[n] = Closer(pos[y], pos[n], Left) /\ pos[n] # pos[y]
           /\ \A n \in U \ {y}, s \in Sides : EdgeCut(U, pos, edge, y)[n][s] = Closer(pos[y], edge[n][s], s)
           /\ pos[y] \in Int
           /\ \A n \in U : /\ pos[n] \in Int /\ 1 <= pos[n] /\ pos[n] <= N
                           /\ \A s \in Sides : edge[n][s] \in Int
                           /\ 1 <= edge[n][Left] /\ edge[n][Left] <= pos[n] /\ pos[n] <= edge[n][Right] /\ edge[n][Right] <= N
<1>1. \A n \in U : edge[n][Left] <= pos[n] /\ pos[n] <= edge[n][Right]
    BY DEF Placed
<1>2. \A m, n \in U : pos[m] = pos[n] => m = n
    BY DEF Placed
<1>3. \A n \in U : /\ pos[n] \in Int /\ 1 <= pos[n] /\ pos[n] <= N
                   /\ \A s \in Sides : edge[n][s] \in Int /\ 1 <= edge[n][s] /\ edge[n][s] <= N
    BY PlacedNumbers
<1>4. Left \in Sides /\ Right \in Sides
    BY SidesAre
<1>5. QED BY <1>1, <1>2, <1>3, <1>4 DEF PosCut, EdgeCut

\* The places close up.
LEMMA CutPlaced ==
    ASSUME NEW U, NEW N, NEW pos, NEW edge, Placed(U, N, pos, edge), NEW y \in U
    PROVE  Placed(U \ {y}, N - 1, PosCut(U, pos, y), EdgeCut(U, pos, edge, y))
<1> DEFINE V == U \ {y}
           pc == PosCut(U, pos, y)
           ec == EdgeCut(U, pos, edge, y)
           k == pos[y]
<1>1. /\ \A n \in V : pc[n] = Closer(k, pos[n], Left) /\ pos[n] # k
      /\ \A n \in V, s \in Sides : ec[n][s] = Closer(k, edge[n][s], s)
      /\ k \in Int
      /\ \A n \in U : /\ pos[n] \in Int /\ 1 <= pos[n] /\ pos[n] <= N
                      /\ \A s \in Sides : edge[n][s] \in Int
                      /\ 1 <= edge[n][Left] /\ edge[n][Left] <= pos[n] /\ pos[n] <= edge[n][Right] /\ edge[n][Right] <= N
    BY CutFacts
<1>2. N \in Nat /\ k \in 1..N /\ N - 1 \in Nat
    <2>1. N \in Nat
        BY DEF Placed
    <2>2. QED BY <1>1, <2>1
<1>3. /\ \A i \in 1..N : \E n \in U : pos[n] = i
      /\ \A m, n \in U : pos[m] = pos[n] => m = n
    BY DEF Placed
<1>4. \A n \in V : pc[n] = IF pos[n] > k THEN pos[n] - 1 ELSE pos[n]
    BY <1>1, SidesAre DEF Closer
<1>5. \A n \in V : /\ ec[n][Left] = IF edge[n][Left] > k THEN edge[n][Left] - 1 ELSE edge[n][Left]
                   /\ ec[n][Right] = IF edge[n][Right] >= k THEN edge[n][Right] - 1 ELSE edge[n][Right]
    BY <1>1, SidesAre DEF Closer
<1>6. pc = [n \in V |-> pc[n]] /\ ec = [n \in V |-> [s \in Sides |-> ec[n][s]]]
    BY DEF PosCut, EdgeCut
<1> HIDE DEF pc, ec, k
<1>7. \A n \in V : pc[n] \in 1..(N - 1)
    <2>1. TAKE n \in V
    <2>2. pos[n] \in Int /\ 1 <= pos[n] /\ pos[n] <= N /\ pos[n] # k
        BY <1>1
    <2>3. pc[n] = IF pos[n] > k THEN pos[n] - 1 ELSE pos[n]
        BY <1>4
    <2>4. QED BY ONLY <1>2, <2>2, <2>3
<1>8. ASSUME NEW n \in V
      PROVE  /\ ec[n][Left] \in 1..(N - 1) /\ ec[n][Right] \in 1..(N - 1)
             /\ ec[n][Left] <= pc[n] /\ pc[n] <= ec[n][Right]
    <2>1. /\ pos[n] \in Int /\ 1 <= pos[n] /\ pos[n] <= N /\ pos[n] # k
          /\ edge[n][Left] \in Int /\ edge[n][Right] \in Int
          /\ 1 <= edge[n][Left] /\ edge[n][Left] <= pos[n] /\ pos[n] <= edge[n][Right] /\ edge[n][Right] <= N
        BY <1>1, SidesAre
    <2>2. /\ pc[n] = IF pos[n] > k THEN pos[n] - 1 ELSE pos[n]
          /\ ec[n][Left] = IF edge[n][Left] > k THEN edge[n][Left] - 1 ELSE edge[n][Left]
          /\ ec[n][Right] = IF edge[n][Right] >= k THEN edge[n][Right] - 1 ELSE edge[n][Right]
        BY <1>4, <1>5
    <2>3. QED BY ONLY <1>2, <2>1, <2>2
<1>9. \A i \in 1..(N - 1) : \E n \in V : pc[n] = i
    <2>1. TAKE i \in 1..(N - 1)
    <2>2. CASE i < k
        <3>1. i \in 1..N
            BY <1>2
        <3>2. PICK n \in U : pos[n] = i
            BY <1>3, <3>1
        <3>3. n # y
            BY <1>2, <2>2, <3>2 DEF k
        <3>4. QED BY <1>2, <1>4, <2>2, <3>2, <3>3
    <2>3. CASE i >= k
        <3>1. i + 1 \in 1..N /\ i + 1 > k
            BY <1>2, <2>3
        <3>2. PICK n \in U : pos[n] = i + 1
            BY <1>3, <3>1
        <3>3. n # y
            BY <1>2, <3>1, <3>2 DEF k
        <3>4. pc[n] = (i + 1) - 1
            BY <1>4, <3>1, <3>2, <3>3
        <3>5. QED BY <3>3, <3>4
    <2>4. QED BY <1>2, <2>2, <2>3
<1>10. ASSUME NEW m \in V, NEW n \in V, pc[m] = pc[n] PROVE m = n
    <2>1. /\ pos[m] \in Int /\ pos[n] \in Int /\ pos[m] # k /\ pos[n] # k
          /\ pc[m] = IF pos[m] > k THEN pos[m] - 1 ELSE pos[m]
          /\ pc[n] = IF pos[n] > k THEN pos[n] - 1 ELSE pos[n]
          /\ pc[m] = pc[n] /\ k \in Int
        BY <1>1, <1>4, <1>10
    <2>2. pos[m] = pos[n]
        BY ONLY <2>1
    <2>3. QED BY <1>3, <2>2
<1>11. V \in SUBSET Node
    BY DEF Placed
<1>12. pc \in [V -> 1..(N - 1)]
    BY <1>6, <1>7
<1>13. ec \in [V -> [Sides -> 1..(N - 1)]]
    <2>1. \A n \in V, s \in Sides : ec[n][s] \in 1..(N - 1)
        BY <1>8, SidesAre
    <2>2. QED BY <1>6, <2>1
<1>14. Placed(V, N - 1, pc, ec)
    BY <1>2, <1>8, <1>9, <1>10, <1>11, <1>12, <1>13 DEF Placed
<1>15. QED BY <1>14 DEF pc, ec

\* y has no kid on the side opposite to x.
LEMMA UnlinkHangs ==
    ASSUME NEW t, NEW U, NEW N, NEW pos, NEW edge, InOrder(t, U, N, pos, edge), NEW y \in U,
           NEW c \in Sides, t.kid[y][Opposite(c)] = Nil, NEW x, x = t.kid[y][c],
           NEW u, Unlinked(t, U, y, x, u), NEW n \in U \ {y}, NEW s \in Sides
    PROVE  Hangs(u, U \ {y}, PosCut(U, pos, y), EdgeCut(U, pos, edge, y), n, s)
<1> DEFINE V == U \ {y}
           pc == PosCut(U, pos, y)
           ec == EdgeCut(U, pos, edge, y)
           k == pos[y]
           m == t.kid[n][s]
<1>1. /\ \A a \in V : pc[a] = Closer(k, pos[a], Left) /\ pos[a] # k
      /\ \A a \in V, r \in Sides : ec[a][r] = Closer(k, edge[a][r], r)
      /\ k \in Int
      /\ \A a \in U : pos[a] \in Int /\ \A r \in Sides : edge[a][r] \in Int
    <2>1. Placed(U, N, pos, edge)
        BY DEF InOrder
    <2>2. QED BY <2>1, CutFacts
<1> HIDE DEF pc, ec, k
<1>2. /\ Nil \notin U /\ U \subseteq Links
      /\ \A a \in U, r \in Sides : Hangs(t, U, pos, edge, a, r)
    BY HungOnce DEF InOrder
<1>3. /\ \A a \in Links : u.parent[a] = IF a = x THEN t.parent[y] ELSE t.parent[a]
      /\ \A a \in U, r \in Sides : u.kid[a][r] = IF t.kid[a][r] = y THEN x ELSE t.kid[a][r]
    BY DEF Unlinked
<1>4. Opposite(s) \in Sides /\ Opposite(Opposite(s)) = s /\ Opposite(c) \in Sides /\ (c = s \/ c = Opposite(s))
      /\ Opposite(Opposite(c)) = c
    BY TwoSides
<1>5. CASE m = Nil
    <2>1. edge[n][s] = pos[n]
        BY <1>2, <1>5 DEF Hangs
    <2>2. ec[n][s] = pc[n]
        BY <1>1, <2>1, CloserIs
    <2>3. u.kid[n][s] = Nil
        BY <1>2, <1>3, <1>5
    <2>4. Hangs(u, V, pc, ec, n, s)
        BY <2>2, <2>3 DEF Hangs
    <2>5. QED BY <2>4 DEF pc, ec
<1>6. CASE m # Nil /\ m # y
    <2>1. m \in U /\ t.parent[m] = n /\ edge[m][s] = edge[n][s] /\ edge[m][Opposite(s)] = Beyond(pos[n], s)
        BY <1>2, <1>6 DEF Hangs
    <2>2. m # x
        <3>1. x # Nil => t.parent[x] = y
            BY HungBelow
        <3>2. QED BY <1>6, <2>1, <3>1
    <2>3. u.kid[n][s] = m /\ u.parent[m] = n /\ m \in V
        BY <1>2, <1>3, <1>6, <2>1, <2>2
    <2>4. ec[m][s] = ec[n][s]
        BY <1>1, <2>1, <2>3
    <2>5. ec[m][Opposite(s)] = Beyond(pc[n], s)
        <3>1. ec[m][Opposite(s)] = Closer(k, Beyond(pos[n], s), Opposite(s)) /\ pc[n] = Closer(k, pos[n], Left)
            BY <1>1, <1>4, <2>1, <2>3
        <3>2. QED BY <1>1, <3>1, CloserIs
    <2>6. Hangs(u, V, pc, ec, n, s)
        BY <2>3, <2>4, <2>5 DEF Hangs
    <2>7. QED BY <2>6 DEF pc, ec
<1>7. CASE m = y
    <2>1. t.parent[y] = n /\ edge[y][s] = edge[n][s] /\ k = edge[y][Opposite(c)] /\ edge[y][Opposite(s)] = Beyond(pos[n], s)
        <3>1. y # Nil
            BY <1>2
        <3>2. t.parent[y] = n /\ edge[y][s] = edge[n][s] /\ edge[y][Opposite(s)] = Beyond(pos[n], s)
            BY <1>2, <1>7, <3>1 DEF Hangs
        <3>3. pos[y] = edge[y][Opposite(c)]
            BY <1>2, <1>4 DEF Hangs
        <3>4. QED BY <3>2, <3>3 DEF k
    <2>2. u.kid[n][s] = x
        BY <1>3, <1>7
    <2>3. pos[n] \in Int /\ k \in Int /\ pc[n] = Closer(k, pos[n], Left) /\ ec[n][s] = Closer(k, edge[n][s], s)
        BY <1>1
    <2>4. CASE x = Nil
        <3>1. edge[y][c] = k
            <4>1. Hangs(t, U, pos, edge, y, c) /\ t.kid[y][c] = Nil
                BY <1>2, <2>4
            <4>2. QED BY <1>2, <4>1 DEF Hangs, k
        <3>2. edge[n][s] = k /\ k = Beyond(pos[n], s)
            BY <1>4, <2>1, <3>1
        <3>3. ec[n][s] = pc[n]
            <4>1. Closer(k, k, s) = Closer(k, pos[n], Left)
                BY <2>3, <3>2, CloserIs
            <4>2. QED BY <2>3, <3>2, <4>1
        <3>4. Hangs(u, V, pc, ec, n, s)
            BY <2>2, <2>4, <3>3 DEF Hangs
        <3>5. QED BY <3>4 DEF pc, ec
    <2>5. CASE x # Nil
        <3>1. x \in U /\ x # y /\ edge[x][c] = edge[y][c] /\ edge[x][Opposite(c)] = Beyond(k, c)
            BY <2>5, KidFacts DEF k
        <3>2. u.parent[x] = n /\ x \in V
            BY <1>2, <1>3, <2>1, <3>1
        <3>3. ec[x][s] = ec[n][s] /\ ec[x][Opposite(s)] = Beyond(pc[n], s)
            <4>1. ec[x][s] = Closer(k, edge[x][s], s) /\ ec[x][Opposite(s)] = Closer(k, edge[x][Opposite(s)], Opposite(s))
                BY <1>1, <1>4, <3>2
            <4>2. CASE c = s
                <5>1. edge[x][s] = edge[n][s] /\ edge[x][Opposite(s)] = Beyond(k, s) /\ k = Beyond(pos[n], s)
                    BY <2>1, <3>1, <4>2
                <5>2. QED BY <2>3, <4>1, <5>1, CloserIs
            <4>3. CASE c = Opposite(s)
                <5>1. /\ edge[x][Opposite(s)] = Beyond(pos[n], s) /\ edge[x][s] = Beyond(k, Opposite(s))
                      /\ edge[n][s] = k
                    BY <1>4, <2>1, <3>1, <4>3
                <5>2. ec[x][s] = ec[n][s]
                    BY <2>3, <4>1, <5>1, CloserIs
                <5>3. pos[n] # k
                    BY <1>1
                <5>4. ec[x][Opposite(s)] = Beyond(pc[n], s)
                    BY <2>3, <4>1, <5>1, <5>3, CloserIs
                <5>5. QED BY <5>2, <5>4
            <4>4. QED BY <1>4, <4>2, <4>3
        <3>4. Hangs(u, V, pc, ec, n, s)
            BY <2>2, <3>2, <3>3 DEF Hangs
        <3>5. QED BY <3>4 DEF pc, ec
    <2>6. QED BY <2>4, <2>5
<1>8. QED BY <1>5, <1>6, <1>7

\* The root spans what is left.
LEMMA UnlinkRoot ==
    ASSUME NEW t, NEW U, NEW N, NEW pos, NEW edge, InOrder(t, U, N, pos, edge), NEW y \in U,
           NEW c \in Sides, t.kid[y][Opposite(c)] = Nil, NEW x, x = t.kid[y][c],
           NEW u, Unlinked(t, U, y, x, u)
    PROVE  RootSpans(u, U \ {y}, N - 1, EdgeCut(U, pos, edge, y))
<1> DEFINE V == U \ {y}
           ec == EdgeCut(U, pos, edge, y)
           k == pos[y]
<1>1. Placed(U, N, pos, edge) /\ RootSpans(t, U, N, edge) /\ \A a \in U, r \in Sides : Hangs(t, U, pos, edge, a, r)
    BY DEF InOrder
<1>2. /\ \A a \in V, r \in Sides : ec[a][r] = Closer(k, edge[a][r], r)
      /\ \A a \in V : pos[a] # k
      /\ k \in Int
      /\ \A a \in U : /\ pos[a] \in Int /\ 1 <= pos[a] /\ pos[a] <= N
                      /\ \A s \in Sides : edge[a][s] \in Int
                      /\ 1 <= edge[a][Left] /\ edge[a][Left] <= pos[a] /\ pos[a] <= edge[a][Right] /\ edge[a][Right] <= N
    BY <1>1, CutFacts
<1>3. N \in Nat /\ 1 <= k /\ k <= N /\ Nil \notin U /\ U \subseteq Links
    BY <1>1, <1>2, HungOnce DEF Placed
<1> HIDE DEF ec
<1>4. /\ u.root = IF t.root = y THEN x ELSE t.root
      /\ \A a \in Links : u.parent[a] = IF a = x THEN t.parent[y] ELSE t.parent[a]
    BY DEF Unlinked
<1>5. t.root \in U /\ t.parent[t.root] = Nil /\ edge[t.root][Left] = 1 /\ edge[t.root][Right] = N
    BY <1>1 DEF RootSpans
<1>6. x # Nil => x \in V /\ x # t.root /\ edge[x][c] = edge[y][c] /\ edge[x][Opposite(c)] = Beyond(k, c)
    BY KidFacts
<1>7. edge[y][Opposite(c)] = k
    <2>1. Hangs(t, U, pos, edge, y, Opposite(c))
        BY <1>1, TwoSides
    <2>2. QED BY <1>3, <2>1 DEF Hangs
<1>8. CASE V = {}
    <2>1. t.root = y /\ x = Nil
        BY <1>5, <1>6, <1>8
    <2>2. QED BY <1>4, <1>8, <2>1 DEF RootSpans
<1>9. CASE V # {} /\ t.root # y
    <2>1. t.root \in V /\ u.root = t.root /\ u.parent[u.root] = Nil
        BY <1>3, <1>4, <1>5, <1>6, <1>9
    <2>2. ec[t.root][Left] = Closer(k, 1, Left) /\ ec[t.root][Right] = Closer(k, N, Right)
        BY <1>2, <1>5, <2>1, SidesAre
    <2>3. Closer(k, 1, Left) = 1 /\ Closer(k, N, Right) = N - 1
        BY <1>2, <1>3, SidesAre DEF Closer
    <2>4. QED BY <1>9, <2>1, <2>2, <2>3 DEF RootSpans, ec
<1>10. CASE V # {} /\ t.root = y
    <2>1. x # Nil
        <3>1. SUFFICES ASSUME x = Nil PROVE FALSE
            OBVIOUS
        <3>2. edge[y][c] = k
            <4>1. Hangs(t, U, pos, edge, y, c) /\ t.kid[y][c] = Nil
                BY <1>1, <3>1
            <4>2. QED BY <1>3, <4>1 DEF Hangs
        <3>3. edge[y][Left] = k /\ edge[y][Right] = k
            BY <1>7, <3>2, SidesAre, TwoSides
        <3>4. N = 1 /\ k = 1
            BY <1>5, <1>10, <3>3
        <3>5. PICK a \in V : TRUE
            BY <1>10
        <3>6. pos[a] = 1
            BY <1>2, <3>4
        <3>7. QED BY <1>2, <3>4, <3>6
    <2>2. x \in V /\ u.root = x /\ u.parent[u.root] = Nil
        BY <1>3, <1>4, <1>5, <1>6, <1>10, <2>1
    <2>3. ec[x][Left] = Closer(k, edge[x][Left], Left) /\ ec[x][Right] = Closer(k, edge[x][Right], Right)
        BY <1>2, <2>2, SidesAre
    <2>4. CASE c = Left
        <3>1. edge[x][Left] = 1 /\ edge[x][Right] = k - 1 /\ k = N
            BY <1>5, <1>6, <1>7, <1>10, <2>1, <2>4, SidesAre DEF Beyond
        <3>2. Closer(k, 1, Left) = 1 /\ Closer(k, k - 1, Right) = N - 1
            BY <1>3, <3>1, SidesAre DEF Closer
        <3>3. QED BY <1>10, <2>2, <2>3, <3>1, <3>2 DEF RootSpans, ec
    <2>5. CASE c = Right
        <3>1. edge[x][Right] = N /\ edge[x][Left] = k + 1 /\ k = 1
            BY <1>5, <1>6, <1>7, <1>10, <2>1, <2>5, SidesAre DEF Beyond
        <3>2. Closer(k, k + 1, Left) = 1 /\ Closer(k, N, Right) = N - 1
            BY <1>3, <3>1, SidesAre DEF Closer
        <3>3. QED BY <1>10, <2>2, <2>3, <3>1, <3>2 DEF RootSpans, ec
    <2>6. QED BY <2>4, <2>5, SidesAre
<1>11. QED BY <1>8, <1>9, <1>10

LEMMA UnlinkInOrder ==
    ASSUME NEW t, NEW U, NEW N, NEW pos, NEW edge, InOrder(t, U, N, pos, edge), NEW y \in U,
           NEW c \in Sides, t.kid[y][Opposite(c)] = Nil, NEW x, x = t.kid[y][c],
           NEW u, Unlinked(t, U, y, x, u)
    PROVE  InOrder(u, U \ {y}, N - 1, PosCut(U, pos, y), EdgeCut(U, pos, edge, y))
<1> DEFINE V == U \ {y}
<1>1. Placed(V, N - 1, PosCut(U, pos, y), EdgeCut(U, pos, edge, y))
    BY CutPlaced DEF InOrder
<1>2. RootSpans(u, V, N - 1, EdgeCut(U, pos, edge, y))
    BY UnlinkRoot
<1>3. \A n \in V, s \in Sides : Hangs(u, V, PosCut(U, pos, y), EdgeCut(U, pos, edge, y), n, s)
    BY UnlinkHangs
<1>4. ASSUME NEW n \in V, n # u.root PROVE u.parent[n] \in V /\ u.kid[u.parent[n]][SideOf(u, n)] = n
    <2> DEFINE q == t.parent[n]
    <2>1. /\ Nil \notin U /\ U \subseteq Links /\ x \in U \cup {Nil}
          /\ u.root = IF t.root = y THEN x ELSE t.root
          /\ \A a \in Links : u.parent[a] = IF a = x THEN t.parent[y] ELSE t.parent[a]
          /\ \A a \in U, r \in Sides : u.kid[a][r] = IF t.kid[a][r] = y THEN x ELSE t.kid[a][r]
        BY HungOnce DEF Unlinked
    <2>2. n # t.root
        BY <1>4, <2>1
    <2>3. q \in U /\ q # n /\ SideOf(t, n) \in Sides /\ t.kid[q][SideOf(t, n)] = n
        BY <2>2, ParentFacts
    <2>4. CASE n = x
        <3>1. t.parent[n] = y
            BY <2>1, <2>4, HungBelow
        <3>2. y # t.root
            BY <1>4, <2>1, <2>4
        <3>3. t.parent[y] \in U /\ t.parent[y] # y /\ SideOf(t, y) \in Sides /\ t.kid[t.parent[y]][SideOf(t, y)] = y
            BY <3>2, ParentFacts
        <3>4. u.parent[n] = t.parent[y] /\ u.kid[t.parent[y]][SideOf(t, y)] = n
            BY <2>1, <2>4, <3>3
        <3>5. u.kid[u.parent[n]][SideOf(u, n)] = n
            BY <3>3, <3>4, SidesAre DEF SideOf
        <3>6. QED BY <3>3, <3>4, <3>5
    <2>5. CASE n # x
        <3>1. q # y
            <4>1. \A r \in Sides : r = c \/ r = Opposite(c)
                BY TwoSides
            <4>2. QED BY <2>1, <2>3, <2>5, <4>1
        <3>2. u.parent[n] = q /\ u.kid[q][SideOf(t, n)] = n
            BY <2>1, <2>3, <2>5
        <3>3. u.kid[u.parent[n]][SideOf(u, n)] = n
            BY <2>3, <3>2, SidesAre DEF SideOf
        <3>4. QED BY <2>3, <3>1, <3>2, <3>3
    <2>6. QED BY <2>4, <2>5
<1>5. u \in Tree /\ u.kid[Nil][Left] = Nil
    BY DEF Unlinked
<1>6. QED BY <1>1, <1>2, <1>3, <1>4, <1>5 DEF InOrder

\* A red-black tree of the nodes V, whatever colour y has, which is none of them.
Evened(u, V, N, pos, edge, bd, y) ==
    /\ InOrder(u, V, N, pos, edge)
    /\ bd \in [V \cup {Nil} -> Nat] /\ bd[Nil] = 0 /\ u.red \subseteq V \cup {y}
    /\ \A n \in V, s \in Sides : bd[n] = bd[u.kid[n][s]] + BlackOne(u, n)
    /\ \A n \in V, s \in Sides : RedApart(u, n, s)
    /\ u.root \notin u.red

LEMMA BalancedIsEvened ==
    ASSUME NEW u, NEW V, NEW N, NEW pos, NEW edge, NEW bd, Balanced(u, V, N, pos, edge, bd), NEW y
    PROVE  Evened(u, V, N, pos, edge, bd, y)
BY DEF Balanced, Levels, Evened

\* b are the black depths in u, where y does not count.
DepthsCut(t, U, y, u, b) ==
    /\ b \in [(U \ {y}) \cup {Nil} -> Nat] /\ b[Nil] = 0
    /\ \A n \in U \ {y}, s \in Sides :
          IF t.kid[n][s] = y THEN b[n] = b[u.kid[n][s]] + BlackOne(u, n) + BlackOne(t, y)
          ELSE b[n] = b[u.kid[n][s]] + BlackOne(u, n)

\* Depths, colours and links after a node with one kid or none is cut out.
LEMMA CutDepths ==
    ASSUME NEW t, NEW U, NEW N, NEW pos, NEW edge, NEW bd, Balanced(t, U, N, pos, edge, bd), NEW y \in U,
           NEW c \in Sides, t.kid[y][Opposite(c)] = Nil, NEW x, x = t.kid[y][c],
           NEW u, Unlinked(t, U, y, x, u)
    PROVE  \E b : DepthsCut(t, U, y, u, b)
<1> DEFINE b == [n \in (U \ {y}) \cup {Nil} |-> bd[n]]
<1>1. /\ InOrder(t, U, N, pos, edge) /\ bd \in [U \cup {Nil} -> Nat] /\ bd[Nil] = 0
      /\ \A n \in U, s \in Sides : bd[n] = bd[t.kid[n][s]] + BlackOne(t, n)
    BY DEF Balanced, Levels
<1>2. Nil \notin U /\ x \in U \cup {Nil} /\ x # y /\ \A n \in U, s \in Sides : t.kid[n][s] \in U \cup {Nil}
    BY <1>1, HungOnce
<1>3. b \in [(U \ {y}) \cup {Nil} -> Nat] /\ b[Nil] = 0 /\ \A n \in (U \ {y}) \cup {Nil} : b[n] = bd[n]
    BY <1>1, <1>2
<1> HIDE DEF b
<1>4. /\ \A n \in U, s \in Sides : u.kid[n][s] = IF t.kid[n][s] = y THEN x ELSE t.kid[n][s]
      /\ u.red = t.red
    BY DEF Unlinked, SameData
<1>5. bd[y] = bd[x] + BlackOne(t, y) /\ bd[x] \in Nat /\ BlackOne(t, y) \in {0, 1}
    BY <1>1, <1>2 DEF BlackOne
<1>6. ASSUME NEW n \in U \ {y}, NEW s \in Sides
      PROVE  IF t.kid[n][s] = y THEN b[n] = b[u.kid[n][s]] + BlackOne(u, n) + BlackOne(t, y)
             ELSE b[n] = b[u.kid[n][s]] + BlackOne(u, n)
    <2>1. BlackOne(u, n) = BlackOne(t, n) /\ BlackOne(t, n) \in {0, 1} /\ b[n] = bd[n]
        BY <1>3, <1>4 DEF BlackOne
    <2>2. bd[n] = bd[t.kid[n][s]] + BlackOne(t, n)
        BY <1>1
    <2>3. CASE t.kid[n][s] = y
        <3>1. u.kid[n][s] = x /\ b[x] = bd[x]
            BY <1>2, <1>3, <1>4, <2>3
        <3>2. bd[n] = bd[y] + BlackOne(t, n)
            BY <2>2, <2>3
        <3>3. QED BY <1>5, <2>1, <2>3, <3>1, <3>2
    <2>4. CASE t.kid[n][s] # y
        <3>1. u.kid[n][s] = t.kid[n][s] /\ b[t.kid[n][s]] = bd[t.kid[n][s]]
            BY <1>2, <1>3, <1>4, <2>4
        <3>2. QED BY <2>1, <2>2, <2>4, <3>1
    <2>5. QED BY <2>3, <2>4
<1>7. QED BY <1>3, <1>6 DEF DepthsCut

LEMMA CutRed ==
    ASSUME NEW t, NEW U, NEW N, NEW pos, NEW edge, NEW bd, Balanced(t, U, N, pos, edge, bd), NEW y \in U, y \in t.red,
           NEW c \in Sides, t.kid[y][Opposite(c)] = Nil, NEW x, x = t.kid[y][c],
           NEW u, Unlinked(t, U, y, x, u)
    PROVE  \E e, b : Evened(u, U \ {y}, N - 1, PosCut(U, pos, y), e, b, y)
<1> DEFINE V == U \ {y}
<1>1. /\ InOrder(t, U, N, pos, edge) /\ t.red \subseteq U /\ t.root \notin t.red
      /\ \A n \in U, s \in Sides : RedApart(t, n, s)
    BY DEF Balanced, Levels
<1>2. InOrder(u, V, N - 1, PosCut(U, pos, y), EdgeCut(U, pos, edge, y))
    BY <1>1, UnlinkInOrder
<1>3. PICK b : DepthsCut(t, U, y, u, b)
    BY CutDepths
<1>0. /\ b \in [V \cup {Nil} -> Nat] /\ b[Nil] = 0
      /\ \A n \in V, s \in Sides :
            IF t.kid[n][s] = y THEN b[n] = b[u.kid[n][s]] + BlackOne(u, n) + BlackOne(t, y)
            ELSE b[n] = b[u.kid[n][s]] + BlackOne(u, n)
    BY <1>3 DEF DepthsCut
<1>4. u.red = t.red /\ u.root = t.root
      /\ \A n \in U, s \in Sides : u.kid[n][s] = IF t.kid[n][s] = y THEN x ELSE t.kid[n][s]
    BY <1>1 DEF Unlinked, SameData
<1>5. ASSUME NEW n \in V, NEW s \in Sides PROVE b[n] = b[u.kid[n][s]] + BlackOne(u, n)
    <2>1. CASE t.kid[n][s] = y
        <3>1. n \in U /\ u.kid[n][s] = x /\ x \in V \cup {Nil}
            <4>1. x \in U \cup {Nil} /\ x # y
                BY <1>1, HungOnce
            <4>2. QED BY <1>4, <2>1, <4>1
        <3>2. b[n] = b[x] + BlackOne(u, n) + BlackOne(t, y) /\ b[x] \in Nat
            BY <1>0, <2>1, <3>1
        <3>3. BlackOne(t, y) = 0 /\ BlackOne(u, n) \in {0, 1}
            BY DEF BlackOne
        <3>4. QED BY <3>1, <3>2, <3>3
    <2>2. CASE t.kid[n][s] # y
        BY <1>0, <2>2
    <2>3. QED BY <2>1, <2>2
<1>6. ASSUME NEW n \in V, NEW s \in Sides PROVE RedApart(u, n, s)
    <2>1. CASE t.kid[n][s] = y
        <3>1. n \notin t.red
            BY <1>1, <2>1 DEF RedApart
        <3>2. QED BY <1>4, <3>1 DEF RedApart
    <2>2. CASE t.kid[n][s] # y
        <3>1. RedApart(t, n, s)
            BY <1>1
        <3>2. QED BY <1>4, <2>2, <3>1 DEF RedApart
    <2>3. QED BY <2>1, <2>2
<1>7. u.red \subseteq V \cup {y} /\ u.root \notin u.red
    BY <1>1, <1>4
<1>8. Evened(u, V, N - 1, PosCut(U, pos, y), EdgeCut(U, pos, edge, y), b, y)
    BY <1>2, <1>0, <1>5, <1>6, <1>7 DEF Evened
<1>9. QED BY <1>8

LEMMA CutBlack ==
    ASSUME NEW t, NEW U, NEW N, NEW pos, NEW edge, NEW bd, Balanced(t, U, N, pos, edge, bd), NEW y \in U, y \notin t.red,
           NEW c \in Sides, t.kid[y][Opposite(c)] = Nil, NEW x, x = t.kid[y][c],
           NEW u, Unlinked(t, U, y, x, u)
    PROVE  \E e, b, p, s : Short(u, U \ {y}, N - 1, PosCut(U, pos, y), e, b, x, p, s)
<1> DEFINE V == U \ {y}
<1>1. /\ InOrder(t, U, N, pos, edge) /\ t.red \subseteq U /\ t.root \notin t.red
      /\ \A n \in U, s \in Sides : RedApart(t, n, s)
    BY DEF Balanced, Levels
<1>2. InOrder(u, V, N - 1, PosCut(U, pos, y), EdgeCut(U, pos, edge, y))
    BY <1>1, UnlinkInOrder
<1>3. PICK b : DepthsCut(t, U, y, u, b)
    BY CutDepths
<1>0. /\ b \in [V \cup {Nil} -> Nat] /\ b[Nil] = 0
      /\ \A n \in V, s \in Sides :
            IF t.kid[n][s] = y THEN b[n] = b[u.kid[n][s]] + BlackOne(u, n) + BlackOne(t, y)
            ELSE b[n] = b[u.kid[n][s]] + BlackOne(u, n)
    BY <1>3 DEF DepthsCut
<1> DEFINE p == t.parent[y]
           sy == SideOf(t, y)
<1>4. /\ u.red = t.red /\ u.root = IF t.root = y THEN x ELSE t.root
      /\ \A n \in U, s \in Sides : u.kid[n][s] = IF t.kid[n][s] = y THEN x ELSE t.kid[n][s]
      /\ \A a \in Links : u.parent[a] = IF a = x THEN t.parent[y] ELSE t.parent[a]
    BY DEF Unlinked, SameData
<1>5. /\ Nil \notin U /\ U \subseteq Links /\ Nil \in Links /\ x \in V \cup {Nil}
      /\ \A a \in U, s \in Sides : t.kid[a][s] \in U \cup {Nil}
    BY <1>1, HungOnce DEF Links
<1>6. y # t.root => p \in V /\ sy \in Sides /\ t.kid[p][sy] = y
    BY <1>1, ParentFacts
<1>7. y = t.root => p = Nil
    BY <1>1, ParentFacts
<1>8. \A a \in U, s \in Sides : t.kid[a][s] = y => a = p /\ s = sy
    BY <1>1, <1>5, HungBelow
<1> HIDE DEF p, sy
<1>9. ASSUME NEW n \in V, NEW s \in Sides PROVE b[n] = b[u.kid[n][s]] + BlackOne(u, n) + Gap(n, s, p, sy)
    <2>1. CASE t.kid[n][s] = y
        <3>1. Gap(n, s, p, sy) = 1 /\ BlackOne(t, y) = 1
            BY <1>8, <2>1 DEF Gap, BlackOne
        <3>2. QED BY <1>0, <2>1, <3>1
    <2>2. CASE t.kid[n][s] # y
        <3>1. Gap(n, s, p, sy) = 0
            <4>1. y # t.root => ~(n = p /\ s = sy)
                BY <1>6, <2>2
            <4>2. y = t.root => n # p
                BY <1>5, <1>7
            <4>3. QED BY <4>1, <4>2 DEF Gap
        <3>2. b[n] = b[u.kid[n][s]] + BlackOne(u, n)
            BY <1>0, <2>2
        <3>3. u.kid[n][s] \in V \cup {Nil}
            BY <1>4, <1>5, <2>2
        <3>4. b[u.kid[n][s]] \in Nat /\ BlackOne(u, n) \in {0, 1}
            BY <1>0, <3>3 DEF BlackOne
        <3>5. QED BY <3>1, <3>2, <3>4
    <2>3. QED BY <2>1, <2>2
<1>10. Depths(u, V, b, p, sy)
    BY <1>0, <1>9 DEF Depths
<1>11. ASSUME NEW n \in V, NEW s \in Sides, u.kid[n][s] # x PROVE RedApart(u, n, s)
    <2>1. RedApart(t, n, s) /\ u.kid[n][s] = t.kid[n][s]
        BY <1>1, <1>4, <1>11
    <2>2. QED BY <1>4, <2>1 DEF RedApart
<1>12. u.root \in u.red => u.root = x
    BY <1>1, <1>4
<1>13. (x = u.root /\ p = Nil) \/ (p \in V /\ sy \in Sides /\ u.kid[p][sy] = x /\ u.parent[x] = p)
    <2>1. CASE y = t.root
        BY <1>4, <1>7, <2>1
    <2>2. CASE y # t.root
        <3>1. p \in U /\ sy \in Sides /\ t.kid[p][sy] = y /\ p \in V
            BY <1>6, <2>2
        <3>2. u.kid[p][sy] = x
            BY <1>4, <3>1
        <3>3. u.parent[x] = p
            BY <1>4, <1>5 DEF p
        <3>4. QED BY <3>1, <3>2, <3>3
    <2>3. QED BY <2>1, <2>2
<1>14. u.red \subseteq V
    BY <1>1, <1>4
<1>15. Short(u, V, N - 1, PosCut(U, pos, y), EdgeCut(U, pos, edge, y), b, x, p, sy)
    BY <1>2, <1>5, <1>10, <1>11, <1>12, <1>13, <1>14 DEF Short
<1>16. QED BY <1>15

\* Unlink takes out a node with a missing kid.
LEMMA UnlinkEvens ==
    ASSUME NEW t, NEW U, NEW N, NEW pos, NEW edge, NEW bd, Balanced(t, U, N, pos, edge, bd), NEW y \in U,
           Nil \in {t.kid[y][Left], t.kid[y][Right]}
    PROVE  /\ SameItems(t, Unlink(t, y))
           /\ \E e, b : Evened(Unlink(t, y), U \ {y}, N - 1, PosCut(U, pos, y), e, b, y)
<1> DEFINE c == IF t.kid[y][Left] # Nil THEN Left ELSE Right
           x == t.kid[y][c]
           u == Relink([t EXCEPT !.parent[x] = t.parent[y]], y, x)
<1>1. c \in Sides /\ t.kid[y][Opposite(c)] = Nil
    BY SidesAre
<1>2. Unlink(t, y) = IF y \in t.red THEN u ELSE DeleteFixup[<<u, x>>]
    BY DEF Unlink
<1> HIDE DEF c
<1>3. InOrder(t, U, N, pos, edge)
    BY DEF Balanced
<1>4. Unlinked(t, U, y, x, u)
    <2>1. u = Relink([t EXCEPT !.parent[x] = t.parent[y]], y, x)
        OBVIOUS
    <2> HIDE DEF u
    <2>2. QED BY <1>1, <1>3, <2>1, UnlinkFields
<1> HIDE DEF u
<1>5. SameItems(t, u)
    BY <1>4 DEF Unlinked, SameData, SameItems
<1>6. CASE y \in t.red
    BY <1>1, <1>2, <1>4, <1>5, <1>6, CutRed
<1>7. CASE y \notin t.red
    <2>1. \E e, b, p, s : Short(u, U \ {y}, N - 1, PosCut(U, pos, y), e, b, x, p, s)
        BY <1>1, <1>4, <1>7, CutBlack
    <2> HIDE DEF x
    <2>2. BalancedAs(u, DeleteFixup[<<u, x>>], U \ {y}, N - 1, PosCut(U, pos, y))
        BY <2>1, DeleteFixupBalances
    <2>3. QED BY <1>2, <1>5, <1>7, <2>2, BalancedIsEvened DEF BalancedAs, SameItems
<1>8. QED BY <1>6, <1>7

\* r is t with y in the place of z.
Swapped(t, U, y, z, r) ==
    /\ r \in Tree /\ SameItems(t, r)
    /\ r.root = IF t.root = z THEN y ELSE t.root
    /\ r.red = IF z \in t.red THEN t.red \cup {y} ELSE t.red \ {y}
    /\ \A a \in Links : r.parent[a] = IF a = y THEN t.parent[z]
                                      ELSE IF a \in {t.kid[z][Left], t.kid[z][Right]} THEN y ELSE t.parent[a]
    /\ \A s \in Sides : r.kid[y][s] = t.kid[z][s]
    /\ \A a \in U \ {z}, s \in Sides : r.kid[a][s] = IF t.kid[a][s] = z THEN y ELSE t.kid[a][s]
    /\ r.kid[Nil][Left] = Nil

LEMMA SwapFields ==
    ASSUME NEW t, NEW U, NEW N, NEW pos, NEW edge, InOrder(t, U, N, pos, edge), NEW z \in U,
           NEW y \in Node, y \notin U, NEW r, r = SwapNode(t, y, z)
    PROVE  Swapped(t, U, y, z, r)
<1> DEFINE up == t.parent[z]
           sz == SideOf(t, z)
           t0 == [t EXCEPT !.parent[y] = up]
           t1 == [t0 EXCEPT !.kid[up][sz] = y]
           ml == t1.kid[z][Left]
           mr == t1.kid[z][Right]
           t2 == [t1 EXCEPT !.kid[y] = t1.kid[z], !.red = IF z \in t.red THEN @ \cup {y} ELSE @ \ {y},
                            !.parent[mr] = y]
           t3 == [t2 EXCEPT !.parent[ml] = y]
<1>1. /\ t \in Tree /\ U \subseteq Links /\ Nil \notin U /\ Nil \in Links /\ y \in Links /\ z \in Links /\ y # z /\ y # Nil
      /\ \A s \in Sides : t.kid[z][s] \in U \cup {Nil} /\ t.kid[z][s] # z
      /\ up \in U \cup {Nil} /\ up # z /\ up # y /\ sz \in Sides
    <2>1. up \in U \cup {Nil} /\ up # z
        BY ParentFacts, HungOnce
    <2>2. QED BY <2>1, HungOnce, SidesAre DEF Links, Node, Nil
<1>2. ParentSet(t, y, up, t0)
    BY <1>1, SetParent, TreeFields
<1> HIDE DEF t0
<1>3. /\ t0 \in Tree /\ SameData(t, t0) /\ t0.root = t.root /\ t0.kid = t.kid /\ t0.parent[y] = up
      /\ \A a \in Links : a # y => t0.parent[a] = t.parent[a]
    BY <1>2 DEF ParentSet
<1>4. KidSet(t0, up, sz, y, t1)
    BY <1>1, <1>3, SetKid, TreeFields
<1>5. SwapNode(t, y, z) = IF t.root = z THEN [t3 EXCEPT !.root = y] ELSE t3
    <2>1. t1 = [t EXCEPT !.parent[y] = up, !.kid[up][sz] = y]
        BY DEF t0
    <2> HIDE DEF t1
    <2>2. QED BY <2>1 DEF SwapNode, SideOf
<1> HIDE DEF t1
<1>6. /\ t1 \in Tree /\ SameData(t, t1) /\ t1.root = t.root /\ t1.parent = t0.parent
      /\ t1.kid[up][sz] = y
      /\ \A a \in Links, b \in Sides : a # up \/ b # sz => t1.kid[a][b] = t.kid[a][b]
    BY <1>3, <1>4 DEF KidSet, SameData
<1>7. \A s \in Sides : t1.kid[z][s] = t.kid[z][s]
    BY <1>1, <1>6
<1>8. ml = t.kid[z][Left] /\ mr = t.kid[z][Right] /\ ml \in Links /\ mr \in Links /\ ml # y /\ mr # y
    BY <1>1, <1>7, SidesAre
<1> HIDE DEF ml, mr
<1>9. t2 \in Tree /\ t2.root = t1.root /\ t2.used = t1.used /\ t2.key = t1.key /\ t2.value = t1.value
      /\ t2.red = (IF z \in t.red THEN t1.red \cup {y} ELSE t1.red \ {y})
      /\ t2.kid = [t1.kid EXCEPT ![y] = t1.kid[z]] /\ t2.parent = [t1.parent EXCEPT ![mr] = y]
    <2>1. [t1.kid EXCEPT ![y] = t1.kid[z]] \in [Links -> Links \X Links]
        BY <1>1, <1>6 DEF Tree
    <2>2. [t1.parent EXCEPT ![mr] = y] \in [Links -> Links]
        BY <1>1, <1>6 DEF Tree
    <2>3. (IF z \in t.red THEN t1.red \cup {y} ELSE t1.red \ {y}) \in SUBSET Links
        BY <1>1, <1>6 DEF Tree
    <2>4. QED BY <1>6, <2>1, <2>2, <2>3 DEF Tree
<1>10. /\ \A s \in Sides : t2.kid[y][s] = t.kid[z][s]
       /\ \A a \in Links, s \in Sides : a # y => t2.kid[a][s] = t1.kid[a][s]
    BY <1>1, <1>6, <1>7, <1>9 DEF Tree
<1>11. t2.parent[mr] = y /\ \A a \in Links : a # mr => t2.parent[a] = t1.parent[a]
    BY <1>6, <1>8, <1>9 DEF Tree
<1> HIDE DEF t2
<1>12. ParentSet(t2, ml, y, t3)
    BY <1>1, <1>8, <1>9, SetParent
<1> HIDE DEF t3
<1>13. /\ t3 \in Tree /\ SameData(t2, t3) /\ t3.root = t2.root /\ t3.kid = t2.kid
       /\ t3.parent[ml] = y /\ \A a \in Links : a # ml => t3.parent[a] = t2.parent[a]
    BY <1>12 DEF ParentSet
<1>14. /\ r \in Tree /\ SameData(t3, r) /\ r.kid = t3.kid /\ r.parent = t3.parent
       /\ r.root = IF t.root = z THEN y ELSE t.root
    <2>1. t3.root = t.root
        BY <1>6, <1>9, <1>13
    <2>2. CASE t.root = z
        <3>1. r = [t3 EXCEPT !.root = y]
            BY <1>5, <2>2
        <3>2. QED BY <1>1, <1>13, <2>2, <3>1 DEF Tree, SameData
    <2>3. CASE t.root # z
        <3>1. r = t3
            BY <1>5, <2>3
        <3>2. QED BY <1>13, <2>1, <2>3, <3>1 DEF SameData
    <2>4. QED BY <2>2, <2>3
<1>15. SameItems(t, r)
    BY <1>6, <1>9, <1>13, <1>14 DEF SameItems, SameData
<1>16. r.red = IF z \in t.red THEN t.red \cup {y} ELSE t.red \ {y}
    BY <1>6, <1>9, <1>13, <1>14 DEF SameData
<1>17. \A a \in Links : r.parent[a] = IF a = y THEN t.parent[z]
                                     ELSE IF a \in {t.kid[z][Left], t.kid[z][Right]} THEN y ELSE t.parent[a]
    BY <1>1, <1>3, <1>6, <1>8, <1>11, <1>13, <1>14
<1>18. \A s \in Sides : r.kid[y][s] = t.kid[z][s]
    BY <1>10, <1>13, <1>14
<1>19. ASSUME NEW a \in U \ {z}, NEW s \in Sides PROVE r.kid[a][s] = IF t.kid[a][s] = z THEN y ELSE t.kid[a][s]
    <2>1. a \in Links /\ a # y /\ r.kid[a][s] = t1.kid[a][s]
        BY <1>1, <1>10, <1>13, <1>14
    <2>2. CASE t.kid[a][s] = z
        <3>1. a = up /\ s = sz
            BY <1>1, <2>2, HungBelow
        <3>2. QED BY <1>6, <2>1, <2>2, <3>1
    <2>3. CASE t.kid[a][s] # z
        <3>1. a # up \/ s # sz
            <4>1. z # t.root => t.kid[up][sz] = z
                BY ParentFacts
            <4>2. z = t.root => up = Nil
                BY ParentFacts
            <4>3. QED BY <1>1, <2>3, <4>1, <4>2
        <3>2. QED BY <1>6, <2>1, <2>3, <3>1
    <2>4. QED BY <2>2, <2>3
<1>20. r.kid[Nil][Left] = Nil
    <2>1. t.kid[Nil][Left] = Nil
        BY DEF InOrder
    <2>2. Nil # up \/ Left # sz
        <3>1. up = Nil => sz = Right
            BY <1>1, <2>1 DEF SideOf
        <3>2. QED BY <3>1, SidesAre
    <2>3. r.kid[Nil][Left] = t1.kid[Nil][Left]
        BY <1>1, <1>10, <1>13, <1>14, SidesAre
    <2>4. QED BY <1>1, <1>6, <2>1, <2>2, <2>3, SidesAre
<1>21. QED BY <1>14, <1>15, <1>16, <1>17, <1>18, <1>19, <1>20 DEF Swapped

-----------------------------------------------------------------------------

\* Who was in the place of n.
Back(n, y, z) == IF n = y THEN z ELSE n

\* f for the nodes after y took the place of z.
Renamed(f, V, y, z) == [n \in V |-> f[Back(n, y, z)]]

LEMMA SwapLinks ==
    ASSUME NEW t, NEW U, NEW N, NEW pos, NEW edge, InOrder(t, U, N, pos, edge), NEW z \in U,
           NEW y \in Node, y \notin U, NEW r, Swapped(t, U, y, z, r), NEW V, V = (U \ {z}) \cup {y}
    PROVE  /\ y # z /\ Nil \notin V /\ Nil \notin U /\ V \subseteq Links
           /\ \A n \in V : /\ Back(n, y, z) \in U
                           /\ r.parent[n] = Back(t.parent[Back(n, y, z)], z, y)
                           /\ n \in r.red <=> Back(n, y, z) \in t.red
                           /\ \A s \in Sides : r.kid[n][s] = Back(t.kid[Back(n, y, z)][s], z, y)
           /\ \A n \in U : Back(n, z, y) \in V /\ Back(Back(n, z, y), y, z) = n
           /\ r.root = Back(t.root, z, y)
<1>1. /\ t \in Tree /\ U \subseteq Links /\ Nil \notin U /\ Nil \in Links /\ y \in Links /\ y # z /\ y # Nil
      /\ \A a \in U, s \in Sides : t.kid[a][s] \in U \cup {Nil} /\ t.kid[a][s] # a
      /\ \A a \in U, s \in Sides : t.kid[a][s] \in U => t.parent[t.kid[a][s]] = a
    BY HungOnce DEF Links, Node, Nil
<1>2. Nil \notin V /\ V \subseteq Links
    BY <1>1
<1>3. \A n \in V : Back(n, y, z) \in U /\ (n = y \/ (n \in U /\ n # z /\ n # y))
    BY DEF Back
<1>4. /\ \A a \in Links : r.parent[a] = IF a = y THEN t.parent[z]
                                      ELSE IF a \in {t.kid[z][Left], t.kid[z][Right]} THEN y ELSE t.parent[a]
      /\ \A s \in Sides : r.kid[y][s] = t.kid[z][s]
      /\ \A a \in U \ {z}, s \in Sides : r.kid[a][s] = IF t.kid[a][s] = z THEN y ELSE t.kid[a][s]
      /\ r.root = IF t.root = z THEN y ELSE t.root
      /\ r.red = IF z \in t.red THEN t.red \cup {y} ELSE t.red \ {y}
    BY DEF Swapped
<1>5. ASSUME NEW n \in V, NEW s \in Sides PROVE r.kid[n][s] = Back(t.kid[Back(n, y, z)][s], z, y)
    <2>1. CASE n = y
        <3>1. r.kid[n][s] = t.kid[z][s] /\ t.kid[z][s] # z
            BY <1>1, <1>4, <2>1
        <3>2. QED BY <2>1, <3>1 DEF Back
    <2>2. CASE n # y
        <3>1. n \in U \ {z}
            BY <2>2
        <3>2. r.kid[n][s] = IF t.kid[n][s] = z THEN y ELSE t.kid[n][s]
            BY <1>4, <3>1
        <3>3. QED BY <2>2, <3>2 DEF Back
    <2>3. QED BY <2>1, <2>2
<1>6. ASSUME NEW n \in V PROVE r.parent[n] = Back(t.parent[Back(n, y, z)], z, y)
    <2>1. CASE n = y
        <3>1. t.parent[z] # z
            BY <1>1, ParentFacts
        <3>2. QED BY <1>1, <1>4, <2>1, <3>1 DEF Back
    <2>2. CASE n # y
        <3>1. n \in U /\ n # z /\ n \in Links
            BY <1>1, <2>2
        <3>2. Left \in Sides /\ Right \in Sides
            BY SidesAre
        <3>3. CASE n \in {t.kid[z][Left], t.kid[z][Right]}
            <4>1. t.parent[n] = z
                BY <1>1, <3>1, <3>2, <3>3
            <4>2. QED BY <1>4, <2>2, <3>1, <3>3, <4>1 DEF Back
        <3>4. CASE n \notin {t.kid[z][Left], t.kid[z][Right]}
            <4>1. t.parent[n] # z
                <5>1. n # t.root => t.kid[t.parent[n]][SideOf(t, n)] = n /\ SideOf(t, n) \in Sides
                    BY <3>1, ParentFacts
                <5>2. n = t.root => t.parent[n] = Nil
                    BY <3>1, ParentFacts
                <5>3. \A s \in Sides : s = Left \/ s = Right
                    BY SidesAre
                <5>4. QED BY <1>1, <3>4, <5>1, <5>2, <5>3
            <4>2. r.parent[n] = t.parent[n]
                BY <1>4, <2>2, <3>1, <3>4
            <4>3. QED BY <2>2, <4>1, <4>2 DEF Back
        <3>5. QED BY <3>3, <3>4
    <2>3. QED BY <2>1, <2>2
<1>7. \A n \in V : n \in r.red <=> Back(n, y, z) \in t.red
    BY <1>1, <1>4 DEF Back
<1>8. \A n \in U : Back(n, z, y) \in V /\ Back(Back(n, z, y), y, z) = n
    BY <1>1 DEF Back
<1>9. r.root = Back(t.root, z, y)
    BY <1>4 DEF Back
<1>10. QED BY <1>1, <1>2, <1>3, <1>5, <1>6, <1>7, <1>8, <1>9

LEMMA RenamedPlaced ==
    ASSUME NEW U, NEW N, NEW pos, NEW edge, Placed(U, N, pos, edge), NEW z \in U,
           NEW y \in Node, y \notin U, NEW V, V = (U \ {z}) \cup {y}
    PROVE  Placed(V, N, Renamed(pos, V, y, z), Renamed(edge, V, y, z))
<1> DEFINE pr == Renamed(pos, V, y, z)
           er == Renamed(edge, V, y, z)
<1>1. /\ U \in SUBSET Node /\ N \in Nat /\ pos \in [U -> 1..N] /\ edge \in [U -> [Sides -> 1..N]]
      /\ \A i \in 1..N : \E n \in U : pos[n] = i
      /\ \A m, n \in U : pos[m] = pos[n] => m = n
      /\ \A n \in U : edge[n][Left] <= pos[n] /\ pos[n] <= edge[n][Right]
    BY DEF Placed
<1>2. \A n \in V : Back(n, y, z) \in U
    BY DEF Back
<1>3. \A m, n \in V : Back(m, y, z) = Back(n, y, z) => m = n
    BY DEF Back
<1>4. \A n \in U : \E m \in V : Back(m, y, z) = n
    <2>1. TAKE n \in U
    <2>2. CASE n = z
        BY <2>2 DEF Back
    <2>3. CASE n # z
        BY <2>3 DEF Back
    <2>4. QED BY <2>2, <2>3
<1>5. \A n \in V : pr[n] = pos[Back(n, y, z)] /\ er[n] = edge[Back(n, y, z)]
    BY DEF Renamed
<1>6. pr = [n \in V |-> pr[n]] /\ er = [n \in V |-> er[n]]
    BY DEF Renamed
<1> HIDE DEF pr, er
<1>7. pr \in [V -> 1..N]
    <2>1. \A n \in U : pos[n] \in 1..N
        BY <1>1
    <2>2. \A n \in V : pr[n] \in 1..N
        BY ONLY <1>2, <1>5, <2>1
    <2>3. QED BY ONLY <1>6, <2>2
<1>8. er \in [V -> [Sides -> 1..N]]
    <2>1. \A n \in U : edge[n] \in [Sides -> 1..N]
        BY <1>1
    <2>2. \A n \in V : er[n] \in [Sides -> 1..N]
        BY ONLY <1>2, <1>5, <2>1
    <2>3. QED BY ONLY <1>6, <2>2
<1>9. \A i \in 1..N : \E n \in V : pr[n] = i
    <2>1. TAKE i \in 1..N
    <2>2. PICK n \in U : pos[n] = i
        BY <1>1
    <2>3. PICK m \in V : Back(m, y, z) = n
        BY <1>4
    <2>4. QED BY <1>5, <2>2, <2>3
<1>10. \A m, n \in V : pr[m] = pr[n] => m = n
    BY <1>1, <1>2, <1>3, <1>5
<1>11. \A n \in V : er[n][Left] <= pr[n] /\ pr[n] <= er[n][Right]
    BY <1>1, <1>2, <1>5
<1>12. V \in SUBSET Node
    BY <1>1
<1>13. Placed(V, N, pr, er)
    BY <1>1, <1>7, <1>8, <1>9, <1>10, <1>11, <1>12 DEF Placed
<1>14. QED BY <1>13 DEF pr, er

LEMMA SwapInOrder ==
    ASSUME NEW t, NEW U, NEW N, NEW pos, NEW edge, InOrder(t, U, N, pos, edge), NEW z \in U,
           NEW y \in Node, y \notin U, NEW r, Swapped(t, U, y, z, r), NEW V, V = (U \ {z}) \cup {y}
    PROVE  InOrder(r, V, N, Renamed(pos, V, y, z), Renamed(edge, V, y, z))
<1> DEFINE pr == Renamed(pos, V, y, z)
           er == Renamed(edge, V, y, z)
           Bk(n) == Back(n, y, z)
           Fw(n) == Back(n, z, y)
<1>1. Placed(V, N, pr, er)
    BY RenamedPlaced DEF InOrder
<1>2. \A n \in V : pr[n] = pos[Bk(n)] /\ er[n] = edge[Bk(n)]
    BY DEF Renamed
<1>3. /\ y # z /\ Nil \notin V /\ Nil \notin U
      /\ \A n \in V : /\ Bk(n) \in U
                      /\ r.parent[n] = Fw(t.parent[Bk(n)])
                      /\ \A s \in Sides : r.kid[n][s] = Fw(t.kid[Bk(n)][s])
      /\ \A n \in U : Fw(n) \in V /\ Bk(Fw(n)) = n
      /\ r.root = Fw(t.root)
    BY SwapLinks
<1>4. Fw(Nil) = Nil /\ \A n \in V : Fw(Bk(n)) = n
    BY <1>3 DEF Back
<1> HIDE DEF pr, er, Bk, Fw
<1>5. RootSpans(t, U, N, edge) /\ \A n \in U, s \in Sides : Hangs(t, U, pos, edge, n, s)
    BY DEF InOrder
<1>6. RootSpans(r, V, N, er)
    <2>1. t.root \in U /\ t.parent[t.root] = Nil /\ edge[t.root][Left] = 1 /\ edge[t.root][Right] = N
        BY <1>5 DEF RootSpans
    <2>2. r.root \in V /\ Bk(r.root) = t.root
        BY <1>3, <2>1
    <2>3. r.parent[r.root] = Nil /\ er[r.root] = edge[t.root]
        BY <1>2, <1>3, <1>4, <2>1, <2>2
    <2>4. QED BY <2>1, <2>2, <2>3 DEF RootSpans
<1>7. ASSUME NEW n \in V, NEW s \in Sides PROVE Hangs(r, V, pr, er, n, s)
    <2> DEFINE a == Bk(n)
               m == t.kid[a][s]
    <2>1. a \in U /\ r.kid[n][s] = Fw(m) /\ Fw(a) = n
        BY <1>3, <1>4
    <2>2. Hangs(t, U, pos, edge, a, s)
        BY <1>5, <2>1
    <2>3. pr[n] = pos[a] /\ er[n] = edge[a]
        BY <1>2
    <2> HIDE DEF a
    <2>4. CASE m = Nil
        <3>1. edge[a][s] = pos[a]
            BY <1>3, <2>2, <2>4 DEF Hangs
        <3>2. r.kid[n][s] = Nil /\ er[n][s] = pr[n]
            BY <1>4, <2>1, <2>3, <2>4, <3>1
        <3>3. QED BY <3>2 DEF Hangs
    <2>5. CASE m # Nil
        <3>1. m \in U /\ t.parent[m] = a /\ edge[m][s] = edge[a][s] /\ edge[m][Opposite(s)] = Beyond(pos[a], s)
            BY <2>2, <2>5 DEF Hangs
        <3>2. Fw(m) \in V /\ Bk(Fw(m)) = m
            BY <1>3, <3>1
        <3>3. r.parent[Fw(m)] = n /\ er[Fw(m)] = edge[m]
            BY <1>2, <1>3, <2>1, <3>1, <3>2
        <3>4. QED BY <2>1, <2>3, <3>1, <3>2, <3>3 DEF Hangs
    <2>6. QED BY <2>4, <2>5
<1>8. ASSUME NEW n \in V, n # r.root PROVE r.parent[n] \in V /\ r.kid[r.parent[n]][SideOf(r, n)] = n
    <2> DEFINE a == Bk(n)
               q == t.parent[a]
               sa == SideOf(t, a)
    <2>1. a \in U /\ Fw(a) = n /\ a # t.root
        BY <1>3, <1>4, <1>8
    <2>2. q \in U /\ sa \in Sides /\ t.kid[q][sa] = a
        BY <2>1, ParentFacts
    <2>3. Fw(q) \in V /\ Bk(Fw(q)) = q
        BY <1>3, <2>2
    <2>4. r.parent[n] = Fw(q) /\ r.kid[Fw(q)][sa] = n
        BY <1>3, <2>1, <2>2, <2>3
    <2> HIDE DEF a, q, sa
    <2>5. r.kid[r.parent[n]][SideOf(r, n)] = n
        <3>1. sa = Left \/ sa = Right
            BY <2>2, SidesAre
        <3>2. QED BY <2>4, <3>1 DEF SideOf
    <2>6. QED BY <2>3, <2>4, <2>5
<1>9. r \in Tree /\ r.kid[Nil][Left] = Nil
    BY DEF Swapped
<1>10. InOrder(r, V, N, pr, er)
    BY <1>1, <1>6, <1>7, <1>8, <1>9 DEF InOrder
<1>11. QED BY <1>10 DEF pr, er

\* SwapNode puts y in the place of z.
LEMMA SwapEvens ==
    ASSUME NEW t, NEW U, NEW N, NEW pos, NEW edge, NEW bd, NEW y \in Node,
           Evened(t, U, N, pos, edge, bd, y), NEW z \in U, y \notin U,
           NEW r, r = SwapNode(t, y, z), NEW V, V = (U \ {z}) \cup {y}
    PROVE  /\ SameItems(t, r)
           /\ \E e, b : Evened(r, V, N, Renamed(pos, V, y, z), e, b, z)
<1> DEFINE b == [n \in V \cup {Nil} |-> bd[Back(n, y, z)]]
           Bk(n) == Back(n, y, z)
           Fw(n) == Back(n, z, y)
<1>1. /\ InOrder(t, U, N, pos, edge)
      /\ bd \in [U \cup {Nil} -> Nat] /\ bd[Nil] = 0 /\ t.red \subseteq U \cup {y}
      /\ \A n \in U, s \in Sides : bd[n] = bd[t.kid[n][s]] + BlackOne(t, n)
      /\ \A n \in U, s \in Sides : RedApart(t, n, s)
      /\ t.root \notin t.red
    BY DEF Evened
<1>2. Swapped(t, U, y, z, r)
    BY <1>1, SwapFields
<1>3. InOrder(r, V, N, Renamed(pos, V, y, z), Renamed(edge, V, y, z))
    BY <1>1, <1>2, SwapInOrder
<1>4. /\ y # z /\ Nil \notin V /\ Nil \notin U
      /\ \A n \in V : /\ Bk(n) \in U
                      /\ n \in r.red <=> Bk(n) \in t.red
                      /\ \A s \in Sides : r.kid[n][s] = Fw(t.kid[Bk(n)][s])
      /\ \A n \in U : Fw(n) \in V /\ Bk(Fw(n)) = n
      /\ r.root = Fw(t.root)
    BY <1>1, <1>2, SwapLinks
<1>5. Fw(Nil) = Nil /\ Bk(Nil) = Nil
    <2>1. y # Nil
        BY DEF Node, Nil
    <2>2. QED BY <1>4, <2>1 DEF Back
<1>6. \A n \in V \cup {Nil} : b[n] = bd[Bk(n)]
    OBVIOUS
<1>7. b \in [V \cup {Nil} -> Nat] /\ b[Nil] = 0
    BY <1>1, <1>4, <1>5
<1> HIDE DEF b, Bk, Fw
<1>8. \A n \in U, s \in Sides : t.kid[n][s] \in U \cup {Nil}
    BY <1>1, KidsAre
<1>9. ASSUME NEW n \in V, NEW s \in Sides PROVE b[n] = b[r.kid[n][s]] + BlackOne(r, n) /\ RedApart(r, n, s)
    <2> DEFINE a == Bk(n)
               m == t.kid[a][s]
    <2>1. a \in U /\ r.kid[n][s] = Fw(m) /\ m \in U \cup {Nil} /\ b[n] = bd[a]
        BY <1>4, <1>6, <1>8
    <2>2. bd[a] = bd[m] + BlackOne(t, a) /\ RedApart(t, a, s)
        BY <1>1, <2>1
    <2>3. BlackOne(r, n) = BlackOne(t, a)
        BY <1>4 DEF BlackOne
    <2>4. Fw(m) \in V \cup {Nil} /\ Bk(Fw(m)) = m
        BY <1>4, <1>5, <2>1
    <2>5. b[Fw(m)] = bd[m]
        BY <1>6, <2>4
    <2>6. Fw(m) \in r.red => m \in t.red
        <3>1. CASE Fw(m) \in V
            BY <1>4, <2>4, <3>1
        <3>2. CASE Fw(m) = Nil
            <4>1. Nil \notin r.red
                <5>1. Nil \notin t.red /\ y # Nil
                    BY <1>1, <1>4 DEF Node, Nil
                <5>2. QED BY <1>2, <5>1 DEF Swapped
            <4>2. QED BY <3>2, <4>1
        <3>3. QED BY <2>4, <3>1, <3>2
    <2>7. n \in r.red <=> a \in t.red
        BY <1>4
    <2>8. RedApart(r, n, s)
        BY <2>1, <2>2, <2>6, <2>7 DEF RedApart
    <2>9. QED BY <2>1, <2>2, <2>3, <2>5, <2>8
<1>10. r.root \notin r.red
    <2>1. t.root \in U
        BY <1>1, ParentFacts
    <2>2. QED BY <1>1, <1>4, <2>1
<1>11. r.red \subseteq V \cup {z} /\ SameItems(t, r)
    BY <1>1, <1>2 DEF Swapped
<1>12. Evened(r, V, N, Renamed(pos, V, y, z), Renamed(edge, V, y, z), b, z)
    BY <1>3, <1>7, <1>9, <1>10, <1>11 DEF Evened
<1>13. QED BY <1>11, <1>12

LEMMA ExtremeIs ==
    ASSUME NEW t \in Tree, NEW side \in Sides
    PROVE  \E F : /\ Computes(F, Links, {n \in Links : t.kid[n][side] = Nil}, [n \in Links |-> n],
                              [n \in Links |-> t.kid[n][side]])
                  /\ \A n : Extreme(t, n, side) = IF n = Nil THEN Nil ELSE F[n]
<1> DEFINE Ends == {n \in Links : t.kid[n][side] = Nil}
           Result == [n \in Links |-> n]
           Next1 == [n \in Links |-> t.kid[n][side]]
           Loop(F) == [n \in Links |-> IF t.kid[n][side] = Nil THEN n ELSE F[t.kid[n][side]]]
           Body(F) == [n \in Links |-> IF n \in Ends THEN Result[n] ELSE F[Next1[n]]]
<1>1. \A n \in Links : n \in Ends \/ Next1[n] \in Links
    BY TreeFields
<1>2. \A F : Loop(F) = Body(F)
    OBVIOUS
<1>3. \E F : F = Body(F)
    <2> HIDE DEF Ends, Result, Next1
    <2>1. Computable(Links, Ends, Result, Next1)
        BY <1>1, TailRecursion
    <2>2. PICK F : Computes(F, Links, Ends, Result, Next1)
        BY <2>1 DEF Computable
    <2>3. F = Body(F)
        BY <2>2 DEF Computes
    <2>4. QED BY <2>3
<1>4. \E F : F = Loop(F)
    <2> HIDE DEF Loop, Body
    <2>1. QED BY <1>2, <1>3
<1> DEFINE F == CHOOSE F : F = Loop(F)
<1>5. F = Loop(F)
    <2> HIDE DEF Loop
    <2>1. QED BY <1>4
<1>6. F = Body(F)
    <2> HIDE DEF Loop, Body, F
    <2>1. QED BY <1>2, <1>5
<1>7. \A n : Extreme(t, n, side) = IF n = Nil THEN Nil ELSE F[n]
    BY DEF Extreme
<1>8. Computes(F, Links, Ends, Result, Next1)
    <2> HIDE DEF F, Ends, Result, Next1
    <2>1. QED BY <1>6 DEF Computes
<1>9. QED BY <1>7, <1>8

\* The outermost node below n.
LEMMA ExtremePlace ==
    ASSUME NEW t, NEW U, NEW N, NEW pos, NEW edge, InOrder(t, U, N, pos, edge), NEW n \in U, NEW side \in Sides,
           NEW m, m = Extreme(t, n, side)
    PROVE  m \in U /\ t.kid[m][side] = Nil /\ pos[m] = edge[n][side]
<1> DEFINE Ends == {a \in Links : t.kid[a][side] = Nil}
           Result == [a \in Links |-> a]
           Next1 == [a \in Links |-> t.kid[a][side]]
           Good == {a \in U : edge[a][side] = edge[n][side]}
           w == [a \in U |-> Span(edge, a)]
<1>1. t \in Tree /\ U \subseteq Links /\ Nil \notin U
    BY HungOnce
<1>2. PICK F : /\ Computes(F, Links, Ends, Result, Next1)
               /\ \A a : Extreme(t, a, side) = IF a = Nil THEN Nil ELSE F[a]
    BY <1>1, ExtremeIs
<1>3. Good \subseteq Links /\ \A a \in Good : w[a] \in Nat
    BY <1>1, SpanBelow
<1>4. ASSUME NEW a \in Good, a \notin Ends PROVE Next1[a] \in Good /\ w[Next1[a]] < w[a]
    <2>1. a \in U /\ a \in Links /\ t.kid[a][side] # Nil /\ Next1[a] = t.kid[a][side]
        BY <1>1, <1>4
    <2>2. t.kid[a][side] \in U /\ edge[t.kid[a][side]][side] = edge[a][side]
        BY <2>1, KidFacts
    <2>3. Span(edge, t.kid[a][side]) < Span(edge, a)
        BY <2>1, SpanBelow
    <2>4. QED BY <2>1, <2>2, <2>3
<1>5. n \in Good
    OBVIOUS
<1>6. PICK z \in Good : z \in Ends /\ F[n] = Result[z]
    <2> HIDE DEF Good, w, Ends, Result, Next1
    <2>1. QED BY <1>2, <1>3, <1>4, <1>5, LoopEnds
<1>7. m = z
    BY <1>1, <1>2, <1>6
<1>8. edge[z][side] = pos[z]
    BY <1>6, BareSide
<1>9. QED BY <1>6, <1>7, <1>8

\* The way up from n.
UpEnds(t, side) == {a \in Links : t.parent[a] = Nil \/ a # t.kid[t.parent[a]][side]}

LEMMA NeighbourIs ==
    ASSUME NEW t \in Tree, NEW side
    PROVE  \E F : /\ Computes(F, Links, UpEnds(t, side), [a \in Links |-> t.parent[a]], [a \in Links |-> t.parent[a]])
                  /\ \A n : Neighbour(t, n, side) = IF t.kid[n][side] # Nil THEN Extreme(t, t.kid[n][side], Opposite(side))
                                                    ELSE F[n]
<1> DEFINE Ends == UpEnds(t, side)
           Result == [n \in Links |-> t.parent[n]]
           Next1 == [n \in Links |-> t.parent[n]]
           Loop(F) == [n \in Links |-> LET p == t.parent[n] IN IF p = Nil \/ n # t.kid[p][side] THEN p ELSE F[p]]
           Body(F) == [n \in Links |-> IF n \in Ends THEN Result[n] ELSE F[Next1[n]]]
<1>1. \A n \in Links : n \in Ends \/ Next1[n] \in Links
    BY TreeFields
<1>2. \A F : Loop(F) = Body(F)
    BY DEF UpEnds
<1>3. \E F : F = Body(F)
    <2> HIDE DEF Ends, Result, Next1
    <2>1. Computable(Links, Ends, Result, Next1)
        BY <1>1, TailRecursion
    <2>2. PICK F : Computes(F, Links, Ends, Result, Next1)
        BY <2>1 DEF Computable
    <2>3. F = Body(F)
        BY <2>2 DEF Computes
    <2>4. QED BY <2>3
<1>4. \E F : F = Loop(F)
    <2> HIDE DEF Loop, Body
    <2>1. QED BY <1>2, <1>3
<1> DEFINE F == CHOOSE F : F = Loop(F)
<1>5. F = Loop(F)
    <2> HIDE DEF Loop
    <2>1. QED BY <1>4
<1>6. F = Body(F)
    <2> HIDE DEF Loop, Body, F
    <2>1. QED BY <1>2, <1>5
<1>7. \A n : Neighbour(t, n, side) = IF t.kid[n][side] # Nil THEN Extreme(t, t.kid[n][side], Opposite(side)) ELSE F[n]
    BY DEF Neighbour
<1>8. Computes(F, Links, Ends, Result, Next1)
    <2> HIDE DEF F, Ends, Result, Next1
    <2>1. QED BY <1>6 DEF Computes
<1>9. QED BY <1>7, <1>8

\* The first and the last place.
Brink(N, side) == IF side = Left THEN 1 ELSE N

LEMMA UpPlace ==
    ASSUME NEW t, NEW U, NEW N, NEW pos, NEW edge, InOrder(t, U, N, pos, edge), NEW n \in U, NEW side \in Sides,
           t.kid[n][side] = Nil, NEW m, m = Neighbour(t, n, side)
    PROVE  \/ m = Nil /\ pos[n] = Brink(N, side)
           \/ m \in U /\ pos[m] = Beyond(pos[n], side)
<1> DEFINE Ends == UpEnds(t, side)
           Result == [a \in Links |-> t.parent[a]]
           Good == {a \in U : edge[a][side] = pos[n]}
           w == [a \in U |-> N - Span(edge, a)]
<1>1. t \in Tree /\ U \subseteq Links /\ Nil \notin U
    BY HungOnce
<1>2. PICK F : /\ Computes(F, Links, Ends, Result, Result)
               /\ \A a : Neighbour(t, a, side) = IF t.kid[a][side] # Nil THEN Extreme(t, t.kid[a][side], Opposite(side))
                                                 ELSE F[a]
    BY <1>1, NeighbourIs
<1>3. Good \subseteq Links /\ \A a \in Good : w[a] \in Nat
    BY <1>1, SpanBelow
<1>4. ASSUME NEW a \in Good, a \notin Ends PROVE Result[a] \in Good /\ w[Result[a]] < w[a]
    <2> DEFINE p == t.parent[a]
    <2>1. a \in U /\ a \in Links /\ p # Nil /\ a = t.kid[p][side] /\ Result[a] = p
        BY <1>1, <1>4 DEF UpEnds
    <2>2. p \in U
        BY <1>1, <2>1, ParentFacts
    <2>3. edge[a][side] = edge[p][side]
        BY <1>1, <2>1, <2>2, KidFacts
    <2>4. Span(edge, a) < Span(edge, p) /\ Span(edge, a) \in Nat /\ Span(edge, p) \in Nat /\ N \in Nat
        BY <1>1, <2>1, <2>2, SpanBelow
    <2>5. QED BY <2>1, <2>2, <2>3, <2>4
<1>5. n \in Good
    BY BareSide
<1>6. PICK z \in Good : z \in Ends /\ F[n] = Result[z]
    <2> HIDE DEF Good, w, Ends, Result
    <2>1. QED BY <1>2, <1>3, <1>4, <1>5, LoopEnds
<1>7. m = t.parent[z] /\ z \in U
    BY <1>1, <1>2, <1>6
<1>8. CASE z = t.root
    <2>1. m = Nil
        BY <1>7, <1>8, ParentFacts
    <2>2. edge[z][Left] = 1 /\ edge[z][Right] = N
        BY <1>7, <1>8 DEF InOrder, RootSpans
    <2>3. pos[n] = Brink(N, side)
        BY <1>6, <2>2, SidesAre DEF Brink
    <2>4. QED BY <2>1, <2>3
<1>9. CASE z # t.root
    <2> DEFINE sz == SideOf(t, z)
    <2>1. m \in U /\ sz \in Sides /\ t.kid[m][sz] = z
        BY <1>7, <1>9, ParentFacts
    <2>2. sz # side
        BY <1>1, <1>6, <1>7, <2>1 DEF UpEnds
    <2>3. sz = Opposite(side)
        BY <2>1, <2>2, TwoSides
    <2>4. edge[z][side] = Beyond(pos[m], Opposite(side))
        BY <1>1, <1>7, <2>1, <2>3, KidFacts, TwoSides
    <2>5. pos[m] \in Int /\ pos[n] \in Int
        BY <2>1, PlacedNumbers DEF InOrder
    <2>6. pos[m] = Beyond(pos[n], side)
        BY <1>6, <2>4, <2>5, SidesAre DEF Beyond
    <2>7. QED BY <2>1, <2>6
<1>10. QED BY <1>8, <1>9

\* The node in the next place, or none after the last one.
LEMMA NeighbourPlace ==
    ASSUME NEW t, NEW U, NEW N, NEW pos, NEW edge, InOrder(t, U, N, pos, edge), NEW n \in U, NEW side \in Sides,
           NEW m, m = Neighbour(t, n, side)
    PROVE  /\ \/ m = Nil /\ pos[n] = Brink(N, side)
              \/ m \in U /\ pos[m] = Beyond(pos[n], side)
           /\ t.kid[n][side] # Nil => m \in U /\ t.kid[m][Opposite(side)] = Nil
<1>1. CASE t.kid[n][side] = Nil
    BY <1>1, UpPlace
<1>2. CASE t.kid[n][side] # Nil
    <2> DEFINE k == t.kid[n][side]
    <2>1. t \in Tree /\ Opposite(side) \in Sides
        BY HungOnce, TwoSides
    <2>2. m = Extreme(t, k, Opposite(side))
        BY <1>2, <2>1, NeighbourIs
    <2>3. k \in U /\ edge[k][Opposite(side)] = Beyond(pos[n], side)
        BY <1>2, KidFacts
    <2>4. m \in U /\ t.kid[m][Opposite(side)] = Nil /\ pos[m] = edge[k][Opposite(side)]
        BY <2>1, <2>2, <2>3, ExtremePlace
    <2>5. QED BY <2>3, <2>4
<1>3. QED BY <1>1, <1>2

\* The last assignments of RBDelete.
Finished(u, z) == [u EXCEPT !.parent[u.root] = Nil, !.used = @ \ {z}, !.red = @ \ {z}]

LEMMA DeleteFinish ==
    ASSUME NEW u, NEW V, NEW N, NEW pos, NEW edge, NEW bd, NEW z, z \notin V,
           Evened(u, V, N, pos, edge, bd, z),
           NEW r, r = Finished(u, z)
    PROVE  /\ Balanced(r, V, N, pos, edge, bd)
           /\ r.used = u.used \ {z} /\ r.key = u.key /\ r.value = u.value
<1>1. /\ InOrder(u, V, N, pos, edge)
      /\ bd \in [V \cup {Nil} -> Nat] /\ bd[Nil] = 0 /\ u.red \subseteq V \cup {z}
      /\ \A n \in V, s \in Sides : bd[n] = bd[u.kid[n][s]] + BlackOne(u, n)
      /\ \A n \in V, s \in Sides : RedApart(u, n, s)
      /\ u.root \notin u.red
    BY DEF Evened
<1>2. /\ u \in Tree /\ Placed(V, N, pos, edge) /\ RootSpans(u, V, N, edge)
      /\ \A n \in V, s \in Sides : Hangs(u, V, pos, edge, n, s)
      /\ \A n \in V : n # u.root => u.parent[n] \in V /\ u.kid[u.parent[n]][SideOf(u, n)] = n
      /\ u.kid[Nil][Left] = Nil
    BY <1>1 DEF InOrder
<1>3. Nil \notin V /\ V \subseteq Links /\ Nil \in Links /\ u.root \in Links
    BY <1>1, <1>2, HungOnce, TreeFields DEF Links
<1>4. /\ r \in Tree /\ r.root = u.root /\ r.kid = u.kid /\ r.red = u.red \ {z}
      /\ r.used = u.used \ {z} /\ r.key = u.key /\ r.value = u.value
      /\ r.parent = [u.parent EXCEPT ![u.root] = Nil]
    <2> DEFINE un == u.used \ {z}
               rn == u.red \ {z}
               pn == [u.parent EXCEPT ![u.root] = Nil]
    <2>1. un \in SUBSET Node /\ rn \in SUBSET Links
        BY <1>2 DEF Tree
    <2>2. pn \in [Links -> Links]
        BY <1>2, <1>3 DEF Tree
    <2>3. r = [u EXCEPT !.parent = pn, !.used = un, !.red = rn]
        BY <1>2 DEF Tree, Finished
    <2> HIDE DEF un, rn, pn
    <2>4. r \in Tree /\ r.root = u.root /\ r.kid = u.kid /\ r.red = rn /\ r.used = un
          /\ r.key = u.key /\ r.value = u.value /\ r.parent = pn
        BY ONLY <1>2, <2>1, <2>2, <2>3 DEF Tree
    <2>5. QED BY <2>4 DEF un, rn, pn
<1>5. \A n \in V : r.parent[n] = u.parent[n]
    <2>1. TAKE n \in V
    <2>2. u.parent[u.root] = Nil
        BY <1>2 DEF RootSpans
    <2>3. u.parent \in [Links -> Links]
        BY <1>2 DEF Tree
    <2>4. QED BY <1>3, <1>4, <2>2, <2>3
<1>6. RootSpans(r, V, N, edge)
    BY <1>2, <1>4, <1>5 DEF RootSpans
<1>7. ASSUME NEW n \in V, NEW s \in Sides PROVE Hangs(r, V, pos, edge, n, s)
    <2>1. Hangs(u, V, pos, edge, n, s)
        BY <1>2
    <2>2. QED BY <1>4, <1>5, <2>1 DEF Hangs
<1>8. ASSUME NEW n \in V, n # r.root PROVE r.parent[n] \in V /\ r.kid[r.parent[n]][SideOf(r, n)] = n
    <2>1. u.parent[n] \in V /\ u.kid[u.parent[n]][SideOf(u, n)] = n
        BY <1>2, <1>4, <1>8
    <2>2. SideOf(r, n) = SideOf(u, n)
        BY <1>4, <1>5 DEF SideOf
    <2>3. QED BY <1>4, <1>5, <2>1, <2>2
<1>9. InOrder(r, V, N, pos, edge)
    BY <1>2, <1>4, <1>6, <1>7, <1>8 DEF InOrder
<1>10. Levels(r, V, bd)
    <2>1. \A n \in V : BlackOne(r, n) = BlackOne(u, n)
        BY <1>4 DEF BlackOne
    <2>2. r.red \subseteq V
        BY <1>1, <1>4
    <2>3. QED BY <1>1, <1>4, <2>1, <2>2 DEF Levels
<1>11. \A n \in V, s \in Sides : RedApart(r, n, s)
    BY <1>1, <1>4 DEF RedApart
<1>12. r.root \notin r.red
    BY <1>1, <1>4
<1>13. Balanced(r, V, N, pos, edge, bd)
    BY <1>9, <1>10, <1>11, <1>12 DEF Balanced
<1>14. QED BY <1>4, <1>13

\* Closing the gap of a node and giving its successor the place of z is the
\* same as closing the place of z.
LEMMA CutRenamed ==
    ASSUME NEW U, NEW N, NEW pos, NEW edge, Placed(U, N, pos, edge), NEW z \in U, NEW y \in U,
           pos[y] = pos[z] + 1
    PROVE  Renamed(PosCut(U, pos, y), U \ {z}, y, z) = PosCut(U, pos, z)
<1>1. y # z /\ \A n \in U : pos[n] \in Int
    BY PlacedNumbers
<1>2. ASSUME NEW n \in U \ {z}
      PROVE  PosCut(U, pos, y)[Back(n, y, z)] = PosCut(U, pos, z)[n]
    <2>1. PosCut(U, pos, z)[n] = Closer(pos[z], pos[n], Left)
        BY DEF PosCut
    <2>2. CASE n = y
        <3>1. PosCut(U, pos, y)[z] = Closer(pos[y], pos[z], Left)
            BY <1>1 DEF PosCut
        <3>2. Closer(pos[y], pos[z], Left) = Closer(pos[z], pos[y], Left)
            BY <1>1, SidesAre DEF Closer
        <3>3. QED BY <2>1, <2>2, <3>1, <3>2 DEF Back
    <2>3. CASE n # y
        <3>1. PosCut(U, pos, y)[n] = Closer(pos[y], pos[n], Left)
            BY <2>3 DEF PosCut
        <3>2. pos[n] # pos[y] /\ pos[n] # pos[z]
            BY <2>3 DEF Placed
        <3>3. Closer(pos[y], pos[n], Left) = Closer(pos[z], pos[n], Left)
            BY <1>1, <3>2, SidesAre DEF Closer
        <3>4. QED BY <2>1, <2>3, <3>1, <3>3 DEF Back
    <2>4. QED BY <2>2, <2>3
<1>3. PosCut(U, pos, z) = [n \in U \ {z} |-> PosCut(U, pos, z)[n]]
    BY DEF PosCut
<1>4. Renamed(PosCut(U, pos, y), U \ {z}, y, z) = [n \in U \ {z} |-> PosCut(U, pos, y)[Back(n, y, z)]]
    BY DEF Renamed
<1>5. QED BY <1>2, <1>3, <1>4

\* u lacks the node n, and has the others as they were.
ItemGone(t, u, n) == u.used = t.used \ {n} /\ u.key = t.key /\ u.value = t.value

\* RBDelete takes the node out and leaves the others in their order.
LEMMA DeleteBalances ==
    ASSUME NEW t, NEW U, NEW N, NEW pos, NEW edge, NEW bd, Balanced(t, U, N, pos, edge, bd), NEW z \in U,
           NEW r, r = RBDelete(t, z)
    PROVE  /\ \E e, b : Balanced(r, U \ {z}, N - 1, PosCut(U, pos, z), e, b)
           /\ ItemGone(t, r, z)
<1> DEFINE y == IF Nil \in {t.kid[z][Left], t.kid[z][Right]} THEN z ELSE Neighbour(t, z, Right)
           rest == IF y = z THEN Unlink(t, z) ELSE SwapNode(Unlink(t, y), y, z)
<1>1. r = Finished(rest, z)
    BY DEF RBDelete, Finished
<1>2. InOrder(t, U, N, pos, edge) /\ Placed(U, N, pos, edge) /\ U \subseteq Node
    BY DEF Balanced, InOrder, Placed
<1>3. SameItems(t, rest) /\ \E e, b : Evened(rest, U \ {z}, N - 1, PosCut(U, pos, z), e, b, z)
    <2>1. CASE Nil \in {t.kid[z][Left], t.kid[z][Right]}
        BY <2>1, UnlinkEvens
    <2>2. CASE Nil \notin {t.kid[z][Left], t.kid[z][Right]}
        <3>1. y = Neighbour(t, z, Right) /\ t.kid[z][Right] # Nil
            BY <2>2
        <3> HIDE DEF y
        <3>2. y \in U /\ t.kid[y][Left] = Nil /\ pos[y] = pos[z] + 1
            <4>1. y \in U /\ t.kid[y][Opposite(Right)] = Nil
                BY <1>2, <3>1, NeighbourPlace, SidesAre
            <4>2. y = Nil \/ pos[y] = Beyond(pos[z], Right)
                BY <1>2, <3>1, NeighbourPlace, SidesAre
            <4>3. y # Nil
                BY <1>2, <4>1, HungOnce
            <4>4. QED BY <4>1, <4>2, <4>3, SidesAre DEF Beyond
        <3>3. y # z
            <4>1. pos[z] \in Int
                BY <1>2, PlacedNumbers
            <4>2. QED BY <3>2, <4>1
        <3> DEFINE t1 == Unlink(t, y)
        <3>4. SameItems(t, t1) /\ \E e, b : Evened(t1, U \ {y}, N - 1, PosCut(U, pos, y), e, b, y)
            BY <3>2, UnlinkEvens
        <3>5. rest = SwapNode(t1, y, z)
            BY <3>3
        <3> HIDE DEF t1
        <3>6. z \in U \ {y} /\ y \notin U \ {y} /\ y \in Node /\ U \ {z} = ((U \ {y}) \ {z}) \cup {y}
            BY <1>2, <3>2, <3>3
        <3> HIDE DEF rest
        <3>7. /\ SameItems(t1, rest)
              /\ \E e, b : Evened(rest, U \ {z}, N - 1, Renamed(PosCut(U, pos, y), U \ {z}, y, z), e, b, z)
            BY <3>4, <3>5, <3>6, SwapEvens
        <3>8. Renamed(PosCut(U, pos, y), U \ {z}, y, z) = PosCut(U, pos, z)
            BY <1>2, <3>2, CutRenamed
        <3>9. QED BY <3>4, <3>7, <3>8 DEF SameItems
    <2>3. QED BY <2>1, <2>2
<1> HIDE DEF rest
<1>4. PICK e, b : Evened(rest, U \ {z}, N - 1, PosCut(U, pos, z), e, b, z)
    BY <1>3
<1>5. /\ Balanced(r, U \ {z}, N - 1, PosCut(U, pos, z), e, b)
      /\ r.used = rest.used \ {z} /\ r.key = rest.key /\ r.value = rest.value
    <2>1. z \notin U \ {z}
        OBVIOUS
    <2>2. QED BY ONLY <1>1, <1>4, <2>1, DeleteFinish
<1>6. QED BY <1>3, <1>5 DEF SameItems, ItemGone

LEMMA CutSorted ==
    ASSUME NEW t, NEW U, NEW N, NEW pos, NEW edge, Placed(U, N, pos, edge), NEW z \in U, Sorted(t, U, pos),
           NEW r, r.key = t.key
    PROVE  Sorted(r, U \ {z}, PosCut(U, pos, z))
<1>1. SUFFICES ASSUME NEW m \in U \ {z}, NEW n \in U \ {z}, PosCut(U, pos, z)[m] < PosCut(U, pos, z)[n]
               PROVE  t.key[m] <= t.key[n]
    BY DEF Sorted
<1>2. pos[m] \in Int /\ pos[n] \in Int /\ pos[z] \in Int
    BY PlacedNumbers
<1>3. PosCut(U, pos, z)[m] = Closer(pos[z], pos[m], Left) /\ PosCut(U, pos, z)[n] = Closer(pos[z], pos[n], Left)
    BY DEF PosCut
<1>4. Closer(pos[z], pos[m], Left) < Closer(pos[z], pos[n], Left)
    BY <1>1, <1>3
<1>5. pos[m] < pos[n]
    BY <1>2, <1>4, SidesAre DEF Closer
<1>6. QED BY <1>5 DEF Sorted

\* RBDelete keeps the tree well made.
THEOREM RBDeleteWellMade ==
    ASSUME NEW t, WellMade(t), NEW z \in t.used
    PROVE  WellMade(RBDelete(t, z)) /\ ItemGone(t, RBDelete(t, z), z)
<1> DEFINE r == RBDelete(t, z)
<1>1. PICK N, pos, edge, bd : Balanced(t, t.used, N, pos, edge, bd) /\ Sorted(t, t.used, pos)
    BY DEF WellMade
<1>2. Placed(t.used, N, pos, edge)
    BY <1>1 DEF Balanced, InOrder
<1>3. /\ \E e, b : Balanced(r, t.used \ {z}, N - 1, PosCut(t.used, pos, z), e, b)
      /\ r.used = t.used \ {z} /\ r.key = t.key /\ r.value = t.value
    <2>1. r = RBDelete(t, z)
        OBVIOUS
    <2> HIDE DEF r
    <2>2. ItemGone(t, r, z) /\ \E e, b : Balanced(r, t.used \ {z}, N - 1, PosCut(t.used, pos, z), e, b)
        BY <1>1, <2>1, DeleteBalances
    <2>3. QED BY <2>2 DEF ItemGone
<1> HIDE DEF r
<1>4. Sorted(r, t.used \ {z}, PosCut(t.used, pos, z))
    BY <1>1, <1>2, <1>3, CutSorted
<1>5. WellMade(r)
    BY <1>3, <1>4 DEF WellMade
<1>6. QED BY <1>3, <1>5 DEF ItemGone, r

=============================================================================

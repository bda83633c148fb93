----------------------------- MODULE RBMapProofs ----------------------------
(***************************************************************************)
(* TreeInv and TreeIsStore of RBMap and RBMultiMap: searches and walks find *)
(* the places of a well-made tree, RemoveKey takes the nodes with the key  *)
(* round by round, and every operation is one of a store of items.         *)
(***************************************************************************)
EXTENDS RBTreeProofs

\* The side of n on which the key is looked for by Descend.
SeekSide(t, n, key) == IF key < t.key[n] THEN Left ELSE Right

SeekEnds(t, key) == {n \in Links : t.key[n] = key \/ t.kid[n][SeekSide(t, n, key)] = Nil}

LEMMA DescendIs ==
    ASSUME NEW t \in Tree, NEW key
    PROVE  \E F : /\ Computes(F, Links, SeekEnds(t, key), [n \in Links |-> n],
                              [n \in Links |-> t.kid[n][SeekSide(t, n, key)]])
                  /\ Descend(t, key) = IF t.root = Nil THEN Nil ELSE F[t.root]
<1> DEFINE Ends == SeekEnds(t, key)
           Result == [n \in Links |-> n]
           Next1 == [n \in Links |-> t.kid[n][SeekSide(t, n, key)]]
           Loop(F) == [n \in Links |-> LET next == t.kid[n][IF key < t.key[n] THEN Left ELSE Right]
                                       IN  IF t.key[n] = key \/ next = Nil THEN n ELSE F[next]]
           Body(F) == [n \in Links |-> IF n \in Ends THEN Result[n] ELSE F[Next1[n]]]
<1>1. \A n \in Links : n \in Ends \/ Next1[n] \in Links
    BY TreeFields, SidesAre DEF SeekSide
<1>2. \A F : Loop(F) = Body(F)
    BY DEF SeekSide, SeekEnds
<1>3. \E F : F = Body(F)
    <2> HIDE DEF Ends, Result, Next1
    <2>1. Computable(Links, Ends, Result, Next1)
        BY <1>1, TailRecursion
    <2>2. PICK F : Computes(F, Links, Ends, Result, Next1)
        BY <2>1 DEF Computable
    <2>3. F = Body(F)
        BY <2>2 DEF Computes
    <2>4. QED BY <2>3
<1>4. \E F : F = Loop(F)
    <2> HIDE DEF Loop, Body
    <2>1. QED BY <1>2, <1>3
<1> DEFINE F == CHOOSE F : F = Loop(F)
<1>5. F = Loop(F)
    <2> HIDE DEF Loop
    <2>1. QED BY <1>4
<1>6. F = Body(F)
    <2> HIDE DEF Loop, Body, F
    <2>1. QED BY <1>2, <1>5
<1>7. Descend(t, key) = IF t.root = Nil THEN Nil ELSE F[t.root]
    BY DEF Descend
<1>8. Computes(F, Links, Ends, Result, Next1)
    <2> HIDE DEF F, Ends, Result, Next1
    <2>1. QED BY <1>6 DEF Computes
<1>9. QED BY <1>7, <1>8

\* Descend finds a node with the key, or the last before or the first after
\* the place where it would be.
LEMMA DescendPlace ==
    ASSUME NEW t, NEW U, NEW N, NEW pos, NEW edge, InOrder(t, U, N, pos, edge), Sorted(t, U, pos),
           U # {}, NEW key \in Nat, NEW a, a = Descend(t, key)
    PROVE  /\ a \in U
           /\ key < t.key[a] => \A m \in U : pos[m] < pos[a] => t.key[m] < key
           /\ t.key[a] < key => \A m \in U : pos[m] > pos[a] => key < t.key[m]
<1> DEFINE Ends == SeekEnds(t, key)
           Result == [n \in Links |-> n]
           Next1 == [n \in Links |-> t.kid[n][SeekSide(t, n, key)]]
           G == {n \in U : /\ \A m \in U : pos[m] < edge[n][Left] => t.key[m] < key
                           /\ \A m \in U : pos[m] > edge[n][Right] => key < t.key[m]}
           w == [n \in U |-> Span(edge, n)]
<1>1. t \in Tree /\ U \subseteq Links /\ Nil \notin U
    BY HungOnce
<1>2. PICK F : /\ Computes(F, Links, Ends, Result, Next1)
               /\ Descend(t, key) = IF t.root = Nil THEN Nil ELSE F[t.root]
    BY <1>1, DescendIs
<1>3. t.root \in U
    BY ParentFacts
<1>4. \A n \in U : /\ pos[n] \in Int /\ edge[n][Left] \in Int /\ edge[n][Right] \in Int
                   /\ edge[n][Left] <= pos[n] /\ pos[n] <= edge[n][Right]
                   /\ 1 <= edge[n][Left] /\ edge[n][Right] <= N
    BY Numbers
<1>5. \A n \in U : t.key[n] \in Nat
    BY <1>1, TreeFields
<1>6. \A n \in Links : SeekSide(t, n, key) \in Sides
    BY SidesAre DEF SeekSide
<1>7. t.root \in G
    <2>1. edge[t.root][Left] = 1 /\ edge[t.root][Right] = N
        BY DEF InOrder, RootSpans
    <2>2. \A m \in U : 1 <= pos[m] /\ pos[m] <= N
        BY PlacedNumbers DEF InOrder
    <2>3. N \in Nat
        BY DEF InOrder, Placed
    <2>4. QED BY <1>3, <1>4, <2>1, <2>2, <2>3
<1>8. ASSUME NEW n \in G, n \notin Ends
      PROVE  Next1[n] \in G /\ w[Next1[n]] < w[n]
    <2> DEFINE r == SeekSide(t, n, key)
               m == t.kid[n][r]
    <2>1. n \in U /\ n \in Links /\ r \in Sides /\ m # Nil /\ Next1[n] = m /\ t.key[n] # key
        BY <1>1, <1>6, <1>8 DEF SeekEnds
    <2>2. m \in U /\ edge[m][r] = edge[n][r] /\ edge[m][Opposite(r)] = Beyond(pos[n], r)
        BY <2>1, KidFacts
    <2>3. \A i, j \in U : pos[i] = pos[j] => i = j
        BY OnePlace
    <2>4. \A i, j \in U : pos[i] < pos[j] => t.key[i] <= t.key[j]
        BY DEF Sorted
    <2>5. ASSUME r = Left PROVE m \in G
        <3>1. key < t.key[n]
            BY <1>5, <2>1, <2>5, SidesAre DEF SeekSide
        <3>2. edge[m][Left] = edge[n][Left] /\ edge[m][Right] = pos[n] - 1
            BY <2>2, <2>5, SidesAre DEF Beyond
        <3>3. ASSUME NEW i \in U, pos[i] > edge[m][Right] PROVE key < t.key[i]
            <4>1. pos[i] >= pos[n]
                BY <1>4, <2>1, <3>2, <3>3
            <4>2. i = n \/ pos[n] < pos[i]
                BY <1>4, <2>1, <2>3, <4>1
            <4>3. t.key[n] <= t.key[i]
                BY <1>5, <2>1, <2>4, <4>2
            <4>4. t.key[i] \in Nat /\ t.key[n] \in Nat
                BY <1>5, <2>1
            <4>5. QED BY ONLY key \in Nat, <3>1, <4>3, <4>4
        <3>4. QED BY <2>2, <3>2, <3>3
    <2>6. ASSUME r = Right PROVE m \in G
        <3>1. t.key[n] < key
            BY <1>5, <2>1, <2>6, SidesAre DEF SeekSide
        <3>2. edge[m][Right] = edge[n][Right] /\ edge[m][Left] = pos[n] + 1
            BY <2>2, <2>6, SidesAre DEF Beyond
        <3>3. ASSUME NEW i \in U, pos[i] < edge[m][Left] PROVE t.key[i] < key
            <4>1. pos[i] <= pos[n]
                BY <1>4, <2>1, <3>2, <3>3
            <4>2. i = n \/ pos[i] < pos[n]
                BY <1>4, <2>1, <2>3, <4>1
            <4>3. t.key[i] <= t.key[n]
                BY <1>5, <2>1, <2>4, <4>2
            <4>4. t.key[i] \in Nat /\ t.key[n] \in Nat
                BY <1>5, <2>1
            <4>5. QED BY ONLY key \in Nat, <3>1, <4>3, <4>4
        <3>4. QED BY <2>2, <3>2, <3>3
    <2>7. m \in G
        BY <2>1, <2>5, <2>6, SidesAre
    <2>8. w[m] < w[n]
        BY <2>1, <2>2, SpanBelow
    <2>9. QED BY <2>1, <2>7, <2>8
<1>9. \A n \in G : w[n] \in Nat
    BY SpanBelow
<1>10. G \subseteq Links
    BY <1>1
<1>11. PICK z \in G : z \in Ends /\ F[t.root] = Result[z]
    <2> HIDE DEF G, w, Ends, Result, Next1
    <2>1. QED BY <1>2, <1>7, <1>8, <1>9, <1>10, LoopEnds
<1>12. a = z /\ z \in U /\ z \in Links
    BY <1>1, <1>2, <1>3, <1>11
<1>13. t.key[a] # key => t.kid[a][SeekSide(t, a, key)] = Nil
    BY <1>11, <1>12 DEF SeekEnds
<1>14. ASSUME key < t.key[a], NEW m \in U, pos[m] < pos[a] PROVE t.key[m] < key
    <2>1. t.key[a] # key /\ SeekSide(t, a, key) = Left
        BY <1>5, <1>12, <1>14 DEF SeekSide
    <2>2. edge[a][Left] = pos[a]
        BY <1>12, <1>13, <2>1, BareSide, SidesAre
    <2>3. QED BY <1>11, <1>12, <1>14, <2>2
<1>15. ASSUME t.key[a] < key, NEW m \in U, pos[m] > pos[a] PROVE key < t.key[m]
    <2>1. t.key[a] # key /\ SeekSide(t, a, key) = Right
        BY <1>5, <1>12, <1>15 DEF SeekSide
    <2>2. edge[a][Right] = pos[a]
        BY <1>12, <1>13, <2>1, BareSide, SidesAre
    <2>3. QED BY <1>11, <1>12, <1>15, <2>2
<1>16. QED BY <1>12, <1>14, <1>15

\* Where Outermost stops.
AlongEnds(t, key, side) ==
    {n \in t.used : Neighbour(t, n, side) = Nil \/ t.key[Neighbour(t, n, side)] # key}

Itself(t) == [n \in t.used |-> n]

Along(t, side) == [n \in t.used |-> Neighbour(t, n, side)]

LEMMA OutermostIs ==
    ASSUME NEW t, NEW key, NEW side, \A n \in t.used : Neighbour(t, n, side) \in t.used \cup {Nil}
    PROVE  \E F : /\ Computes(F, t.used, AlongEnds(t, key, side), Itself(t), Along(t, side))
                  /\ \A n : Outermost(t, n, key, side) = F[n]
<1> DEFINE Ends == AlongEnds(t, key, side)
           Result == Itself(t)
           Next1 == Along(t, side)
           Loop(F) == [n \in t.used |-> LET m == Neighbour(t, n, side)
                                        IN  IF m # Nil /\ t.key[m] = key THEN F[m] ELSE n]
           Body(F) == [n \in t.used |-> IF n \in Ends THEN Result[n] ELSE F[Next1[n]]]
<1>1. \A n \in t.used : n \in Ends \/ Next1[n] \in t.used
    BY DEF AlongEnds, Along
<1>2. \A F : Loop(F) = Body(F)
    BY DEF AlongEnds, Along, Itself
<1>3. \E F : F = Body(F)
    <2> HIDE DEF Ends, Result, Next1
    <2>1. Computable(t.used, Ends, Result, Next1)
        BY <1>1, TailRecursion
    <2>2. PICK F : Computes(F, t.used, Ends, Result, Next1)
        BY <2>1 DEF Computable
    <2>3. F = Body(F)
        BY <2>2 DEF Computes
    <2>4. QED BY <2>3
<1>4. \E F : F = Loop(F)
    <2> HIDE DEF Loop, Body
    <2>1. QED BY <1>2, <1>3
<1> DEFINE F == CHOOSE F : F = Loop(F)
<1>5. F = Loop(F)
    <2> HIDE DEF Loop
    <2>1. QED BY <1>4
<1>6. F = Body(F)
    <2> HIDE DEF Loop, Body, F
    <2>1. QED BY <1>2, <1>5
<1>7. \A n : Outermost(t, n, key, side) = F[n]
    BY DEF Outermost
<1>8. Computes(F, t.used, Ends, Result, Next1)
    <2> HIDE DEF F, Ends, Result, Next1
    <2>1. QED BY <1>6 DEF Computes
<1>9. QED BY <1>7, <1>8

\* m is further than n on that side.
Further(pos, m, n, side) == IF side = Left THEN pos[m] < pos[n] ELSE pos[m] > pos[n]

\* m is the last node with the key on that side.
LastWith(t, U, pos, key, m, side) ==
    m \in U /\ t.key[m] = key /\ \A a \in U : Further(pos, a, m, side) => t.key[a] # key

\* Outermost goes to the end of the nodes with the key.
LEMMA OutermostPlace ==
    ASSUME NEW t, NEW U, U = t.used, NEW N, NEW pos, NEW edge, InOrder(t, U, N, pos, edge), Sorted(t, U, pos),
           NEW n \in U, NEW side \in Sides, NEW key, t.key[n] = key, NEW m, m = Outermost(t, n, key, side)
    PROVE  LastWith(t, U, pos, key, m, side)
<1> DEFINE Ends == AlongEnds(t, key, side)
           Result == Itself(t)
           Next1 == Along(t, side)
           G == {a \in U : t.key[a] = key}
           w == [a \in U |-> IF side = Left THEN pos[a] ELSE N - pos[a]]
<1>1. t \in Tree /\ U \subseteq Links /\ Nil \notin U
    BY HungOnce
<1>2. \A a \in U : \/ Neighbour(t, a, side) = Nil /\ pos[a] = Brink(N, side)
                   \/ Neighbour(t, a, side) \in U /\ pos[Neighbour(t, a, side)] = Beyond(pos[a], side)
    BY NeighbourPlace
<1>3. PICK F : /\ Computes(F, U, Ends, Result, Next1)
               /\ \A a : Outermost(t, a, key, side) = F[a]
    <2>1. \A a \in U : Neighbour(t, a, side) \in U \cup {Nil}
        BY <1>2
    <2>2. \A a \in t.used : Neighbour(t, a, side) \in t.used \cup {Nil}
        BY <2>1
    <2>3. QED BY <2>2, OutermostIs
<1>4. N \in Nat /\ \A a \in U : pos[a] \in Int /\ 1 <= pos[a] /\ pos[a] <= N
    BY PlacedNumbers DEF InOrder
<1>5. \A a \in U : w[a] \in Nat
    BY <1>4
<1>6. ASSUME NEW a \in G, a \notin Ends PROVE Next1[a] \in G /\ w[Next1[a]] < w[a]
    <2> DEFINE b == Neighbour(t, a, side)
    <2>1. a \in U /\ b # Nil /\ t.key[b] = key /\ Next1[a] = b
        BY <1>6 DEF AlongEnds, Along
    <2>2. b \in U /\ pos[b] = Beyond(pos[a], side)
        BY <1>2, <2>1
    <2> HIDE DEF b
    <2>3. w[b] < w[a]
        BY <1>4, <2>1, <2>2, SidesAre DEF Beyond
    <2>4. QED BY <2>1, <2>2, <2>3
<1>7. n \in G /\ G \subseteq U
    OBVIOUS
<1>8. PICK z \in G : z \in Ends /\ F[n] = Result[z]
    <2>1. \A a \in G : w[a] \in Nat
        BY <1>5
    <2> HIDE DEF G, w, Ends, Result, Next1
    <2>2. QED BY <1>3, <1>6, <1>7, <2>1, LoopEnds
<1>9. m = z /\ z \in U /\ t.key[z] = key
    BY <1>3, <1>8 DEF Itself
<1> DEFINE b == Neighbour(t, z, side)
<1>10. b = Nil \/ t.key[b] # key
    BY <1>8 DEF AlongEnds
<1>11. ASSUME NEW a \in U, Further(pos, a, m, side) PROVE t.key[a] # key
    <2>1. pos[a] \in Int /\ pos[z] \in Int /\ 1 <= pos[a] /\ pos[a] <= N
        BY <1>4, <1>9
    <2>2. b # Nil
        <3>1. pos[z] # Brink(N, side)
            BY <1>9, <1>11, <2>1, SidesAre DEF Further, Brink
        <3>2. b = Nil => pos[z] = Brink(N, side)
            BY <1>1, <1>2, <1>9
        <3>3. QED BY <3>1, <3>2
    <2>3. b \in U /\ pos[b] = Beyond(pos[z], side) /\ t.key[b] # key
        BY <1>2, <1>9, <1>10, <2>2
    <2>4. pos[b] \in Int
        BY <1>4, <2>3
    <2>5. t.key[a] \in Nat /\ t.key[b] \in Nat /\ key \in Nat
        BY <1>1, <2>3, TreeFields
    <2> HIDE DEF b
    <2>6. \A i, j \in U : pos[i] < pos[j] => t.key[i] <= t.key[j]
        BY DEF Sorted
    <2>7. CASE side = Left
        <3>1. pos[b] = pos[z] - 1 /\ pos[a] < pos[z]
            BY <1>9, <1>11, <2>3, <2>7 DEF Further, Beyond
        <3>2. t.key[b] <= key
            BY <1>9, <2>1, <2>3, <2>4, <2>6, <3>1
        <3>3. a = b \/ pos[a] < pos[b]
            BY <2>1, <2>3, <2>4, <3>1, OnePlace
        <3>4. t.key[a] <= t.key[b]
            BY <2>3, <2>5, <2>6, <3>3
        <3>5. QED BY <2>3, <2>5, <3>2, <3>4
    <2>8. CASE side = Right
        <3>1. pos[b] = pos[z] + 1 /\ pos[a] > pos[z]
            BY <1>9, <1>11, <2>3, <2>8, SidesAre DEF Further, Beyond
        <3>2. key <= t.key[b]
            BY <1>9, <2>1, <2>3, <2>4, <2>6, <3>1
        <3>3. a = b \/ pos[b] < pos[a]
            BY <2>1, <2>3, <2>4, <3>1, OnePlace
        <3>4. t.key[b] <= t.key[a]
            BY <2>3, <2>5, <2>6, <3>3
        <3>5. QED BY <2>3, <2>5, <3>2, <3>4
    <2>9. QED BY <2>7, <2>8, SidesAre
<1>12. QED BY <1>9, <1>11 DEF LastWith

\* f is the first node of the set H, or there is none.
FirstOf(H, pos, f) == (H = {} /\ f = Nil) \/ (f \in H /\ \A n \in H : pos[f] <= pos[n])

WithKey(t, key) == {n \in t.used : t.key[n] = key}

Above(t, key) == {n \in t.used : t.key[n] > key}

\* Find gives the first node with the key.
LEMMA FindPlace ==
    ASSUME NEW t, NEW N, NEW pos, NEW edge, InOrder(t, t.used, N, pos, edge), Sorted(t, t.used, pos), NEW key \in Nat
    PROVE  FirstOf(WithKey(t, key), pos, Find(t, key))
<1> DEFINE n == Descend(t, key)
<1>1. t \in Tree /\ t.used \subseteq Links /\ Nil \notin t.used /\ \A a \in t.used : pos[a] \in Int
    BY HungOnce, PlacedNumbers DEF InOrder
<1>2. CASE t.used = {}
    <2>1. n = Nil
        BY <1>2 DEF Descend, InOrder, RootSpans
    <2>2. QED BY <1>2, <2>1 DEF Find, HasKey, FirstOf, WithKey
<1>3. CASE t.used # {}
    <2>1. /\ n \in t.used
          /\ key < t.key[n] => \A m \in t.used : pos[m] < pos[n] => t.key[m] < key
          /\ t.key[n] < key => \A m \in t.used : pos[m] > pos[n] => key < t.key[m]
        BY <1>3, DescendPlace
    <2>2. n # Nil /\ \A a \in t.used : t.key[a] \in Nat
        BY <1>1, <2>1, TreeFields
    <2>3. CASE t.key[n] = key
        <3> DEFINE f == Outermost(t, n, key, Left)
        <3>1. Find(t, key) = f
            BY <2>2, <2>3 DEF Find, HasKey
        <3>2. f \in t.used /\ t.key[f] = key /\ \A a \in t.used : Further(pos, a, f, Left) => t.key[a] # key
            <4> DEFINE U == t.used
            <4>1. f = Outermost(t, n, key, Left) /\ t.key[n] = key
                BY <2>3
            <4>2. InOrder(t, U, N, pos, edge) /\ Sorted(t, U, pos) /\ n \in U /\ Left \in Sides /\ U = t.used
                BY <2>1, SidesAre
            <4> HIDE DEF n, f, U
            <4>3. LastWith(t, U, pos, key, f, Left)
                BY ONLY <4>1, <4>2, OutermostPlace
            <4>4. QED BY <4>2, <4>3 DEF LastWith
        <3> HIDE DEF f
        <3>3. \A a \in WithKey(t, key) : pos[f] <= pos[a]
            BY <1>1, <3>2 DEF Further, WithKey
        <3>4. QED BY <3>1, <3>2, <3>3 DEF FirstOf, WithKey
    <2>4. CASE t.key[n] # key
        <3>1. Find(t, key) = Nil
            BY <2>2, <2>4 DEF Find, HasKey
        <3>2. ASSUME NEW a \in t.used PROVE t.key[a] # key
            <4>1. a = n \/ pos[a] < pos[n] \/ pos[a] > pos[n]
                BY <1>1, <2>1, OnePlace
            <4>2. t.key[n] < key \/ key < t.key[n]
                BY <2>1, <2>2, <2>4
            <4>3. t.key[a] \in Nat /\ t.key[n] \in Nat
                BY <2>1, <2>2
            <4>4. pos[a] < pos[n] => t.key[a] <= t.key[n]
                BY <2>1 DEF Sorted
            <4>5. pos[a] > pos[n] => t.key[n] <= t.key[a]
                BY <1>1, <2>1 DEF Sorted
            <4> HIDE DEF n
            <4>6. QED BY <2>1, <2>4, <4>1, <4>2, <4>3, <4>4, <4>5
        <3>3. QED BY <3>1, <3>2 DEF FirstOf, WithKey
    <2>5. QED BY <2>3, <2>4
<1>4. QED BY <1>2, <1>3

\* FindPrefix gives the first node with a greater key.
LEMMA FindPrefixPlace ==
    ASSUME NEW t, NEW N, NEW pos, NEW edge, InOrder(t, t.used, N, pos, edge), Sorted(t, t.used, pos), NEW key \in Nat
    PROVE  FirstOf(Above(t, key), pos, FindPrefix(t, key))
<1> DEFINE n == Descend(t, key)
           f == FindPrefix(t, key)
<1>1. t \in Tree /\ t.used \subseteq Links /\ Nil \notin t.used /\ \A a \in t.used : pos[a] \in Int
    BY HungOnce, PlacedNumbers DEF InOrder
<1>2. CASE t.used = {}
    <2>1. n = Nil
        BY <1>2 DEF Descend, InOrder, RootSpans
    <2>2. f = Nil
        BY <2>1 DEF FindPrefix, HasKey
    <2>3. QED BY <1>2, <2>2 DEF FirstOf, Above
<1>3. CASE t.used # {}
    <2>1. /\ n \in t.used
          /\ key < t.key[n] => \A m \in t.used : pos[m] < pos[n] => t.key[m] < key
          /\ t.key[n] < key => \A m \in t.used : pos[m] > pos[n] => key < t.key[m]
        BY <1>3, DescendPlace
    <2>2. n # Nil /\ \A a \in t.used : t.key[a] \in Nat
        BY <1>1, <2>1, TreeFields
    <2>3. \A i, j \in t.used : pos[i] < pos[j] => t.key[i] <= t.key[j]
        BY DEF Sorted
    <2>4. \A a \in t.used : \/ Neighbour(t, a, Right) = Nil /\ pos[a] = N
                            \/ Neighbour(t, a, Right) \in t.used /\ pos[Neighbour(t, a, Right)] = pos[a] + 1
        BY NeighbourPlace, SidesAre DEF Brink, Beyond
    \* The node after the last one that is not above.
    <2>5. ASSUME NEW o \in t.used, t.key[o] <= key, \A a \in t.used : pos[a] > pos[o] => key < t.key[a],
                 f = Neighbour(t, o, Right)
          PROVE  FirstOf(Above(t, key), pos, f)
        <3>1. ASSUME NEW a \in Above(t, key) PROVE pos[a] > pos[o] /\ a \in t.used
            <4>1. a \in t.used /\ t.key[a] > key
                BY DEF Above
            <4>2. pos[a] \in Int /\ pos[o] \in Int /\ t.key[a] \in Nat /\ t.key[o] \in Nat
                BY <1>1, <2>2, <4>1
            <4>3. a # o
                BY <2>5, <4>1, <4>2
            <4>4. ~(pos[a] < pos[o])
                BY <2>3, <2>5, <4>1, <4>2
            <4>5. pos[a] # pos[o]
                BY <4>1, <4>3, OnePlace
            <4>6. QED BY <4>1, <4>2, <4>4, <4>5
        <3>2. CASE f = Nil
            <4>1. pos[o] = N
                BY <1>1, <2>4, <2>5, <3>2
            <4>2. \A a \in t.used : pos[a] <= N
                BY PlacedNumbers DEF InOrder
            <4>3. Above(t, key) = {}
                BY <1>1, <3>1, <4>1, <4>2
            <4>4. QED BY <3>2, <4>3 DEF FirstOf
        <3>3. CASE f # Nil
            <4>1. f \in t.used /\ pos[f] = pos[o] + 1
                BY <2>4, <2>5, <3>3
            <4>2. f \in Above(t, key)
                BY <1>1, <2>2, <2>5, <4>1 DEF Above
            <4>3. \A a \in Above(t, key) : pos[f] <= pos[a]
                BY <1>1, <3>1, <4>1
            <4>4. QED BY <4>2, <4>3 DEF FirstOf
        <3>4. QED BY <3>2, <3>3
    <2>6. CASE t.key[n] = key
        <3> DEFINE o == Outermost(t, n, key, Right)
        <3>1. f = Neighbour(t, o, Right)
            BY <2>2, <2>6 DEF FindPrefix, HasKey
        <3>2. o \in t.used /\ t.key[o] = key /\ \A a \in t.used : Further(pos, a, o, Right) => t.key[a] # key
            <4> DEFINE U == t.used
            <4>1. o = Outermost(t, n, key, Right) /\ t.key[n] = key
                BY <2>6
            <4>2. InOrder(t, U, N, pos, edge) /\ Sorted(t, U, pos) /\ n \in U /\ Right \in Sides /\ U = t.used
                BY <2>1, SidesAre
            <4> HIDE DEF n, o, U
            <4>3. LastWith(t, U, pos, key, o, Right)
                BY ONLY <4>1, <4>2, OutermostPlace
            <4>4. QED BY <4>2, <4>3 DEF LastWith
        <3> HIDE DEF o
        <3>3. ASSUME NEW a \in t.used, pos[a] > pos[o] PROVE key < t.key[a]
            <4>1. t.key[a] # key
                BY <3>2, <3>3, SidesAre DEF Further
            <4>2. pos[o] < pos[a]
                BY <1>1, <3>2, <3>3
            <4>3. t.key[o] <= t.key[a]
                BY <2>3, <3>2, <4>2
            <4>4. QED BY <2>2, <3>2, <4>1, <4>3
        <3>4. t.key[o] <= key
            BY <3>2
        <3>5. o \in t.used
            BY <3>2
        <3>6. QED BY ONLY <2>5, <3>1, <3>3, <3>4, <3>5
    <2>7. CASE key < t.key[n]
        <3>1. f = n
            <4>1. t.key[n] # key /\ n # Nil
                BY <2>1, <2>2, <2>7
            <4> HIDE DEF n
            <4>2. FindPrefix(t, key) = CASE n # Nil /\ t.key[n] = key -> Neighbour(t, Outermost(t, n, key, Right), Right)
                      [] n = Nil \/ key < t.key[n] -> n
                      [] n # Nil /\ key > t.key[n] -> Neighbour(t, n, Right)
                BY DEF FindPrefix, HasKey, n
            <4>3. ~(key > t.key[n])
                BY <2>1, <2>2, <2>7
            <4>4. QED BY <2>7, <4>1, <4>2, <4>3
        <3>2. n \in Above(t, key)
            BY <2>1, <2>2, <2>7 DEF Above
        <3>3. \A a \in Above(t, key) : pos[n] <= pos[a]
            BY <1>1, <2>1, <2>2, <2>7 DEF Above
        <3>4. QED BY <3>1, <3>2, <3>3 DEF FirstOf
    <2>8. CASE t.key[n] < key
        <3>1. f = Neighbour(t, n, Right)
            BY <2>2, <2>8 DEF FindPrefix, HasKey
        <3>2. t.key[n] <= key /\ \A a \in t.used : pos[a] > pos[n] => key < t.key[a]
            BY <2>1, <2>2, <2>8
        <3>3. QED BY <2>1, <2>5, <3>1, <3>2
    <2>9. QED BY <2>1, <2>2, <2>6, <2>7, <2>8
<1>4. QED BY <1>2, <1>3

LEMMA CountUp ==
    ASSUME NEW k \in Nat, NEW J, 0 \in J, \A i \in 1..k : i - 1 \in J => i \in J
    PROVE  0..k \subseteq J
<1> DEFINE T == {i \in 0..k : i \notin J}
<1>1. SUFFICES ASSUME T # {} PROVE FALSE
    OBVIOUS
<1>2. PICK i \in T : \A j \in T : i <= j
    <2>1. T \subseteq Nat
        OBVIOUS
    <2> HIDE DEF T
    <2>2. QED BY <1>1, <2>1, LeastOf
<1>3. i \in 1..k /\ i - 1 \in 0..k
    BY <1>2
<1>4. i - 1 \in J
    BY <1>2, <1>3
<1>5. QED BY <1>2, <1>3, <1>4

\* F[i] is what i rounds of a loop make of x0.
Iterates(F, D, Step, x0, k) ==
    F \in [0..k -> D] /\ F[0] = x0 /\ \A i \in 1..k : F[i] = Step[F[i - 1]]

LEMMA Iteration ==
    ASSUME NEW D, NEW Step, \A x \in D : Step[x] \in D, NEW x0 \in D, NEW k \in Nat
    PROVE  \E F : Iterates(F, D, Step, x0, k)
<1> DEFINE Rounds(j, F) == F \in [0..j -> D] /\ F[0] = x0 /\ \A i \in 1..j : F[i] = Step[F[i - 1]]
           J == {j \in 0..k : \E F : Rounds(j, F)}
<1>1. 0 \in J
    <2>1. Rounds(0, [i \in 0..0 |-> x0])
        OBVIOUS
    <2> HIDE DEF Rounds
    <2>2. QED BY <2>1
<1>2. ASSUME NEW i \in 1..k, i - 1 \in J PROVE i \in J
    <2>1. PICK F : Rounds(i - 1, F)
        BY <1>2
    <2> DEFINE H == [j \in 0..i |-> IF j = i THEN Step[F[i - 1]] ELSE F[j]]
    <2>2. i - 1 \in 0..(i - 1) /\ F[i - 1] \in D
        BY <2>1
    <2>3. \A j \in 0..i : j # i => j \in 0..(i - 1)
        OBVIOUS
    <2>4. H \in [0..i -> D]
        BY <2>1, <2>2, <2>3
    <2>5. H[0] = x0
        BY <2>1
    <2>6. ASSUME NEW j \in 1..i PROVE H[j] = Step[H[j - 1]]
        <3>1. H[j - 1] = F[j - 1]
            OBVIOUS
        <3>2. CASE j = i
            BY <3>1, <3>2
        <3>3. CASE j # i
            <4>1. j \in 1..(i - 1)
                BY <3>3
            <4>2. H[j] = F[j]
                BY <3>3
            <4>3. QED BY <2>1, <3>1, <4>1, <4>2
        <3>4. QED BY <3>2, <3>3
    <2>7. Rounds(i, H)
        BY <2>4, <2>5, <2>6
    <2> HIDE DEF Rounds, H
    <2>8. QED BY <2>7
<1> HIDE DEF Rounds
<1>3. 0..k \subseteq J
    <2> HIDE DEF J
    <2>1. QED BY <1>1, <1>2, CountUp
<1>4. PICK F : Rounds(k, F)
    BY <1>3
<1>5. QED BY <1>4 DEF Rounds, Iterates

\* A function on places that is onto and one to one counts.
LEMMA PlacedCount ==
    ASSUME NEW U, NEW N, NEW pos, NEW edge, Placed(U, N, pos, edge), MaxNodes \in Nat
    PROVE  IsFiniteSet(U) /\ Cardinality(U) = N /\ N <= MaxNodes
<1>1. /\ N \in Nat /\ pos \in [U -> 1..N] /\ U \subseteq Node
      /\ \A i \in 1..N : \E n \in U : pos[n] = i
      /\ \A m, n \in U : pos[m] = pos[n] => m = n
    BY DEF Placed
<1>2. pos \in Bijection(U, 1..N)
    BY <1>1 DEF Bijection, Injection, Surjection, IsInjective
<1>3. IsFiniteSet(Node) /\ Cardinality(Node) = MaxNodes
    <2>1. IsFiniteSet(1..MaxNodes) /\ Cardinality(1..MaxNodes) = IF 1 > MaxNodes THEN 0 ELSE MaxNodes - 1 + 1
        BY FS_Interval
    <2>2. QED BY <2>1 DEF Node
<1>4. IsFiniteSet(U) /\ Cardinality(U) <= Cardinality(Node)
    BY <1>1, <1>3, FS_Subset
<1>5. IsFiniteSet(1..N) /\ Cardinality(1..N) = N
    BY <1>1, FS_Interval
<1>6. Cardinality(U) = Cardinality(1..N)
    BY <1>2, <1>4, <1>5, FS_Bijection DEF ExistsBijection
<1>7. QED BY <1>3, <1>4, <1>5, <1>6

\* The pairs of a tree and a node that the rounds of RemoveKey go through.
RoundPairs == {x \in Tree \X Links : WellMade(x[1]) /\ x[2] \in x[1].used \cup {Nil}}

NextRound(x, key) ==
    IF HasKey(x[1], x[2], key) THEN <<RBDelete(x[1], x[2]), Neighbour(x[1], x[2], Right)>> ELSE x

LEMMA NextRoundStays ==
    ASSUME NEW x \in RoundPairs, NEW key
    PROVE  NextRound(x, key) \in RoundPairs
<1> DEFINE t == x[1]
           n == x[2]
           m == Neighbour(t, n, Right)
<1>1. WellMade(t) /\ n \in t.used \cup {Nil}
    BY DEF RoundPairs
<1>2. CASE ~HasKey(t, n, key)
    BY <1>2 DEF NextRound
<1>3. CASE HasKey(t, n, key)
    <2>1. n \in t.used
        BY <1>1, <1>3 DEF HasKey
    <2>2. NextRound(x, key) = <<RBDelete(t, n), m>>
        BY <1>3 DEF NextRound
    <2>3. m \in (t.used \ {n}) \cup {Nil}
        <3>1. PICK N, pos, edge, bd : Balanced(t, t.used, N, pos, edge, bd)
            BY <1>1 DEF WellMade
        <3>2. InOrder(t, t.used, N, pos, edge)
            BY <3>1 DEF Balanced
        <3>3. m = Nil \/ (m \in t.used /\ pos[m] = pos[n] + 1)
            BY <2>1, <3>2, NeighbourPlace, SidesAre DEF Beyond
        <3>4. pos[n] \in Int
            BY <2>1, <3>2, PlacedNumbers DEF InOrder
        <3>5. QED BY <3>3, <3>4
    <2> HIDE DEF m, t, n
    <2>4. WellMade(RBDelete(t, n)) /\ RBDelete(t, n).used = t.used \ {n}
        BY <1>1, <2>1, RBDeleteWellMade DEF ItemGone
    <2>5. RBDelete(t, n) \in Tree /\ t.used \subseteq Node
        BY <1>1, <2>4, WellMadeFields
    <2>6. QED BY <2>2, <2>3, <2>4, <2>5 DEF RoundPairs, Links
<1>4. QED BY <1>2, <1>3

LEMMA DeleteEqualIs ==
    ASSUME MaxNodes \in Nat, NEW t0, NEW n0, <<t0, n0>> \in RoundPairs, NEW key
    PROVE  \E F : /\ F[0] = <<t0, n0>> /\ \A i \in 1..MaxNodes : F[i] = NextRound(F[i - 1], key)
                  /\ DeleteEqual(t0, n0, key) = F[MaxNodes][1]
<1> DEFINE Loop(F) == [i \in 0..MaxNodes |->
                LET t == F[i - 1][1]
                    n == F[i - 1][2]
                IN  IF i = 0 THEN <<t0, n0>>
                    ELSE IF HasKey(t, n, key) THEN <<RBDelete(t, n), Neighbour(t, n, Right)>>
                    ELSE F[i - 1]]
           Body(F) == [i \in 0..MaxNodes |-> IF i = 0 THEN <<t0, n0>> ELSE NextRound(F[i - 1], key)]
           Step == [x \in RoundPairs |-> NextRound(x, key)]
<1>1. \A F : Loop(F) = Body(F)
    BY DEF NextRound
<1>2. \E F : F = Body(F)
    <2>1. \A x \in RoundPairs : Step[x] \in RoundPairs /\ Step[x] = NextRound(x, key)
        BY NextRoundStays
    <2> HIDE DEF Step
    <2> DEFINE x0 == <<t0, n0>>
    <2>0. x0 \in RoundPairs
        OBVIOUS
    <2> HIDE DEF x0
    <2>2. PICK F : Iterates(F, RoundPairs, Step, x0, MaxNodes)
        BY <2>0, <2>1, Iteration
    <2> USE DEF Iterates, x0
    <2>3. \A i \in 0..MaxNodes : F[i] = IF i = 0 THEN <<t0, n0>> ELSE NextRound(F[i - 1], key)
        <3>1. TAKE i \in 0..MaxNodes
        <3>2. CASE i = 0
            BY <2>2, <3>2
        <3>3. CASE i # 0
            <4>1. i \in 1..MaxNodes /\ i - 1 \in 0..MaxNodes
                BY <3>3
            <4>2. F[i] = Step[F[i - 1]] /\ F[i - 1] \in RoundPairs
                BY <2>2, <4>1
            <4>3. QED BY <2>1, <3>3, <4>2
        <3>4. QED BY <3>2, <3>3
    <2>4. F = [i \in 0..MaxNodes |-> F[i]]
        BY <2>2
    <2>5. F = Body(F)
        BY <2>3, <2>4
    <2>6. QED BY <2>5
<1>3. \E F : F = Loop(F)
    <2> HIDE DEF Loop, Body
    <2>1. QED BY <1>1, <1>2
<1> DEFINE F == CHOOSE F : F = Loop(F)
<1>4. F = Loop(F)
    <2> HIDE DEF Loop
    <2>1. QED BY <1>3
<1>5. F = Body(F)
    <2> HIDE DEF Loop, Body, F
    <2>1. QED BY <1>1, <1>4
<1>6. DeleteEqual(t0, n0, key) = F[MaxNodes][1]
    BY DEF DeleteEqual
<1> HIDE DEF F
<1>7. F[0] = <<t0, n0>> /\ \A i \in 1..MaxNodes : F[i] = NextRound(F[i - 1], key)
    BY <1>5
<1>8. QED BY <1>6, <1>7

-----------------------------------------------------------------------------

\* The nodes V have the same order in pos and in q.
OrderKept(V, pos, q) == \A a, b \in V : pos[a] < pos[b] <=> q[a] < q[b]

\* The nodes with the key before n.
Passed(t, key, q, n) == {m \in WithKey(t, key) : n = Nil \/ q[m] < q[n]}

\* After i rounds on t0 from n0 on: those with the key before n are gone.
Rounded(t0, key, q, n0, i, t, n) ==
    /\ n \in t.used \cup {Nil}
    /\ \E N, pos, edge, bd : Balanced(t, t.used, N, pos, edge, bd) /\ OrderKept(t.used, pos, q)
    /\ t.key = t0.key /\ t.value = t0.value /\ t.used = t0.used \ Passed(t0, key, q, n)
    /\ n # Nil => q[n] >= q[n0] /\ (t.key[n] = key => q[n] > i)

LEMMA CutKeepsOrder ==
    ASSUME NEW U, NEW N, NEW pos, NEW edge, Placed(U, N, pos, edge), NEW z \in U, NEW q, OrderKept(U, pos, q)
    PROVE  OrderKept(U \ {z}, PosCut(U, pos, z), q)
<1>1. SUFFICES ASSUME NEW a \in U \ {z}, NEW b \in U \ {z}
               PROVE  PosCut(U, pos, z)[a] < PosCut(U, pos, z)[b] <=> q[a] < q[b]
    BY DEF OrderKept
<1>2. /\ PosCut(U, pos, z)[a] = Closer(pos[z], pos[a], Left) /\ pos[a] # pos[z]
      /\ PosCut(U, pos, z)[b] = Closer(pos[z], pos[b], Left) /\ pos[b] # pos[z]
      /\ pos[a] \in Int /\ pos[b] \in Int /\ pos[z] \in Int
    BY CutFacts
<1>3. PosCut(U, pos, z)[a] < PosCut(U, pos, z)[b] <=> pos[a] < pos[b]
    BY <1>2, SidesAre DEF Closer
<1>4. QED BY <1>3 DEF OrderKept

LEMMA RoundedStep ==
    ASSUME NEW t0, NEW key, NEW q, q \in [t0.used -> Int], \A a, b \in t0.used : q[a] = q[b] => a = b,
           NEW n0, q[n0] \in Int, NEW i \in Nat, NEW t, NEW n, Rounded(t0, key, q, n0, i, t, n), HasKey(t, n, key),
           NEW r, r = RBDelete(t, n), NEW m, m = Neighbour(t, n, Right)
    PROVE  Rounded(t0, key, q, n0, i + 1, r, m)
<1> DEFINE U == t.used
<1>1. /\ n \in U \cup {Nil} /\ t.key = t0.key /\ t.value = t0.value /\ U = t0.used \ Passed(t0, key, q, n)
      /\ n # Nil => q[n] >= q[n0] /\ (t.key[n] = key => q[n] > i)
    BY DEF Rounded
<1>2. n # Nil /\ t.key[n] = key /\ n \in U /\ q[n] >= q[n0] /\ q[n] > i
    BY <1>1 DEF HasKey
<1>3. PICK N, pos, edge, bd : Balanced(t, U, N, pos, edge, bd) /\ OrderKept(U, pos, q)
    BY DEF Rounded
<1>4. InOrder(t, U, N, pos, edge) /\ Placed(U, N, pos, edge)
    BY <1>3 DEF Balanced, InOrder
<1>5. /\ \E e, b : Balanced(r, U \ {n}, N - 1, PosCut(U, pos, n), e, b)
      /\ r.used = U \ {n} /\ r.key = t.key /\ r.value = t.value
    <2>1. n \in U /\ Balanced(t, U, N, pos, edge, bd) /\ r = RBDelete(t, n)
        BY <1>2, <1>3
    <2> HIDE DEF U
    <2>2. \E e, b : Balanced(r, U \ {n}, N - 1, PosCut(U, pos, n), e, b)
        BY ONLY <2>1, DeleteBalances
    <2>3. ItemGone(t, r, n)
        BY ONLY <2>1, DeleteBalances
    <2>4. QED BY <2>2, <2>3 DEF ItemGone, U
<1>6. OrderKept(U \ {n}, PosCut(U, pos, n), q)
    BY <1>2, <1>3, <1>4, CutKeepsOrder
<1>7. \/ m = Nil /\ pos[n] = N
      \/ m \in U /\ pos[m] = pos[n] + 1
    BY <1>2, <1>4, NeighbourPlace, SidesAre DEF Brink, Beyond
<1>8. Nil \notin U /\ \A a \in U : pos[a] \in Int /\ pos[a] <= N
    BY <1>4, PlacedNumbers
<1>9. \A a \in U : a \in t0.used /\ q[a] \in Int
    BY <1>1
<1>10. \A a, b \in U : pos[a] < pos[b] <=> q[a] < q[b]
    BY <1>3 DEF OrderKept
<1>11. m \in U => m # n /\ q[n] < q[m]
    BY <1>2, <1>7, <1>8, <1>10
<1>12. Passed(t0, key, q, m) = Passed(t0, key, q, n) \cup {n}
    <2>1. n \in Passed(t0, key, q, m)
        BY <1>1, <1>2, <1>7, <1>9, <1>11 DEF Passed, WithKey
    <2>2. ASSUME NEW a \in Passed(t0, key, q, n) PROVE a \in Passed(t0, key, q, m)
        <3>1. a \in WithKey(t0, key) /\ q[a] < q[n] /\ q[a] \in Int
            BY <1>2, <2>2 DEF Passed, WithKey
        <3>2. m = Nil \/ q[a] < q[m]
            BY <1>2, <1>7, <1>9, <1>11, <3>1
        <3>3. QED BY <3>1, <3>2 DEF Passed
    <2>3. ASSUME NEW a \in Passed(t0, key, q, m), a \notin Passed(t0, key, q, n) PROVE a = n
        <3>1. a \in WithKey(t0, key) /\ a \in t0.used /\ (m = Nil \/ q[a] < q[m])
            BY <2>3 DEF Passed, WithKey
        <3>2. a \in U /\ ~(q[a] < q[n])
            BY <1>1, <1>2, <2>3, <3>1 DEF Passed
        <3>3. ~(pos[a] < pos[n])
            BY <1>2, <1>10, <3>2
        <3>4. pos[a] <= pos[n]
            <4>1. CASE m = Nil
                BY <1>7, <1>8, <3>2, <4>1
            <4>2. CASE m \in U
                <5>1. m # Nil /\ q[a] < q[m]
                    BY <1>8, <3>1, <4>2
                <5>2. pos[a] < pos[m] /\ pos[m] = pos[n] + 1
                    BY <1>7, <1>10, <3>2, <4>2, <5>1
                <5>3. QED BY <1>2, <1>8, <3>2, <5>2
            <4>3. QED BY <1>7, <4>1, <4>2
        <3>5. pos[a] = pos[n]
            BY <1>2, <1>8, <3>2, <3>3, <3>4
        <3>6. QED BY <1>2, <1>4, <3>2, <3>5, OnePlace
    <2>4. QED BY <2>1, <2>2, <2>3
<1>13. r.used = t0.used \ Passed(t0, key, q, m)
    BY <1>1, <1>5, <1>12
<1>14. m \in r.used \cup {Nil}
    BY <1>5, <1>7, <1>11
<1>15. m # Nil => q[m] >= q[n0] /\ q[m] > i + 1
    <2>1. SUFFICES ASSUME m # Nil PROVE q[m] >= q[n0] /\ q[m] > i + 1
        OBVIOUS
    <2>2. m \in U /\ q[n] < q[m] /\ q[m] \in Int /\ q[n] \in Int
        BY <1>2, <1>7, <1>9, <1>11, <2>1
    <2>3. QED BY <1>2, <2>2
<1>16. \E M, p, e, b : Balanced(r, r.used, M, p, e, b) /\ OrderKept(r.used, p, q)
    BY <1>5, <1>6
<1> HIDE DEF U
<1>17. QED BY <1>1, <1>5, <1>13, <1>14, <1>15, <1>16 DEF Rounded

\* A round that removes nothing changes nothing.
LEMMA RoundedStays ==
    ASSUME NEW t0, NEW key, NEW q, NEW n0, NEW i, NEW t, NEW n, Rounded(t0, key, q, n0, i, t, n), ~HasKey(t, n, key)
    PROVE  Rounded(t0, key, q, n0, i + 1, t, n)
BY DEF Rounded, HasKey

\* All nodes with the key are gone, the others are as they were.
KeyGone(t, u, key) == u.used = t.used \ WithKey(t, key) /\ u.key = t.key /\ u.value = t.value

\* RemoveKey of a multi map takes all nodes with the key and leaves the others
\* in their order.
LEMMA DeleteEqualPlace ==
    ASSUME MaxNodes \in Nat, NEW t, NEW N, NEW q, NEW edge, NEW bd, Balanced(t, t.used, N, q, edge, bd),
           Sorted(t, t.used, q), NEW key \in Nat, NEW n0, n0 = Find(t, key), n0 # Nil,
           NEW r, r = DeleteEqual(t, n0, key)
    PROVE  /\ \E M, p, e, b : Balanced(r, r.used, M, p, e, b) /\ OrderKept(r.used, p, q)
           /\ KeyGone(t, r, key)
<1>1. InOrder(t, t.used, N, q, edge) /\ Placed(t.used, N, q, edge) /\ WellMade(t)
    BY DEF Balanced, InOrder, WellMade
<1>2. /\ \A n \in t.used : q[n] \in Int /\ 1 <= q[n] /\ q[n] <= N
      /\ N \in Nat /\ N <= MaxNodes /\ Nil \notin t.used /\ t \in Tree /\ t.used \subseteq Links
      /\ \A a, b \in t.used : q[a] = q[b] => a = b
    BY <1>1, PlacedNumbers, PlacedCount, HungOnce, OnePlace
<1>3. /\ n0 \in WithKey(t, key) /\ \A n \in WithKey(t, key) : q[n0] <= q[n]
      /\ n0 \in t.used /\ t.key[n0] = key
    <2>1. FirstOf(WithKey(t, key), q, n0)
        BY <1>1, FindPlace
    <2>2. QED BY <2>1 DEF FirstOf, WithKey
<1>4. <<t, n0>> \in RoundPairs
    BY <1>1, <1>2, <1>3 DEF RoundPairs
<1>5. PICK F : /\ F[0] = <<t, n0>> /\ \A i \in 1..MaxNodes : F[i] = NextRound(F[i - 1], key)
               /\ r = F[MaxNodes][1]
    <2>1. \E F : /\ F[0] = <<t, n0>> /\ \A i \in 1..MaxNodes : F[i] = NextRound(F[i - 1], key)
                 /\ DeleteEqual(t, n0, key) = F[MaxNodes][1]
        BY <1>4, DeleteEqualIs
    <2>2. QED BY <2>1
<1> DEFINE Good(i) == Rounded(t, key, q, n0, i, F[i][1], F[i][2])
           J == {i \in 0..MaxNodes : Good(i)}
<1>6. 0 \in J
    <2>1. Passed(t, key, q, n0) = {}
        <3>1. ASSUME NEW n \in WithKey(t, key) PROVE ~(q[n] < q[n0])
            BY <1>2, <1>3 DEF WithKey
        <3>2. n0 # Nil
            BY <1>2, <1>3
        <3>3. QED BY <3>1, <3>2 DEF Passed
    <2>2. OrderKept(t.used, q, q)
        BY DEF OrderKept
    <2>3. q[n0] >= q[n0] /\ q[n0] > 0
        BY <1>2, <1>3
    <2>4. Rounded(t, key, q, n0, 0, t, n0)
        <3>1. \E M, p, e, b : Balanced(t, t.used, M, p, e, b) /\ OrderKept(t.used, p, q)
            BY <2>2
        <3>2. QED BY <1>3, <2>1, <2>3, <3>1 DEF Rounded
    <2>5. F[0][1] = t /\ F[0][2] = n0
        BY <1>5
    <2>6. QED BY <2>4, <2>5
<1>7. ASSUME NEW i \in 1..MaxNodes, i - 1 \in J PROVE i \in J
    <2> DEFINE u == F[i - 1][1]
               n == F[i - 1][2]
    <2>1. Rounded(t, key, q, n0, i - 1, u, n)
        BY <1>7
    <2>2. F[i] = NextRound(F[i - 1], key)
        BY <1>5
    <2>3. (i - 1) + 1 = i /\ i - 1 \in Nat /\ i \in 0..MaxNodes
        OBVIOUS
    <2>4. CASE HasKey(u, n, key)
        <3>1. F[i] = <<RBDelete(u, n), Neighbour(u, n, Right)>>
            BY <2>2, <2>4 DEF NextRound
        <3>2. F[i][1] = RBDelete(u, n) /\ F[i][2] = Neighbour(u, n, Right)
            BY <3>1
        <3> HIDE DEF u, n
        <3>3. q \in [t.used -> Int]
            BY <1>1, <1>2 DEF Placed
        <3>4. Rounded(t, key, q, n0, (i - 1) + 1, RBDelete(u, n), Neighbour(u, n, Right))
            <4> DEFINE j == i - 1
            <4>1. j \in Nat /\ Rounded(t, key, q, n0, j, u, n) /\ q[n0] \in Int
                BY <1>2, <1>3, <2>1, <2>3
            <4> HIDE DEF j
            <4>2. Rounded(t, key, q, n0, j + 1, RBDelete(u, n), Neighbour(u, n, Right))
                BY <1>2, <2>4, <3>3, <4>1, RoundedStep
            <4>3. QED BY <4>2 DEF j
        <3>5. QED BY <2>3, <3>2, <3>4
    <2>5. CASE ~HasKey(u, n, key)
        <3>1. F[i] = F[i - 1]
            BY <2>2, <2>5 DEF NextRound
        <3>2. Rounded(t, key, q, n0, (i - 1) + 1, u, n)
            <4> HIDE DEF u, n
            <4>1. QED BY <2>1, <2>5, RoundedStays
        <3>3. QED BY <2>3, <3>1, <3>2
    <2>6. QED BY <2>4, <2>5
<1>8. MaxNodes \in J
    <2>1. 0..MaxNodes \subseteq J
        <3> HIDE DEF J
        <3>1. QED BY <1>6, <1>7, CountUp
    <2>2. MaxNodes \in 0..MaxNodes
        OBVIOUS
    <2>3. QED BY <2>1, <2>2
<1> DEFINE n == F[MaxNodes][2]
<1>9. Rounded(t, key, q, n0, MaxNodes, r, n)
    BY <1>5, <1>8
<1> HIDE DEF n
<1>10. /\ n \in r.used \cup {Nil}
       /\ \E M, p, e, b : Balanced(r, r.used, M, p, e, b) /\ OrderKept(r.used, p, q)
       /\ r.key = t.key /\ r.value = t.value /\ r.used = t.used \ Passed(t, key, q, n)
       /\ n # Nil => q[n] >= q[n0] /\ (r.key[n] = key => q[n] > MaxNodes)
    BY <1>9 DEF Rounded
<1>11. Passed(t, key, q, n) = WithKey(t, key)
    <2>1. CASE n = Nil
        BY <2>1 DEF Passed
    <2>2. CASE n # Nil
        <3>1. n \in t.used /\ q[n] >= q[n0] /\ t.key[n] # key
            <4>1. n \in t.used /\ q[n] >= q[n0]
                BY <1>10, <2>2
            <4>2. q[n] <= N /\ q[n] \in Int
                BY <1>2, <4>1
            <4>3. QED BY <1>2, <1>10, <2>2, <4>1, <4>2
        <3>2. t.key[n] \in Nat /\ t.key[n0] = key
            BY <1>2, <1>3, <3>1, TreeFields
        <3>3. t.key[n] > key
            <4>1. q[n] \in Int /\ q[n0] \in Int /\ n # n0
                BY <1>2, <1>3, <3>1
            <4>2. q[n0] < q[n]
                BY <1>2, <1>3, <3>1, <4>1
            <4>3. t.key[n0] <= t.key[n]
                BY <1>3, <3>1, <4>2 DEF Sorted
            <4>4. QED BY <3>1, <3>2, <4>3
        <3>4. ASSUME NEW a \in WithKey(t, key) PROVE q[a] < q[n]
            <4>1. a \in t.used /\ t.key[a] = key
                BY DEF WithKey
            <4>2. a # n /\ q[a] \in Int /\ q[n] \in Int
                BY <1>2, <3>1, <4>1
            <4>3. ~(q[n] < q[a])
                <5>1. SUFFICES ASSUME q[n] < q[a] PROVE FALSE
                    OBVIOUS
                <5>2. t.key[n] <= t.key[a]
                    BY <3>1, <4>1, <5>1 DEF Sorted
                <5>3. QED BY <3>2, <3>3, <4>1, <5>2
            <4>4. q[a] # q[n]
                BY <1>2, <3>1, <4>1, <4>2
            <4>5. QED BY <4>2, <4>3, <4>4
        <3>5. QED BY <3>4 DEF Passed
    <2>3. QED BY <2>1, <2>2
<1>12. QED BY <1>10, <1>11 DEF KeyGone

\* RemoveKey keeps a multi map's tree well made.
THEOREM DeleteEqualWellMade ==
    ASSUME MaxNodes \in Nat, NEW t, WellMade(t), NEW key \in Nat, Find(t, key) # Nil
    PROVE  WellMade(DeleteEqual(t, Find(t, key), key)) /\ KeyGone(t, DeleteEqual(t, Find(t, key), key), key)
<1> DEFINE n0 == Find(t, key)
           r == DeleteEqual(t, n0, key)
<1>1. PICK N, q, edge, bd : Balanced(t, t.used, N, q, edge, bd) /\ Sorted(t, t.used, q)
    BY DEF WellMade
<1>2. n0 = Find(t, key) /\ n0 # Nil /\ r = DeleteEqual(t, n0, key)
    OBVIOUS
<1> HIDE DEF n0, r
<1>3. /\ \E M, p, e, b : Balanced(r, r.used, M, p, e, b) /\ OrderKept(r.used, p, q)
      /\ KeyGone(t, r, key)
    BY <1>1, <1>2, DeleteEqualPlace
<1>4. PICK M, p, e, b : Balanced(r, r.used, M, p, e, b) /\ OrderKept(r.used, p, q)
    BY <1>3
<1>5. Sorted(r, r.used, p)
    <2>1. r.key = t.key /\ r.used \subseteq t.used
        BY <1>3 DEF KeyGone
    <2>2. QED BY <1>1, <1>4, <2>1 DEF Sorted, OrderKept
<1>6. WellMade(r)
    BY <1>4, <1>5 DEF WellMade
<1>7. QED BY <1>3, <1>6 DEF n0, r

\* The depth that VerifyIntegrity counts is the one of the levels.
LEMMA BlackDepthIs ==
    ASSUME NEW N, NEW pos, NEW edge, NEW bd, Balanced(tree, tree.used, N, pos, edge, bd)
    PROVE  \A n \in tree.used \cup {Nil} : BlackDepth(n) = bd[n]
<1> DEFINE U == tree.used
           Loop(F) == [n \in U \cup {Nil} |->
                LET l == F[tree.kid[n][Left]]
                    r == F[tree.kid[n][Right]]
                IN  IF n = Nil THEN 0
                    ELSE IF l = -1 \/ l # r THEN -1
                    ELSE l + IF n \in tree.red THEN 0 ELSE 1]
<1>1. InOrder(tree, U, N, pos, edge) /\ Levels(tree, U, bd)
    BY DEF Balanced
<1>2. /\ \A n \in U : tree.kid[n][Left] \in U \cup {Nil} /\ tree.kid[n][Right] \in U \cup {Nil}
      /\ Nil \notin U
    BY <1>1, HungOnce, SidesAre
<1>3. /\ bd \in [U \cup {Nil} -> Nat] /\ bd[Nil] = 0
      /\ \A n \in U : /\ bd[n] = bd[tree.kid[n][Left]] + BlackOne(tree, n)
                      /\ bd[n] = bd[tree.kid[n][Right]] + BlackOne(tree, n)
    BY <1>1, SidesAre DEF Levels
<1>4. ASSUME NEW F, NEW n \in U, F[tree.kid[n][Left]] = bd[tree.kid[n][Left]], F[tree.kid[n][Right]] = bd[tree.kid[n][Right]]
      PROVE  Loop(F)[n] = bd[n]
    <2>1. /\ bd[tree.kid[n][Left]] \in Nat /\ bd[tree.kid[n][Right]] \in Nat /\ bd[n] \in Nat /\ n # Nil
          /\ bd[n] = bd[tree.kid[n][Left]] + BlackOne(tree, n)
          /\ bd[n] = bd[tree.kid[n][Right]] + BlackOne(tree, n)
        BY <1>2, <1>3
    <2>2. bd[tree.kid[n][Left]] = bd[tree.kid[n][Right]] /\ bd[tree.kid[n][Left]] # -1
        BY <2>1 DEF BlackOne
    <2>3. Loop(F)[n] = bd[tree.kid[n][Left]] + IF n \in tree.red THEN 0 ELSE 1
        BY <1>4, <2>1, <2>2
    <2>4. QED BY <2>1, <2>3 DEF BlackOne
<1>5. \A F : Loop(F)[Nil] = 0
    OBVIOUS
<1>6. bd = Loop(bd)
    <2>1. \A n \in U \cup {Nil} : Loop(bd)[n] = bd[n]
        <3> HIDE DEF Loop
        <3>1. QED BY <1>3, <1>4, <1>5
    <2>2. Loop(bd) = [n \in U \cup {Nil} |-> Loop(bd)[n]]
        OBVIOUS
    <2> HIDE DEF Loop
    <2>3. bd = [n \in U \cup {Nil} |-> bd[n]]
        BY <1>3
    <2>4. QED BY <2>1, <2>2, <2>3
<1> DEFINE D == CHOOSE F : F = Loop(F)
<1>7. D = Loop(D)
    <2> HIDE DEF Loop
    <2>1. QED BY <1>6
<1>8. \A n : BlackDepth(n) = D[n]
    BY DEF BlackDepth
<1> HIDE DEF D, Loop
<1>9. D[Nil] = bd[Nil]
    BY <1>3, <1>5, <1>7
<1>10. \A n \in U : D[n] = bd[n]
    <2> DEFINE w == [n \in U |-> Span(edge, n)]
               T == {k \in Nat : \E n \in U : w[n] = k /\ D[n] # bd[n]}
    <2>1. \A n \in U : w[n] \in Nat
        BY <1>1, SpanBelow
    <2>2. SUFFICES ASSUME NEW n0 \in U, D[n0] # bd[n0] PROVE FALSE
        OBVIOUS
    <2>3. T # {} /\ T \subseteq Nat
        BY <2>1, <2>2
    <2>4. PICK k \in T : \A j \in T : k <= j
        <3> HIDE DEF T
        <3>1. QED BY <2>3, LeastOf
    <2>5. PICK n \in U : w[n] = k /\ D[n] # bd[n]
        BY <2>4
    <2>6. ASSUME NEW s \in Sides PROVE D[tree.kid[n][s]] = bd[tree.kid[n][s]]
        <3>1. CASE tree.kid[n][s] = Nil
            BY <1>9, <3>1
        <3>2. CASE tree.kid[n][s] # Nil
            <4>1. tree.kid[n][s] \in U /\ Span(edge, tree.kid[n][s]) < Span(edge, n)
                BY <1>1, <3>2, SpanBelow, HungOnce
            <4>2. w[tree.kid[n][s]] < k /\ w[tree.kid[n][s]] \in Nat
                BY <2>1, <2>5, <4>1
            <4>3. QED BY <2>4, <4>1, <4>2
        <3>3. QED BY <3>1, <3>2
    <2>7. D[n] = Loop(D)[n]
        BY <1>7
    <2>8. QED BY <1>4, <2>5, <2>6, <2>7, SidesAre
<1>11. QED BY <1>8, <1>9, <1>10

LEMMA WellMadeRedBlack ==
    ASSUME WellMade(tree)
    PROVE  RedBlack
<1> DEFINE U == tree.used
<1>1. PICK N, pos, edge, bd : Balanced(tree, U, N, pos, edge, bd)
    BY DEF WellMade
<1>2. InOrder(tree, U, N, pos, edge) /\ Levels(tree, U, bd) /\ tree.root \notin tree.red
    BY <1>1 DEF Balanced
<1>3. Nil \notin U /\ RootSpans(tree, U, N, edge) /\ tree.red \subseteq U /\ tree.kid[Nil][Left] = Nil
    BY <1>2, HungOnce DEF Levels, InOrder
<1>4. tree.root # Nil => tree.parent[tree.root] = Nil
    BY <1>3 DEF RootSpans
<1>5. ASSUME NEW n \in U, NEW side \in Sides, tree.kid[n][side] # Nil
      PROVE  LET m == tree.kid[n][side] IN m \in U /\ tree.parent[m] = n /\ ~{n, m} \subseteq tree.red
    <2> DEFINE m == tree.kid[n][side]
    <2>1. m \in U /\ tree.parent[m] = n
        BY <1>2, <1>5, KidFacts
    <2>2. RedApart(tree, n, side)
        BY <1>1 DEF Balanced
    <2>3. QED BY <2>1, <2>2 DEF RedApart
<1>6. BlackDepth(tree.root) # -1
    <2>1. tree.root \in U \cup {Nil}
        BY <1>3 DEF RootSpans
    <2>2. BlackDepth(tree.root) = bd[tree.root]
        BY <1>1, <2>1, BlackDepthIs
    <2>3. bd[tree.root] \in Nat
        BY <1>2, <2>1 DEF Levels
    <2>4. QED BY <2>2, <2>3
<1>7. QED BY <1>2, <1>3, <1>4, <1>5, <1>6 DEF RedBlack, Sides

\* The place the walk to that side comes to as the i-th.
StopAt(N, side, i) == IF side = Right THEN i ELSE N + 1 - i

NodeAt(U, pos, i) == CHOOSE n \in U : pos[n] = i

\* W goes through the places.
Visits(W, U, N, pos, side) ==
    /\ W \in Seq(U) /\ Len(W) = N
    /\ \A i \in 1..N : W[i] \in U /\ pos[W[i]] = StopAt(N, side, i)

\* A step of Walk.
Stop(At, i, side) ==
    IF i = 1 THEN Extreme(tree, tree.root, Opposite(side))
    ELSE IF At[i - 1] = Nil THEN Nil ELSE Neighbour(tree, At[i - 1], side)

VisitAt(U, N, pos, side, i) == IF i <= N THEN NodeAt(U, pos, StopAt(N, side, i)) ELSE Nil

LEMMA VisitAtIs ==
    ASSUME NEW t, NEW U, NEW N, NEW pos, NEW edge, InOrder(t, U, N, pos, edge), NEW side \in Sides, NEW i \in Nat \ {0}
    PROVE  /\ i <= N => /\ VisitAt(U, N, pos, side, i) \in U
                        /\ pos[VisitAt(U, N, pos, side, i)] = StopAt(N, side, i)
           /\ ~(i <= N) => VisitAt(U, N, pos, side, i) = Nil
           /\ \A n \in U : i <= N /\ pos[n] = StopAt(N, side, i) => n = VisitAt(U, N, pos, side, i)
<1>1. Placed(U, N, pos, edge) /\ N \in Nat
    BY DEF InOrder, Placed
<1>2. i <= N => \E n \in U : pos[n] = StopAt(N, side, i)
    <2>1. SUFFICES ASSUME i <= N PROVE StopAt(N, side, i) \in 1..N
        BY <1>1 DEF Placed
    <2>2. QED BY <1>1, <2>1 DEF StopAt
<1>3. i <= N => NodeAt(U, pos, StopAt(N, side, i)) \in U /\ pos[NodeAt(U, pos, StopAt(N, side, i))] = StopAt(N, side, i)
    BY <1>2 DEF NodeAt
<1>4. QED BY <1>3, OnePlace DEF VisitAt

LEMMA StopIs ==
    ASSUME NEW N, NEW pos, NEW edge, InOrder(tree, tree.used, N, pos, edge), NEW side \in Sides, NEW i \in Nat \ {0},
           NEW At, i # 1 => At[i - 1] = VisitAt(tree.used, N, pos, side, i - 1)
    PROVE  Stop(At, i, side) = VisitAt(tree.used, N, pos, side, i)
<1> DEFINE U == tree.used
           v == VisitAt(U, N, pos, side, i)
<1>1. /\ N \in Nat /\ Nil \notin U /\ RootSpans(tree, U, N, edge) /\ Placed(U, N, pos, edge)
      /\ \A n \in U : pos[n] \in Int /\ 1 <= pos[n] /\ pos[n] <= N
    BY PlacedNumbers DEF InOrder
<1>2. CASE i = 1
    <2>1. CASE U = {}
        <3>1. tree.root = Nil
            BY <1>1, <2>1 DEF RootSpans
        <3>2. Stop(At, i, side) = Nil
            BY <1>2, <3>1 DEF Stop, Extreme
        <3>3. ~(i <= N)
            BY <2>1, VisitAtIs
        <3>4. QED BY <3>2, <3>3 DEF VisitAt
    <2>2. CASE U # {}
        <3>1. tree.root \in U /\ edge[tree.root][Left] = 1 /\ edge[tree.root][Right] = N
            BY <1>1, <2>2 DEF RootSpans
        <3> DEFINE m == Extreme(tree, tree.root, Opposite(side))
        <3>2. m \in U /\ pos[m] = edge[tree.root][Opposite(side)]
            BY <3>1, ExtremePlace, TwoSides
        <3>3. Stop(At, i, side) = m
            BY <1>2 DEF Stop
        <3> HIDE DEF m
        <3>4. pos[m] = StopAt(N, side, i) /\ i <= N
            BY <1>1, <1>2, <3>1, <3>2, SidesAre DEF StopAt
        <3>5. QED BY <3>2, <3>3, <3>4, VisitAtIs
    <2>3. QED BY <2>1, <2>2
<1>3. CASE i # 1
    <2> DEFINE n == VisitAt(U, N, pos, side, i - 1)
               m == Neighbour(tree, n, side)
    <2>1. i - 1 \in Nat \ {0} /\ At[i - 1] = n
        BY <1>3
    <2>2. Stop(At, i, side) = IF n = Nil THEN Nil ELSE m
        BY <1>3, <2>1 DEF Stop
    <2>3. CASE ~(i - 1 <= N)
        <3>1. n = Nil /\ ~(i <= N)
            BY <1>1, <2>1, <2>3, VisitAtIs
        <3>2. QED BY <2>2, <3>1, VisitAtIs
    <2>4. CASE i - 1 <= N
        <3>1. n \in U /\ pos[n] = StopAt(N, side, i - 1)
            BY <2>1, <2>4, VisitAtIs
        <3>2. \/ m = Nil /\ pos[n] = Brink(N, side)
              \/ m \in U /\ pos[m] = Beyond(pos[n], side)
            BY <3>1, NeighbourPlace
        <3>3. Stop(At, i, side) = m
            BY <1>1, <2>2, <3>1
        <3> HIDE DEF n, m
        <3>4. CASE m = Nil /\ pos[n] = Brink(N, side)
            <4>1. ~(i <= N)
                BY <1>1, <2>4, <3>1, <3>4, SidesAre DEF Brink, StopAt
            <4>2. QED BY <3>3, <3>4, <4>1, VisitAtIs
        <3>5. CASE m \in U /\ pos[m] = Beyond(pos[n], side)
            <4>1. pos[m] = StopAt(N, side, i)
                BY <1>1, <2>1, <3>1, <3>5, SidesAre DEF Beyond, StopAt
            <4>2. i <= N
                BY <1>1, <3>5, <4>1, SidesAre DEF StopAt
            <4>3. QED BY <3>3, <3>5, <4>1, <4>2, VisitAtIs
        <3>6. QED BY <3>2, <3>4, <3>5
    <2>5. QED BY <2>3, <2>4
<1>4. QED BY <1>2, <1>3

\* Walk visits every node in the order of the places, to either side.
LEMMA WalkVisits ==
    ASSUME MaxNodes \in Nat, NEW N, NEW pos, NEW edge, InOrder(tree, tree.used, N, pos, edge), NEW side \in Sides
    PROVE  Visits(Walk(side), tree.used, N, pos, side)
<1> DEFINE U == tree.used
           M == MaxNodes + 1
           Loop(At) == [i \in 1..M |-> IF i = 1 THEN Extreme(tree, tree.root, Opposite(side))
                                       ELSE IF At[i - 1] = Nil THEN Nil ELSE Neighbour(tree, At[i - 1], side)]
           S == [i \in 1..M |-> VisitAt(U, N, pos, side, i)]
<1>1. N \in Nat /\ N <= MaxNodes
    <2>1. Placed(tree.used, N, pos, edge)
        BY DEF InOrder
    <2>2. QED BY <2>1, PlacedCount DEF Placed
<1>2. \A At : Loop(At) = [i \in 1..M |-> Stop(At, i, side)]
    BY DEF Stop
<1>3. S = Loop(S)
    <2>1. ASSUME NEW i \in 1..M PROVE Stop(S, i, side) = VisitAt(U, N, pos, side, i)
        <3>1. i \in Nat \ {0}
            OBVIOUS
        <3>2. i # 1 => S[i - 1] = VisitAt(U, N, pos, side, i - 1)
            OBVIOUS
        <3> HIDE DEF S
        <3>3. QED BY <3>1, <3>2, StopIs
    <2> HIDE DEF Loop
    <2>2. QED BY <1>2, <2>1
<1> DEFINE At == CHOOSE At : At = Loop(At)
<1>4. At = Loop(At)
    <2> HIDE DEF Loop, S
    <2>1. QED BY <1>3
<1>5. Walk(side) = [i \in 1..Cardinality({j \in 1..M : At[j] # Nil}) |-> At[i]]
    BY DEF Walk
<1>6. \A i \in 1..M : At[i] = Stop(At, i, side)
    <2> HIDE DEF Loop, At
    <2>1. At = [i \in 1..M |-> Stop(At, i, side)]
        BY <1>2, <1>4
    <2>2. QED BY <2>1
<1> HIDE DEF At, Loop
<1>7. \A i \in 1..M : At[i] = VisitAt(U, N, pos, side, i)
    <2> DEFINE J == {d \in 0..MaxNodes : At[d + 1] = VisitAt(U, N, pos, side, d + 1)}
    <2>1. 0 \in J
        <3>1. At[1] = VisitAt(U, N, pos, side, 1)
            <4>1. 1 \in 1..M /\ 1 \in Nat \ {0}
                OBVIOUS
            <4>2. Stop(At, 1, side) = VisitAt(U, N, pos, side, 1)
                BY <4>1, StopIs
            <4>3. QED BY <1>6, <4>1, <4>2
        <3>2. QED BY <3>1
    <2>2. ASSUME NEW d \in 1..MaxNodes, d - 1 \in J PROVE d \in J
        <3> DEFINE e == d + 1
        <3>1. e \in 1..M /\ e \in Nat \ {0} /\ e - 1 = d /\ (d - 1) + 1 = d /\ d \in 0..MaxNodes
            OBVIOUS
        <3>2. At[d] = VisitAt(U, N, pos, side, d)
            BY <2>2, <3>1
        <3> HIDE DEF e
        <3>3. Stop(At, e, side) = VisitAt(U, N, pos, side, e)
            BY <3>1, <3>2, StopIs
        <3>4. At[e] = VisitAt(U, N, pos, side, e)
            BY <1>6, <3>1, <3>3
        <3>5. QED BY <3>1, <3>4 DEF e
    <2>3. 0..MaxNodes \subseteq J
        <3> HIDE DEF J
        <3>1. QED BY <2>1, <2>2, CountUp
    <2>4. TAKE i \in 1..M
    <2>5. i - 1 \in J /\ (i - 1) + 1 = i
        BY <2>3
    <2>6. QED BY <2>5
<1>8. \A i \in 1..N : At[i] \in U /\ pos[At[i]] = StopAt(N, side, i)
    <2>1. TAKE i \in 1..N
    <2>2. i \in 1..M /\ i \in Nat \ {0} /\ i <= N
        BY <1>1
    <2>3. QED BY <1>7, <2>2, VisitAtIs
<1>9. {j \in 1..M : At[j] # Nil} = 1..N
    <2>1. ASSUME NEW j \in 1..M PROVE At[j] # Nil <=> j \in 1..N
        <3>1. j \in Nat \ {0}
            OBVIOUS
        <3>2. At[j] = VisitAt(U, N, pos, side, j) /\ Nil \notin U
            BY <1>7, HungOnce
        <3>3. QED BY <1>1, <3>1, <3>2, VisitAtIs
    <2>2. \A j \in 1..N : j \in 1..M
        BY <1>1
    <2> HIDE DEF U, M
    <2>3. QED BY <2>1, <2>2
<1>10. Cardinality(1..N) = N
    BY <1>1, FS_Interval
<1>11. Walk(side) = [i \in 1..N |-> At[i]]
    BY <1>5, <1>9, <1>10
<1> DEFINE W == [i \in 1..N |-> At[i]]
<1>12. W \in Seq(U) /\ Len(W) = N
    <2>1. W \in [1..N -> U]
        BY <1>8
    <2>2. W \in Seq(U)
        BY <1>1, <2>1 DEF Seq
    <2>3. DOMAIN W = 1..N
        OBVIOUS
    <2> HIDE DEF W
    <2>4. QED BY <1>1, <2>2, <2>3, LenProperties
<1>13. \A i \in 1..N : W[i] \in U /\ pos[W[i]] = StopAt(N, side, i)
    BY <1>8
<1> HIDE DEF W
<1>14. Visits(W, U, N, pos, side)
    BY <1>12, <1>13 DEF Visits
<1>15. QED BY <1>11, <1>14 DEF W

LEMMA WellMadeWalks ==
    ASSUME MaxNodes \in Nat, WellMade(tree)
    PROVE  WalksInOrder
<1> DEFINE U == tree.used
           there == Walk(Right)
           back == Walk(Left)
<1>1. PICK N, pos, edge, bd : Balanced(tree, U, N, pos, edge, bd) /\ Sorted(tree, U, pos)
    BY DEF WellMade
<1>2. InOrder(tree, U, N, pos, edge) /\ Placed(U, N, pos, edge)
    BY <1>1 DEF Balanced, InOrder
<1>3. /\ N \in Nat /\ \A n \in U : pos[n] \in Int /\ 1 <= pos[n] /\ pos[n] <= N
      /\ Cardinality(U) = N /\ \A m, n \in U : pos[m] = pos[n] => m = n
    BY <1>2, PlacedNumbers, PlacedCount, OnePlace
<1>4. Visits(there, U, N, pos, Right) /\ Visits(back, U, N, pos, Left)
    BY <1>2, WalkVisits, SidesAre
<1> HIDE DEF there, back
<1>5. /\ Len(there) = N /\ \A i \in 1..N : there[i] \in U /\ pos[there[i]] = i
      /\ Len(back) = N /\ \A i \in 1..N : back[i] \in U /\ pos[back[i]] = N + 1 - i
    BY <1>4, SidesAre DEF Visits, StopAt
<1>6. Members(there) = U
    <2>1. ASSUME NEW n \in U PROVE n \in Members(there)
        <3>1. pos[n] \in 1..N
            BY <1>3
        <3>2. there[pos[n]] = n
            BY <1>3, <1>5, <3>1
        <3>3. QED BY <1>5, <3>1, <3>2 DEF Members
    <2>2. QED BY <1>5, <2>1 DEF Members
<1>7. \A i \in 1..(N - 1) : tree.key[there[i]] <= tree.key[there[i + 1]]
    <2>1. TAKE i \in 1..(N - 1)
    <2>2. i \in 1..N /\ i + 1 \in 1..N /\ i < i + 1
        BY <1>3
    <2>3. pos[there[i]] < pos[there[i + 1]] /\ there[i] \in U /\ there[i + 1] \in U
        BY <1>5, <2>2
    <2>4. QED BY <1>1, <2>3 DEF Sorted
<1>8. \A i \in 1..N : back[i] = there[N + 1 - i]
    <2>1. TAKE i \in 1..N
    <2>2. N + 1 - i \in 1..N
        BY <1>3
    <2>3. QED BY <1>3, <1>5, <2>2
<1>9. /\ Len(there) = Cardinality(U) /\ Members(there) = U
      /\ \A i \in 1..(Len(there) - 1) : tree.key[there[i]] <= tree.key[there[i + 1]]
      /\ Len(back) = Len(there) /\ \A i \in 1..Len(there) : back[i] = there[Len(there) + 1 - i]
    BY <1>3, <1>5, <1>6, <1>7, <1>8
<1>10. QED BY <1>9 DEF WalksInOrder, there, back

\* W has the nodes one by one.
OneByOne(W, U, N, pos) ==
    /\ N \in Nat /\ Len(W) = N
    /\ \A n \in U : pos[n] \in 1..N
    /\ \A m, n \in U : pos[m] = pos[n] => m = n
    /\ \A i \in 1..N : W[i] \in U /\ pos[W[i]] = i

Hits(W, H) == {i \in 1..Len(W) : W[i] \in H}

AtFirst(W, hits) == IF hits = {} THEN Nil ELSE W[CHOOSE i \in hits : \A j \in hits : i <= j]

\* The first hit of the walk is the first node of the set.
LEMMA FirstHit ==
    ASSUME NEW U, NEW N, NEW pos, NEW W, OneByOne(W, U, N, pos),
           NEW H, H \subseteq U, NEW f, FirstOf(H, pos, f)
    PROVE  f = AtFirst(W, Hits(W, H))
<1> DEFINE hits == Hits(W, H)
<1>0. /\ N \in Nat /\ Len(W) = N
      /\ \A n \in U : pos[n] \in 1..N
      /\ \A m, n \in U : pos[m] = pos[n] => m = n
      /\ \A i \in 1..N : W[i] \in U /\ pos[W[i]] = i
      /\ hits = {i \in 1..Len(W) : W[i] \in H}
    BY DEF OneByOne, Hits
<1> HIDE DEF hits
<1>1. \A n \in H : pos[n] \in hits /\ W[pos[n]] = n
    BY <1>0
<1>2. \A i \in hits : i \in 1..N /\ W[i] \in H /\ pos[W[i]] = i
    BY <1>0
<1>3. CASE H = {}
    <2>1. f = Nil
        BY <1>3 DEF FirstOf
    <2>2. hits = {}
        BY <1>2, <1>3
    <2>3. QED BY <2>1, <2>2 DEF AtFirst, hits
<1>4. CASE H # {}
    <2>1. f \in H /\ \A n \in H : pos[f] <= pos[n]
        BY <1>4 DEF FirstOf
    <2>2. pos[f] \in hits /\ W[pos[f]] = f /\ \A j \in hits : pos[f] <= j
        BY <1>1, <1>2, <2>1
    <2> DEFINE c == CHOOSE i \in hits : \A j \in hits : i <= j
    <2>3. c \in hits /\ \A j \in hits : c <= j
        BY <2>2
    <2>4. c = pos[f]
        <3> HIDE DEF c
        <3>1. c <= pos[f] /\ pos[f] <= c
            BY <2>2, <2>3
        <3>2. c \in Int /\ pos[f] \in Int
            BY <1>2, <2>2, <2>3
        <3>3. QED BY <3>1, <3>2
    <2>5. QED BY <2>2, <2>4 DEF AtFirst, hits
<1>5. QED BY <1>3, <1>4

\* An RBMap has no key twice.
OneOfEach == ~multi => \A m, n \in tree.used : tree.key[m] = tree.key[n] => m = n

LEMMA WellMadeLookups ==
    ASSUME MaxNodes \in Nat, Keys \subseteq Nat, WellMade(tree), OneOfEach
    PROVE  LookupsAgree
<1> DEFINE U == tree.used
           there == Walk(Right)
<1>1. PICK N, pos, edge, bd : Balanced(tree, U, N, pos, edge, bd) /\ Sorted(tree, U, pos)
    BY DEF WellMade
<1>2. InOrder(tree, U, N, pos, edge) /\ Placed(U, N, pos, edge)
    BY <1>1 DEF Balanced, InOrder
<1>3. /\ N \in Nat /\ \A n \in U : pos[n] \in 1..N
      /\ \A m, n \in U : pos[m] = pos[n] => m = n
    BY <1>2, PlacedNumbers, OnePlace
<1>4. Visits(there, U, N, pos, Right)
    BY <1>2, WalkVisits, SidesAre
<1>5. Len(there) = N /\ \A i \in 1..N : there[i] \in U /\ pos[there[i]] = i
    <2> HIDE DEF there
    <2>1. QED BY <1>4, SidesAre DEF Visits, StopAt
<1>6. ASSUME NEW k \in Keys
      PROVE  /\ Find(tree, k) = FirstVisited(LAMBDA x : x = k)
             /\ FindPrefix(tree, k) = FirstVisited(LAMBDA x : x > k)
    <2>1. FirstOf(WithKey(tree, k), pos, Find(tree, k)) /\ FirstOf(Above(tree, k), pos, FindPrefix(tree, k))
        BY <1>1, <1>2, FindPlace, FindPrefixPlace
    <2> DEFINE hits == {i \in 1..Len(there) : tree.key[there[i]] = k}
               hits2 == {i \in 1..Len(there) : tree.key[there[i]] > k}
    <2> HIDE DEF there
    <2>2. hits = {i \in 1..Len(there) : there[i] \in WithKey(tree, k)} /\ WithKey(tree, k) \subseteq U
        BY <1>5 DEF WithKey
    <2>3. hits2 = {i \in 1..Len(there) : there[i] \in Above(tree, k)} /\ Above(tree, k) \subseteq U
        BY <1>5 DEF Above
    <2>4. OneByOne(there, U, N, pos)
        BY <1>3, <1>5 DEF OneByOne
    <2>5. Find(tree, k) = IF hits = {} THEN Nil ELSE there[CHOOSE i \in hits : \A j \in hits : i <= j]
        <3>1. Find(tree, k) = AtFirst(there, Hits(there, WithKey(tree, k)))
            BY <2>1, <2>2, <2>4, FirstHit
        <3>2. Hits(there, WithKey(tree, k)) = hits
            BY <2>2 DEF Hits
        <3>3. QED BY <3>1, <3>2 DEF AtFirst
    <2>6. FindPrefix(tree, k) = IF hits2 = {} THEN Nil ELSE there[CHOOSE i \in hits2 : \A j \in hits2 : i <= j]
        <3>1. FindPrefix(tree, k) = AtFirst(there, Hits(there, Above(tree, k)))
            BY <2>1, <2>3, <2>4, FirstHit
        <3>2. Hits(there, Above(tree, k)) = hits2
            BY <2>3 DEF Hits
        <3>3. QED BY <3>1, <3>2 DEF AtFirst
    <2>7. FirstVisited(LAMBDA x : x = k) = IF hits = {} THEN Nil ELSE there[CHOOSE i \in hits : \A j \in hits : i <= j]
        BY DEF FirstVisited, there
    <2>8. FirstVisited(LAMBDA x : x > k) = IF hits2 = {} THEN Nil ELSE there[CHOOSE i \in hits2 : \A j \in hits2 : i <= j]
        BY DEF FirstVisited, there
    <2>9. QED BY <2>5, <2>6, <2>7, <2>8
<1>7. QED BY <1>6 DEF LookupsAgree, OneOfEach

\* A well-made tree is as the users of the tree expect it.
LEMMA WellMadeTreeInv ==
    ASSUME MaxNodes \in Nat, Keys \subseteq Nat, WellMade(tree), OneOfEach
    PROVE  TreeInv
BY WellMadeRedBlack, WellMadeWalks, WellMadeLookups DEF TreeInv

\* The nodes below the root are the nodes in use.
LEMMA LinkedIsUsed ==
    ASSUME MaxNodes \in Nat, WellMade(tree)
    PROVE  Linked = tree.used
<1> DEFINE U == tree.used
           Kids(R) == UNION {{tree.kid[n][Left], tree.kid[n][Right]} : n \in R \ {Nil}}
           Loop(F) == [d \in 0..MaxNodes |-> IF d = 0 THEN {tree.root}
                         ELSE F[d - 1] \cup UNION {{tree.kid[n][Left], tree.kid[n][Right]} : n \in F[d - 1] \ {Nil}}]
           Step == [R \in SUBSET Links |-> R \cup Kids(R)]
           r0 == {tree.root}
<1>1. PICK N, pos, edge, bd : Balanced(tree, U, N, pos, edge, bd)
    BY DEF WellMade
<1>2. /\ InOrder(tree, U, N, pos, edge) /\ Placed(U, N, pos, edge) /\ RootSpans(tree, U, N, edge)
      /\ tree \in Tree /\ Nil \notin U /\ U \subseteq Links /\ Nil \in Links /\ N \in Nat /\ N <= MaxNodes
    <2>1. InOrder(tree, U, N, pos, edge) /\ Placed(U, N, pos, edge) /\ RootSpans(tree, U, N, edge)
        BY <1>1 DEF Balanced, InOrder
    <2>2. tree \in Tree /\ Nil \notin U /\ U \subseteq Links /\ Nil \in Links
        BY <2>1, HungOnce
    <2>3. N \in Nat /\ N <= MaxNodes
        BY <2>1, PlacedCount DEF Placed
    <2>4. QED BY <2>1, <2>2, <2>3
<1>3. \E F : F = Loop(F)
    <2>1. ASSUME NEW R \in SUBSET Links PROVE Step[R] \in SUBSET Links /\ Step[R] = R \cup Kids(R)
        <3>1. \A n \in R : tree.kid[n][Left] \in Links /\ tree.kid[n][Right] \in Links
            BY <1>2, TreeFields, SidesAre
        <3>2. QED BY <3>1
    <2>2. r0 \in SUBSET Links
        BY <1>2, TreeFields
    <2> DEFINE D == SUBSET Links
    <2>3. r0 \in D /\ \A R \in D : Step[R] \in D
        BY <2>1, <2>2
    <2> HIDE DEF Step, r0, D
    <2>4. PICK F : Iterates(F, D, Step, r0, MaxNodes)
        BY <2>3, Iteration
    <2>5. F \in [0..MaxNodes -> D] /\ F[0] = r0 /\ \A d \in 1..MaxNodes : F[d] = Step[F[d - 1]]
        BY <2>4 DEF Iterates
    <2> HIDE DEF Kids
    <2>6. \A d \in 0..MaxNodes : F[d] = IF d = 0 THEN r0 ELSE F[d - 1] \cup Kids(F[d - 1])
        <3>1. TAKE d \in 0..MaxNodes
        <3>2. CASE d = 0
            BY <2>5, <3>2
        <3>3. CASE d # 0
            <4>1. d \in 1..MaxNodes /\ d - 1 \in 0..MaxNodes
                BY <3>3
            <4>2. F[d] = Step[F[d - 1]] /\ F[d - 1] \in SUBSET Links
                BY <2>5, <4>1 DEF D
            <4>3. QED BY <2>1, <3>3, <4>2
        <3>4. QED BY <3>2, <3>3
    <2>7. F = [d \in 0..MaxNodes |-> F[d]]
        BY <2>5
    <2>8. F = [d \in 0..MaxNodes |-> IF d = 0 THEN r0 ELSE F[d - 1] \cup Kids(F[d - 1])]
        BY <2>6, <2>7
    <2>9. F = Loop(F)
        BY <2>8 DEF Kids, r0
    <2>10. QED BY <2>9
<1> DEFINE F == CHOOSE F : F = Loop(F)
<1>4. F = Loop(F)
    <2> HIDE DEF Loop
    <2>1. QED BY <1>3
<1>5. Linked = F[MaxNodes] \ {Nil}
    BY DEF Linked
<1> HIDE DEF F
<1>6. F[0] = {tree.root} /\ \A d \in 1..MaxNodes : F[d] = F[d - 1] \cup Kids(F[d - 1])
    BY <1>4
<1> DEFINE J == {d \in 0..MaxNodes : /\ F[d] \subseteq U \cup {Nil} /\ tree.root \in F[d]
                                     /\ \A n \in U : N - Span(edge, n) <= d => n \in F[d]}
<1>7. ASSUME NEW n \in U, n # tree.root
      PROVE  /\ tree.parent[n] \in U /\ Span(edge, n) < Span(edge, tree.parent[n])
             /\ Span(edge, tree.parent[n]) <= N /\ Span(edge, n) \in Int /\ Span(edge, tree.parent[n]) \in Int
             /\ (n = tree.kid[tree.parent[n]][Left] \/ n = tree.kid[tree.parent[n]][Right])
    <2>1. /\ tree.parent[n] \in U /\ SideOf(tree, n) \in Sides /\ tree.kid[tree.parent[n]][SideOf(tree, n)] = n /\ n # Nil
        BY <1>2, <1>7, ParentFacts
    <2>2. Span(edge, n) < Span(edge, tree.parent[n])
        BY <1>2, <2>1, SpanBelow
    <2>3. Span(edge, n) \in Int /\ Span(edge, tree.parent[n]) \in Int /\ Span(edge, tree.parent[n]) <= N
        BY <1>2, <2>1, SpanBelow
    <2>4. QED BY <2>1, <2>2, <2>3, SidesAre
<1>8. 0 \in J
    <2>1. tree.root \in U \cup {Nil}
        BY <1>2 DEF RootSpans
    <2>2. ASSUME NEW n \in U, N - Span(edge, n) <= 0 PROVE n = tree.root
        BY <1>2, <1>7, <2>2
    <2>3. QED BY <1>6, <2>1, <2>2
<1>9. ASSUME NEW d \in 1..MaxNodes, d - 1 \in J PROVE d \in J
    <2>1. F[d] = F[d - 1] \cup Kids(F[d - 1]) /\ d \in 0..MaxNodes
        BY <1>6
    <2>2. /\ F[d - 1] \subseteq U \cup {Nil} /\ tree.root \in F[d - 1]
          /\ \A n \in U : N - Span(edge, n) <= d - 1 => n \in F[d - 1]
        BY <1>9
    <2>3. F[d] \subseteq U \cup {Nil}
        <3>1. \A n \in U : tree.kid[n][Left] \in U \cup {Nil} /\ tree.kid[n][Right] \in U \cup {Nil}
            BY <1>2, HungOnce, SidesAre
        <3>2. QED BY <2>1, <2>2, <3>1
    <2>4. ASSUME NEW n \in U, N - Span(edge, n) <= d PROVE n \in F[d]
        <3>1. CASE n = tree.root
            BY <2>1, <2>2, <3>1
        <3>2. CASE n # tree.root
            <4> DEFINE p == tree.parent[n]
            <4>1. p \in U /\ N - Span(edge, p) <= d - 1
                BY <1>2, <1>7, <2>4, <3>2
            <4>2. p \in F[d - 1] /\ p # Nil
                BY <1>2, <2>2, <4>1
            <4>3. n \in Kids(F[d - 1])
                BY <1>7, <3>2, <4>2
            <4>4. QED BY <2>1, <4>3
        <3>3. QED BY <3>1, <3>2
    <2>5. QED BY <2>1, <2>2, <2>3, <2>4
<1>10. MaxNodes \in J
    <2>1. 0..MaxNodes \subseteq J
        <3> HIDE DEF J
        <3>1. QED BY <1>8, <1>9, CountUp
    <2>2. MaxNodes \in 0..MaxNodes
        OBVIOUS
    <2>3. QED BY <2>1, <2>2
<1>11. \A n \in U : N - Span(edge, n) <= MaxNodes
    <2>1. TAKE n \in U
    <2>2. Span(edge, n) \in Nat
        BY <1>2, SpanBelow
    <2>3. QED BY <1>2, <2>2
<1>12. F[MaxNodes] \subseteq U \cup {Nil} /\ \A n \in U : n \in F[MaxNodes]
    BY <1>10, <1>11
<1>13. QED BY <1>2, <1>5, <1>12

\* The tree without nodes, whatever the sentinel's links say.
LEMMA EmptyWellMade ==
    ASSUME NEW t \in Tree, t.used = {}, t.root = Nil, t.red = {}, t.kid[Nil][Left] = Nil
    PROVE  WellMade(t)
<1> DEFINE none == [n \in {} |-> 0]
           b0 == [n \in {Nil} |-> 0]
<1>1. Placed({}, 0, none, none)
    <2>1. none \in [{} -> 1..0] /\ none \in [{} -> [Sides -> 1..0]] /\ ~\E i \in 1..0 : TRUE
        OBVIOUS
    <2>2. QED BY <2>1 DEF Placed
<1>2. InOrder(t, {}, 0, none, none)
    BY <1>1 DEF InOrder, RootSpans
<1>3. Levels(t, {}, b0)
    BY DEF Levels
<1>4. Balanced(t, {}, 0, none, none, b0)
    <2> HIDE DEF none, b0
    <2>1. QED BY <1>2, <1>3 DEF Balanced
<1>5. Sorted(t, {}, none)
    BY DEF Sorted
<1>6. QED BY <1>4, <1>5 DEF WellMade

\* u differs from t in the value of n.
ItemSet(t, u, n, value) ==
    u.used = t.used /\ u.key = t.key /\ u.value = [t.value EXCEPT ![n] = value]

\* SetAt only changes a value.
LEMMA ValueSet ==
    ASSUME NEW t, WellMade(t), NEW n \in t.used, NEW value \in Nat,
           NEW u, u = [t EXCEPT !.value[n] = value]
    PROVE  WellMade(u) /\ ItemSet(t, u, n, value)
<1>1. PICK N, pos, edge, bd : Balanced(t, t.used, N, pos, edge, bd) /\ Sorted(t, t.used, pos)
    BY DEF WellMade
<1>2. t \in Tree
    BY WellMadeFields
<1>3. /\ u \in Tree /\ u.root = t.root /\ u.used = t.used /\ u.red = t.red /\ u.kid = t.kid
      /\ u.parent = t.parent /\ u.key = t.key /\ u.value = [t.value EXCEPT ![n] = value]
    BY <1>2 DEF Tree
<1>4. InOrder(u, t.used, N, pos, edge)
    <2>1. InOrder(t, t.used, N, pos, edge)
        BY <1>1 DEF Balanced
    <2>2. \A a \in t.used, s \in Sides : Hangs(u, t.used, pos, edge, a, s)
        BY <1>3, <2>1 DEF InOrder, Hangs
    <2>3. RootSpans(u, t.used, N, edge)
        BY <1>3, <2>1 DEF InOrder, RootSpans
    <2>4. \A a : SideOf(u, a) = SideOf(t, a)
        BY <1>3 DEF SideOf
    <2>5. QED BY <1>3, <2>1, <2>2, <2>3, <2>4 DEF InOrder
<1>5. Levels(u, t.used, bd)
    BY <1>1, <1>3 DEF Balanced, Levels, BlackOne
<1>6. \A a \in t.used, s \in Sides : RedApart(u, a, s)
    BY <1>1, <1>3 DEF Balanced, RedApart
<1>7. Balanced(u, t.used, N, pos, edge, bd)
    BY <1>1, <1>3, <1>4, <1>5, <1>6 DEF Balanced
<1>8. Sorted(u, t.used, pos)
    BY <1>1, <1>3 DEF Sorted
<1>9. WellMade(u)
    BY <1>3, <1>7, <1>8 DEF WellMade
<1>10. QED BY <1>3, <1>9 DEF ItemSet

\* The inductive invariant: a tree in order and in balance, and of an RBMap
\* one node of each key.
TreeIInv == multi \in BOOLEAN /\ WellMade(tree) /\ OneOfEach

\* What a step does to the nodes in use and what it says it did.
Adds(n, key, value) ==
    /\ n \in Node \ tree.used /\ key \in Nat /\ value \in Nat
    /\ ItemAdded(tree, tree', n, key, value)
    /\ op' = [name |-> "Add", pos |-> n, key |-> key, value |-> value]

Sets(n, key, value) ==
    /\ n \in WithKey(tree, key) /\ value \in Nat
    /\ ItemSet(tree, tree', n, value)
    /\ op' = [name |-> "Store", pos |-> n, key |-> key, value |-> value]

Takes(n) ==
    n \in tree.used /\ ItemGone(tree, tree', n) /\ op' = [name |-> "Remove", pos |-> n]

TakesKey(key) ==
    KeyGone(tree, tree', key) /\ op' = [name |-> "RemoveKey", key |-> key]

TakesAll == tree'.used = {} /\ op' = [name |-> "RemoveAll"]

TreeMoves ==
    \/ \E n, key, value : Adds(n, key, value) \/ Sets(n, key, value)
    \/ \E n : Takes(n)
    \/ \E key : TakesKey(key)
    \/ TakesAll

\* The node the free list gives is free.
LEMMA SpareIsFree ==
    ASSUME tree.used \subseteq Node, tree.used # Node
    PROVE  SpareNode \in Node \ tree.used
<1>1. \E m \in Node \ tree.used : \A k \in Node \ tree.used : m <= k
    <2>1. Node \ tree.used \subseteq Nat
        BY DEF Node
    <2>2. Node \ tree.used # {}
        OBVIOUS
    <2>3. QED BY <2>1, <2>2, LeastOf
<1>2. QED BY <1>1 DEF SpareNode

LEMMA FindOfWellMade ==
    ASSUME NEW t, WellMade(t), NEW key \in Nat
    PROVE  /\ Find(t, key) = Nil => WithKey(t, key) = {}
           /\ Find(t, key) # Nil => Find(t, key) \in WithKey(t, key)
<1>1. PICK N, pos, edge, bd : Balanced(t, t.used, N, pos, edge, bd) /\ Sorted(t, t.used, pos)
    BY DEF WellMade
<1>2. InOrder(t, t.used, N, pos, edge)
    BY <1>1 DEF Balanced
<1>3. FirstOf(WithKey(t, key), pos, Find(t, key))
    BY <1>1, <1>2, FindPlace
<1>4. Nil \notin WithKey(t, key)
    BY <1>2, HungOnce DEF WithKey, InOrder
<1>5. QED BY <1>3, <1>4 DEF FirstOf

\* An addition, of an RBMap of a key it has not got.
LEMMA AddStep ==
    ASSUME WellMade(tree), OneOfEach, NEW key \in Nat, NEW value \in Nat, AddItem(key, value),
           multi \/ WithKey(tree, key) = {}, multi' = multi
    PROVE  WellMade(tree') /\ OneOfEach' /\ TreeMoves
<1> DEFINE n == SpareNode
<1>1. /\ tree.used # Node /\ tree' = RBInsert(tree, n, key, value)
      /\ op' = [name |-> "Add", pos |-> n, key |-> key, value |-> value]
    BY DEF AddItem
<1>2. n \in Node \ tree.used
    BY <1>1, SpareIsFree, WellMadeFields
<1> HIDE DEF n
<1>3. WellMade(RBInsert(tree, n, key, value)) /\ ItemAdded(tree, RBInsert(tree, n, key, value), n, key, value)
    BY <1>2, RBInsertWellMade
<1>4. WellMade(tree') /\ ItemAdded(tree, tree', n, key, value)
    BY <1>1, <1>3
<1>5. OneOfEach'
    <2> SUFFICES ASSUME ~multi, NEW a \in tree'.used, NEW b \in tree'.used, tree'.key[a] = tree'.key[b]
                 PROVE  a = b
        BY DEF OneOfEach
    <2>1. /\ tree'.used = tree.used \cup {n} /\ tree'.key[n] = key
          /\ \A m \in tree.used : tree'.key[m] = tree.key[m]
        BY <1>4 DEF ItemAdded
    <2>2. \A m \in tree.used : tree.key[m] # key
        BY DEF WithKey
    <2>3. QED BY <2>1, <2>2 DEF OneOfEach
<1>6. Adds(n, key, value)
    BY <1>1, <1>2, <1>4 DEF Adds
<1>7. QED BY <1>4, <1>5, <1>6 DEF TreeMoves

\* What only takes nodes keeps the keys single.
LEMMA FewerKeepOne ==
    ASSUME OneOfEach, multi' = multi, tree'.used \subseteq tree.used, tree'.key = tree.key
    PROVE  OneOfEach'
BY DEF OneOfEach

LEMMA ValueSetAt ==
    ASSUME NEW t, WellMade(t), NEW n \in t.used, NEW value \in Nat
    PROVE  /\ WellMade([t EXCEPT !.value[n] = value])
           /\ ItemSet(t, [t EXCEPT !.value[n] = value], n, value)
<1>1. \E u : u = [t EXCEPT !.value[n] = value]
    OBVIOUS
<1>2. PICK u : u = [t EXCEPT !.value[n] = value]
    BY <1>1
<1>3. WellMade(u) /\ ItemSet(t, u, n, value)
    BY <1>2, ValueSet
<1>4. QED BY <1>2, <1>3

LEMMA StoreStep ==
    ASSUME WellMade(tree), OneOfEach, NEW key \in Nat, NEW value \in Nat, NEW n \in WithKey(tree, key),
           tree' = [tree EXCEPT !.value[n] = value], multi' = multi,
           op' = [name |-> "Store", pos |-> n, key |-> key, value |-> value]
    PROVE  WellMade(tree') /\ OneOfEach' /\ TreeMoves
<1>1. n \in tree.used
    BY DEF WithKey
<1>2. WellMade(tree') /\ ItemSet(tree, tree', n, value)
    BY <1>1, ValueSetAt
<1>3. OneOfEach'
    <2>1. tree'.used \subseteq tree.used /\ tree'.key = tree.key
        BY <1>2 DEF ItemSet
    <2>2. QED BY <2>1, FewerKeepOne
<1>4. Sets(n, key, value)
    BY <1>2 DEF Sets
<1>5. QED BY <1>2, <1>3, <1>4 DEF TreeMoves

LEMMA RemoveAtStep ==
    ASSUME WellMade(tree), OneOfEach, NEW n, RemoveAt(n)
    PROVE  WellMade(tree') /\ OneOfEach' /\ TreeMoves
<1>1. n \in tree.used /\ tree' = RBDelete(tree, n) /\ op' = [name |-> "Remove", pos |-> n] /\ multi' = multi
    BY DEF RemoveAt
<1>2. WellMade(RBDelete(tree, n)) /\ ItemGone(tree, RBDelete(tree, n), n)
    BY <1>1, RBDeleteWellMade
<1>3. WellMade(tree') /\ ItemGone(tree, tree', n)
    BY <1>1, <1>2
<1>4. OneOfEach'
    <2>1. tree'.used \subseteq tree.used /\ tree'.key = tree.key
        BY <1>3 DEF ItemGone
    <2>2. QED BY <1>1, <2>1, FewerKeepOne
<1>5. Takes(n)
    BY <1>1, <1>3 DEF Takes
<1>6. QED BY <1>3, <1>4, <1>5 DEF TreeMoves

LEMMA RemoveKeyStep ==
    ASSUME MaxNodes \in Nat, WellMade(tree), OneOfEach, NEW key \in Nat, RemoveKey(key)
    PROVE  WellMade(tree') /\ OneOfEach' /\ TreeMoves
<1> DEFINE n == Find(tree, key)
<1>1. /\ n # Nil /\ op' = [name |-> "RemoveKey", key |-> key] /\ multi' = multi
      /\ tree' = IF multi THEN DeleteEqual(tree, n, key) ELSE RBDelete(tree, n)
    BY DEF RemoveKey
<1>2. n \in WithKey(tree, key)
    BY <1>1, FindOfWellMade
<1>3. WellMade(tree') /\ KeyGone(tree, tree', key)
    <2>1. CASE multi
        <3>1. WellMade(DeleteEqual(tree, n, key)) /\ KeyGone(tree, DeleteEqual(tree, n, key), key)
            BY <1>1, DeleteEqualWellMade
        <3>2. QED BY <1>1, <2>1, <3>1
    <2>2. CASE ~multi
        <3>1. n \in tree.used
            BY <1>2 DEF WithKey
        <3>2. WithKey(tree, key) = {n}
            BY <1>2, <2>2 DEF WithKey, OneOfEach
        <3> HIDE DEF n
        <3>3. WellMade(RBDelete(tree, n)) /\ ItemGone(tree, RBDelete(tree, n), n)
            BY <3>1, RBDeleteWellMade
        <3>4. WellMade(tree') /\ ItemGone(tree, tree', n)
            BY <1>1, <2>2, <3>3
        <3>5. QED BY <3>2, <3>4 DEF ItemGone, KeyGone
    <2>3. QED BY <2>1, <2>2
<1>4. OneOfEach'
    <2>1. tree'.used \subseteq tree.used /\ tree'.key = tree.key
        BY <1>3 DEF KeyGone
    <2>2. QED BY <1>1, <2>1, FewerKeepOne
<1>5. TakesKey(key)
    BY <1>1, <1>3 DEF TakesKey
<1>6. QED BY <1>3, <1>4, <1>5 DEF TreeMoves

Emptied(a, b) == [NewTree EXCEPT !.kid[Nil] = a, !.parent[Nil] = b]

IsEmpty(t, a) == t \in Tree /\ t.used = {} /\ t.root = Nil /\ t.red = {} /\ t.kid[Nil] = a

LEMMA EmptiedIs ==
    ASSUME NEW a \in Links \X Links, NEW b \in Links
    PROVE  IsEmpty(Emptied(a, b), a)
<1>1. NewTree \in Tree /\ NewTree.used = {} /\ NewTree.root = Nil /\ NewTree.red = {}
    BY DEF NewTree, Tree, Links
<1>2. Nil \in Links
    BY DEF Links
<1>3. /\ Emptied(a, b) \in Tree /\ Emptied(a, b).used = {} /\ Emptied(a, b).root = Nil
      /\ Emptied(a, b).red = {} /\ Emptied(a, b).kid[Nil] = a
    BY <1>1, <1>2 DEF Emptied, Tree
<1>4. QED BY <1>3 DEF IsEmpty

LEMMA NewTreeIs == IsEmpty(NewTree, <<Nil, Nil>>)
BY DEF NewTree, Tree, Links, IsEmpty

LEMMA RemoveAllStep ==
    ASSUME WellMade(tree), OneOfEach, RemoveAll
    PROVE  WellMade(tree') /\ OneOfEach' /\ TreeMoves
<1>1. tree \in Tree /\ tree.kid[Nil][Left] = Nil
    BY WellMadeFields
<1>2. tree.kid[Nil] \in Links \X Links /\ tree.parent[Nil] \in Links
    BY <1>1 DEF Tree, Links
<1> DEFINE a == tree.kid[Nil]
           b == tree.parent[Nil]
<1>3. tree' \in Tree /\ tree'.used = {} /\ tree'.root = Nil /\ tree'.red = {} /\ tree'.kid[Nil] = a
    <2>1. tree' = Emptied(a, b)
        BY DEF RemoveAll, Emptied
    <2> HIDE DEF a, b
    <2>2. IsEmpty(Emptied(a, b), a)
        BY <1>2, EmptiedIs DEF a, b
    <2>3. IsEmpty(tree', a)
        BY <2>1, <2>2
    <2>4. QED BY <2>3 DEF IsEmpty
<1>4. WellMade(tree')
    BY <1>1, <1>3, EmptyWellMade
<1>5. OneOfEach'
    BY <1>3 DEF OneOfEach
<1>6. TakesAll
    BY <1>3 DEF RemoveAll, TakesAll
<1>7. QED BY <1>4, <1>5, <1>6 DEF TreeMoves

\* Every operation keeps the tree well made and does to its nodes what it says.
LEMMA TreeStep ==
    ASSUME TreeIInv, TreeNext
    PROVE  TreeIInv' /\ TreeMoves
<1>1. MaxNodes \in Nat /\ Keys \subseteq Nat /\ Values \subseteq Nat
    BY TreeAssumption
<1>2. multi \in BOOLEAN /\ WellMade(tree) /\ OneOfEach
    BY DEF TreeIInv
<1>3. ASSUME NEW k \in Keys, NEW v \in Values, Insert(k, v)
      PROVE  TreeIInv' /\ TreeMoves
    <2>1. multi /\ AddItem(k, v) /\ multi' = multi
        BY <1>3 DEF Insert
    <2>2. WellMade(tree') /\ OneOfEach' /\ TreeMoves
        BY <1>1, <1>2, <2>1, AddStep
    <2>3. QED BY <1>2, <2>1, <2>2 DEF TreeIInv
<1>4. ASSUME NEW k \in Keys, NEW v \in Values, SetAt(k, v)
      PROVE  TreeIInv' /\ TreeMoves
    <2> DEFINE n == Find(tree, k)
    <2>1. /\ multi' = multi
          /\ \/ n = Nil /\ AddItem(k, v)
             \/ /\ n # Nil /\ tree' = [tree EXCEPT !.value[n] = v]
                /\ op' = [name |-> "Store", pos |-> n, key |-> k, value |-> v]
        BY <1>4 DEF SetAt
    <2>2. /\ n = Nil => WithKey(tree, k) = {}
          /\ n # Nil => n \in WithKey(tree, k)
        BY <1>1, <1>2, FindOfWellMade
    <2>3. k \in Nat /\ v \in Nat
        BY <1>1
    <2> HIDE DEF n
    <2>4. WellMade(tree') /\ OneOfEach' /\ TreeMoves
        <3>1. CASE n = Nil
            BY <1>2, <2>1, <2>2, <2>3, <3>1, AddStep
        <3>2. CASE n # Nil
            BY <1>2, <2>1, <2>2, <2>3, <3>2, StoreStep
        <3>3. QED BY <3>1, <3>2
    <2>5. QED BY <1>2, <2>1, <2>4 DEF TreeIInv
<1>5. ASSUME NEW n \in Node, RemoveAt(n)
      PROVE  TreeIInv' /\ TreeMoves
    <2>1. multi' = multi
        BY <1>5 DEF RemoveAt
    <2>2. QED BY <1>2, <1>5, <2>1, RemoveAtStep DEF TreeIInv
<1>6. ASSUME NEW k \in Keys, RemoveKey(k)
      PROVE  TreeIInv' /\ TreeMoves
    <2>1. multi' = multi
        BY <1>6 DEF RemoveKey
    <2>2. QED BY <1>1, <1>2, <1>6, <2>1, RemoveKeyStep DEF TreeIInv
<1>7. ASSUME RemoveAll
      PROVE  TreeIInv' /\ TreeMoves
    <2>1. multi' = multi
        BY <1>7 DEF RemoveAll
    <2>2. QED BY <1>2, <1>7, <2>1, RemoveAllStep DEF TreeIInv
<1>8. QED BY <1>3, <1>4, <1>5, <1>6, <1>7 DEF TreeNext

LEMMA TreeStarts ==
    ASSUME TreeInit
    PROVE  TreeIInv /\ tree.used = {}
<1>1. /\ tree \in Tree /\ tree.used = {} /\ tree.root = Nil /\ tree.red = {} /\ tree.kid[Nil][Left] = Nil
    <2>1. IsEmpty(tree, <<Nil, Nil>>)
        BY NewTreeIs DEF TreeInit
    <2>2. QED BY <2>1 DEF IsEmpty, Left
<1>2. WellMade(tree)
    BY <1>1, EmptyWellMade
<1>3. OneOfEach
    BY <1>1 DEF OneOfEach
<1>4. QED BY <1>1, <1>2, <1>3 DEF TreeIInv, TreeInit

LEMMA TreeIInvHolds == TreeSpec => []TreeIInv
<1>1. TreeInit => TreeIInv
    BY TreeStarts
<1>2. TreeIInv /\ [TreeNext]_treeVars => TreeIInv'
    <2> SUFFICES ASSUME TreeIInv, [TreeNext]_treeVars PROVE TreeIInv'
        OBVIOUS
    <2>1. CASE TreeNext
        BY <2>1, TreeStep
    <2>2. CASE UNCHANGED treeVars
        <3>1. multi' = multi /\ tree' = tree
            BY <2>2 DEF treeVars
        <3>2. QED BY <3>1 DEF TreeIInv, OneOfEach
    <2>3. QED BY <2>1, <2>2
<1>3. QED BY <1>1, <1>2, PTL DEF TreeSpec

\* TreeInv: whatever is added and removed, in whatever order, the tree is
\* balanced red and black, GetNext and GetPrev pass its nodes in order, each
\* once, and Find and FindFirstKeyAfter give the first node they look for.
THEOREM TreeInvHolds == TreeSpec => []TreeInv
<1>1. TreeIInv => TreeInv
    BY TreeAssumption, WellMadeTreeInv DEF TreeIInv
<1>2. QED BY <1>1, TreeIInvHolds, PTL

\* What the moves do to the items of the nodes in use.
LEMMA MovesKeepItems ==
    ASSUME TreeMoves, Linked = tree.used, Linked' = tree'.used, tree \in Tree, tree' \in Tree
    PROVE  TreePromise!Next
<1> DEFINE items == [n \in Linked |-> [key |-> tree.key[n], value |-> tree.value[n]]]
           U == tree.used
           V == tree'.used
<1>1. items = [n \in U |-> [key |-> tree.key[n], value |-> tree.value[n]]] /\ DOMAIN items = U
    OBVIOUS
<1>2. items' = [n \in V |-> [key |-> tree'.key[n], value |-> tree'.value[n]]]
    OBVIOUS
<1>3. \A n \in U : /\ items[n] = [key |-> tree.key[n], value |-> tree.value[n]]
                    /\ items[n].key = tree.key[n]
                    /\ \A v : [items[n] EXCEPT !.value = v] = [key |-> tree.key[n], value |-> v]
    OBVIOUS
<1> HIDE DEF items
<1>4. ASSUME NEW n, NEW key, NEW value, Adds(n, key, value)
      PROVE  TreePromise!Add
    <2>1. op'.name = "Add" /\ op'.pos = n /\ op'.key = key /\ op'.value = value /\ n \notin U
        BY <1>4 DEF Adds
    <2>2. /\ V = U \cup {n} /\ tree'.key[n] = key /\ tree'.value[n] = value
          /\ \A m \in U : tree'.key[m] = tree.key[m] /\ tree'.value[m] = tree.value[m]
        BY <1>4 DEF Adds, ItemAdded
    <2> HIDE DEF U, V
    <2>3. \A m \in V : [key |-> tree'.key[m], value |-> tree'.value[m]] =
                         IF m = n THEN [key |-> key, value |-> value] ELSE items[m]
        BY <1>3, <2>2
    <2>4. items' = [p \in U \cup {n} |-> IF p = n THEN [key |-> key, value |-> value] ELSE items[p]]
        BY <1>2, <2>2, <2>3
    <2>5. QED BY <1>1, <2>1, <2>4 DEF TreePromise!Add, items
<1>5. ASSUME NEW n, NEW key, NEW value, Sets(n, key, value)
      PROVE  TreePromise!Store
    <2>1. op'.name = "Store" /\ op'.pos = n /\ op'.key = key /\ op'.value = value
        BY <1>5 DEF Sets
    <2>2. n \in U /\ tree.key[n] = key
        BY <1>5 DEF Sets, WithKey
    <2>3. V = U /\ tree'.key = tree.key /\ tree'.value = [tree.value EXCEPT ![n] = value]
        BY <1>5 DEF Sets, ItemSet
    <2>4. tree.value \in [Links -> Nat] /\ U \subseteq Links
        BY DEF Tree, Links
    <2> HIDE DEF U, V
    <2>5. \A m \in U : tree'.value[m] = IF m = n THEN value ELSE tree.value[m]
        BY <2>3, <2>4
    <2>6. \A m \in U : [key |-> tree'.key[m], value |-> tree'.value[m]] =
                         IF m = n THEN [items[m] EXCEPT !.value = value] ELSE items[m]
        BY <1>3, <2>3, <2>5
    <2>7. [items EXCEPT ![n].value = value] = [m \in U |-> IF m = n THEN [items[m] EXCEPT !.value = value] ELSE items[m]]
        BY <1>1
    <2>8. items' = [items EXCEPT ![n].value = value]
        BY <1>2, <2>3, <2>6, <2>7
    <2>9. items[n].key = key
        BY <1>3, <2>2
    <2>10. QED BY <1>1, <2>1, <2>2, <2>8, <2>9 DEF TreePromise!Store, items
<1>6. ASSUME NEW S, V = U \ S, tree'.key = tree.key, tree'.value = tree.value
      PROVE  items' = [p \in U \ S |-> items[p]]
    <2> HIDE DEF U, V
    <2>1. \A m \in U \ S : [key |-> tree'.key[m], value |-> tree'.value[m]] = items[m]
        BY <1>3, <1>6
    <2>2. QED BY <1>2, <1>6, <2>1
<1>7. ASSUME NEW n, Takes(n)
      PROVE  TreePromise!Remove
    <2>1. op'.name = "Remove" /\ op'.pos = n /\ n \in U
        BY <1>7 DEF Takes
    <2>2. items' = [p \in U \ {n} |-> items[p]]
        BY <1>6, <1>7 DEF Takes, ItemGone
    <2>3. QED BY <1>1, <2>1, <2>2 DEF TreePromise!Remove, TreePromise!Keep, items
<1>8. ASSUME NEW key, TakesKey(key)
      PROVE  TreePromise!RemoveKey
    <2>1. op'.name = "RemoveKey" /\ op'.key = key
        BY <1>8 DEF TakesKey
    <2>2. items' = [p \in U \ WithKey(tree, key) |-> items[p]]
        BY <1>6, <1>8 DEF TakesKey, KeyGone
    <2>3. U \ WithKey(tree, key) = {p \in U : items[p].key # key}
        BY <1>3 DEF WithKey
    <2>4. QED BY <1>1, <2>1, <2>2, <2>3 DEF TreePromise!RemoveKey, TreePromise!Keep, items
<1>9. ASSUME TakesAll
      PROVE  TreePromise!RemoveAll
    <2>1. op'.name = "RemoveAll" /\ V = {}
        BY <1>9 DEF TakesAll
    <2>2. items' = [p \in {} |-> items[p]]
        BY <1>2, <2>1
    <2>3. QED BY <2>1, <2>2 DEF TreePromise!RemoveAll, TreePromise!Keep, items
<1>10. QED BY <1>4, <1>5, <1>7, <1>8, <1>9 DEF TreeMoves, TreePromise!Next

LinksUsed == Linked = tree.used /\ tree \in Tree

LEMMA TreeLinksUsed == TreeSpec => []LinksUsed
<1>1. TreeIInv => LinksUsed
    BY TreeAssumption, LinkedIsUsed, WellMadeFields DEF TreeIInv, LinksUsed
<1>2. QED BY <1>1, TreeIInvHolds, PTL

\* TreeIsStore: a rotation or a removal, with one node of the key or several,
\* loses no other node, brings none back and disturbs no other item: the nodes
\* below the root are a store of items, each at its position until removed.
THEOREM TreeIsStoreHolds == TreeSpec => TreeIsStore
<1> DEFINE items == [n \in Linked |-> [key |-> tree.key[n], value |-> tree.value[n]]]
<1>1. TreeInit /\ LinksUsed => TreePromise!Init
    <2> SUFFICES ASSUME TreeInit, LinksUsed PROVE TreePromise!Init
        OBVIOUS
    <2>1. Linked = {}
        BY TreeStarts DEF LinksUsed
    <2>2. op = [name |-> "Init"]
        BY DEF TreeInit
    <2>3. items = [p \in {} |-> 0]
        BY <2>1
    <2>4. QED BY <2>2, <2>3 DEF TreePromise!Init
<1>2. TreeIInv /\ LinksUsed /\ LinksUsed' /\ [TreeNext]_treeVars => [TreePromise!Next]_<<items, op>>
    <2> SUFFICES ASSUME TreeIInv, LinksUsed, LinksUsed', [TreeNext]_treeVars PROVE [TreePromise!Next]_<<items, op>>
        OBVIOUS
    <2>1. CASE UNCHANGED treeVars
        <3>1. tree' = tree /\ op' = op
            BY <2>1 DEF treeVars
        <3>2. items' = items
            BY <3>1 DEF Linked
        <3>3. QED BY <3>1, <3>2
    <2>2. CASE TreeNext
        <3>1. TreeMoves
            BY <2>2, TreeStep
        <3>2. QED BY <3>1, MovesKeepItems DEF LinksUsed
    <2>3. QED BY <2>1, <2>2
<1>3. QED BY <1>1, <1>2, TreeIInvHolds, TreeLinksUsed, PTL DEF TreeSpec, TreeIsStore, TreePromise!Spec

=============================================================================

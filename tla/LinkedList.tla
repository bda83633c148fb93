----------------------------- MODULE LinkedList -----------------------------
(***************************************************************************)
(* ftl::List of src/include/ftl/ftlcollections.h: a chain of nodes linked  *)
(* both ways, and its user.  A position is a node; 0 is NULL.              *)
(***************************************************************************)
EXTENDS Integers, Sequences, FiniteSets

CONSTANTS
    MaxItems,   \* bound: nodes at a time
    Elements

ASSUME ListAssumption == MaxItems \in Nat

VARIABLES
    list,       \* _pHead, _pTail, the links, the elements, _nElements and the blocks
    act         \* history: the operation just done

listVars == <<list, act>>

Item == 1..MaxItems

EmptyList ==
    [head |-> 0, tail |-> 0, used |-> {}, nElements |-> 0, blocks |-> FALSE,
     next |-> [i \in Item |-> 0], prev |-> [i \in Item |-> 0], element |-> [i \in Item |-> 0]]

ListInit == list = EmptyList /\ act = [name |-> "Init"]

\* NewNode: the free list, refilled by a block when empty, has a node; which
\* one makes no difference.
FreeItem == CHOOSE i \in Item \ list.used : \A j \in Item \ list.used : i <= j

NewItem(l, i, e, prev, next) ==
    [l EXCEPT !.used = @ \cup {i}, !.nElements = @ + 1, !.blocks = TRUE,
              !.element[i] = e, !.prev[i] = prev, !.next[i] = next]

\* The neighbours of i, or the ends of the list where it has none, lead to i.
LinkBehind(l, prev, i) == IF prev = 0 THEN [l EXCEPT !.head = i] ELSE [l EXCEPT !.next[prev] = i]

LinkBefore(l, next, i) == IF next = 0 THEN [l EXCEPT !.tail = i] ELSE [l EXCEPT !.prev[next] = i]

\* Faulty variant: the node behind is not told.
PlaceOneWay(l, i, e, prev, next) == LinkBehind(NewItem(l, i, e, prev, next), prev, i)

\* A new node between two neighbours: AddHead, AddTail, InsertBefore and
\* InsertAfter differ in which of these they look up.
Place(l, i, e, prev, next) == LinkBefore(LinkBehind(NewItem(l, i, e, prev, next), prev, i), next, i)

\* FreeNode: the last node takes all blocks with it (RemoveAll).
FreeItemOf(l, i) ==
    LET less == [l EXCEPT !.used = @ \ {i}, !.nElements = @ - 1]
    IN  IF less.nElements = 0
        THEN [less EXCEPT !.head = 0, !.tail = 0, !.blocks = FALSE] ELSE less

Bridge(l, i) == LinkBefore(LinkBehind(l, l.prev[i], l.next[i]), l.next[i], l.prev[i])

\* AddHead, and InsertBefore of NULL.
AddHead(e) ==
    /\ list.used # Item
    /\ list' = Place(list, FreeItem, e, 0, list.head)
    /\ act' = [name |-> "AddHead", new |-> FreeItem]

\* AddTail, and InsertAfter of NULL.
AddTail(e) ==
    /\ list.used # Item
    /\ list' = Place(list, FreeItem, e, list.tail, 0)
    /\ act' = [name |-> "AddTail", new |-> FreeItem]

InsertBefore(at, e) ==
    /\ list.used # Item
    /\ list' = Place(list, FreeItem, e, list.prev[at], at)
    /\ act' = [name |-> "InsertBefore", new |-> FreeItem, at |-> at]

InsertAfter(at, e) ==
    /\ list.used # Item
    /\ list' = Place(list, FreeItem, e, at, list.next[at])
    /\ act' = [name |-> "InsertAfter", new |-> FreeItem, at |-> at]

\* RemoveAt, RemoveHead and RemoveTail.
RemoveItem(at) ==
    /\ list' = FreeItemOf(Bridge(list, at), at)
    /\ act' = [name |-> "Remove", at |-> at]

RemoveAllItems == list' = EmptyList /\ act' = [name |-> "RemoveAll"]

MoveToHead(at) ==
    /\ list' = IF at = list.head THEN list
               ELSE LET out == Bridge(list, at)
                    IN  [out EXCEPT !.prev[out.head] = at, !.next[at] = out.head,
                                    !.prev[at] = 0, !.head = at]
    /\ act' = [name |-> "MoveToHead", at |-> at]

MoveToTail(at) ==
    /\ list' = IF at = list.tail THEN list
               ELSE LET out == Bridge(list, at)
                    IN  [out EXCEPT !.next[out.tail] = at, !.prev[at] = out.tail,
                                    !.next[at] = 0, !.tail = at]
    /\ act' = [name |-> "MoveToTail", at |-> at]

\* SwapElements of two neighbours, a in front of b.
SwapAdjacent(l, a, b) ==
    LET ends == LinkBefore(LinkBehind([l EXCEPT !.prev[b] = l.prev[a]], l.prev[a], b), l.next[b], a)
    IN  [ends EXCEPT !.next[a] = l.next[b], !.next[b] = a, !.prev[a] = b]

\* Faulty variant: neighbours are treated like any two nodes.
SwappedBlindly(l, a, b) ==
    LET crossed == [l EXCEPT !.prev[a] = l.prev[b], !.prev[b] = l.prev[a],
                             !.next[a] = l.next[b], !.next[b] = l.next[a]]
        one == LinkBehind(LinkBefore(crossed, crossed.next[a], a), crossed.prev[a], a)
    IN  LinkBehind(LinkBefore(one, one.next[b], b), one.prev[b], b)

\* SwapElements of two nodes: their links are crossed, then the nodes around
\* them led to their new neighbours.
Swapped(l, a, b) ==
    LET crossed == [l EXCEPT !.prev[a] = l.prev[b], !.prev[b] = l.prev[a],
                             !.next[a] = l.next[b], !.next[b] = l.next[a]]
        one == LinkBehind(LinkBefore(crossed, crossed.next[a], a), crossed.prev[a], a)
    IN  CASE a = b         -> l
          [] l.next[b] = a -> SwapAdjacent(l, b, a)
          [] l.next[a] = b -> SwapAdjacent(l, a, b)
          [] OTHER         -> LinkBehind(LinkBefore(one, one.next[b], b), one.prev[b], b)

SwapElements(a, b) ==
    /\ list' = Swapped(list, a, b)
    /\ act' = [name |-> "Swap", at |-> a, new |-> b]

ListNext ==
    \/ \E e \in Elements : AddHead(e) \/ AddTail(e)
    \/ \E at \in list.used, e \in Elements : InsertBefore(at, e) \/ InsertAfter(at, e)
    \/ \E at \in list.used : RemoveItem(at) \/ MoveToHead(at) \/ MoveToTail(at)
    \/ \E a, b \in list.used : SwapElements(a, b)
    \/ RemoveAllItems

ListSpec == ListInit /\ [][ListNext]_listVars

-----------------------------------------------------------------------------

\* The nodes from one end along the links.
LinkedFrom(from, link) ==
    LET Along[n \in 0..(MaxItems + 1)] ==
            [i \in 0..MaxItems |->
                IF i = 0 \/ n = 0 THEN <<>> ELSE <<i>> \o Along[n - 1][link[i]]]
    IN  Along[MaxItems + 1][from]

\* Find: the first node behind one (from the head if 0) with the element.
FindItem(e, after) ==
    LET rest == LinkedFrom(IF after = 0 THEN list.head ELSE list.next[after], list.next)
        hits == {k \in 1..Len(rest) : list.element[rest[k]] = e}
    IN  IF hits = {} THEN 0 ELSE rest[CHOOSE k \in hits : \A j \in hits : k <= j]

\* What Find finds, started again behind each hit.
Found(e) == LinkedFrom(FindItem(e, 0), [i \in Item |-> FindItem(e, i)])

ListPromise == INSTANCE PositionList WITH order <- LinkedFrom(list.head, list.next)

\* The list is a sequence of positions: no insertion, removal, move or swap,
\* of neighbours, ends or the same node twice, disturbs any other.
ListIsSequence == ListPromise!Spec

\* Both directions agree, the count is right, the empty list has given its
\* blocks back, and Find, started behind each hit, finds every occurrence once.
ListCoherent ==
    LET there == LinkedFrom(list.head, list.next)
        back  == LinkedFrom(list.tail, list.prev)
    IN  /\ Len(there) = Len(back) /\ \A i \in 1..Len(there) : there[i] = back[Len(back) + 1 - i]
        /\ list.nElements = Len(there) /\ {there[i] : i \in 1..Len(there)} = list.used
        /\ list.blocks <=> list.used # {}
        /\ \A e \in Elements : LET found == Found(e) IN
              /\ {found[k] : k \in 1..Len(found)} = {i \in list.used : list.element[i] = e}
              /\ \A j, k \in 1..Len(found) : found[j] = found[k] => j = k

\* What freed nodes still hold, and which operation was the last, is read by
\* no method.
ListView ==
    <<[i \in list.used |-> <<list.element[i], list.prev[i], list.next[i]>>],
      list.head, list.tail, list.nElements, list.blocks>>
=============================================================================

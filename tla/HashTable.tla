----------------------------- MODULE HashTable -----------------------------
(***************************************************************************)
(* A hash table of the library and its user, who also goes through it with *)
(* a position while keys come and go.                                      *)
(***************************************************************************)
EXTENDS HashTableObject

CONSTANTS
    HashKeys, HashValues,
    Loads,          \* loads SetOptimalLoad is called with
    FirstBins,      \* nBins of the constructor
    RehashBins      \* numbers Rehash is called with, 0 included

ASSUME HashAssumption ==
    /\ HashNULL \notin HashKeys
    /\ \A k \in HashKeys : HashOf[k] \in Nat
    /\ BinSizes \in Seq(Nat \ {0}) /\ BinSizes # <<>>
    /\ {MaskBins, FirstBins, BlockSize} \subseteq Nat \ {0} /\ MinLo \in Nat
    /\ RehashBins \subseteq Nat
    /\ Loads \subseteq [optimal: Nat \ {0}, lo: Nat, hi: Nat]

VARIABLES
    table,
    valueOf,    \* the value in each node
    cursor,     \* a position and, as history, what was visited and what is there since the start
    hashOp      \* history: the operation just done

hashVars == <<table, valueOf, cursor, hashOp>>

Idle == [at |-> HashNULL, active |-> FALSE, seen |-> {}, stayed |-> {}]

HashInit ==
    /\ \E kind \in {"Map", "HashMap", "fastl"}, load \in Loads :
          table = NewTable(kind, IF kind = "HashMap" THEN MaskBins ELSE FirstBins, load)
    /\ valueOf = [k \in HashKeys |-> 0]
    /\ cursor = Idle
    /\ hashOp = [name |-> "Init"]

\* SetAt and SetAtHash; operator[] when the key is new.
SetKeyAt(key, value) ==
    LET found == Lookup(table, key)
    IN  /\ table' = IF found THEN table ELSE NewNode(table, key)
        /\ valueOf' = [valueOf EXCEPT ![key] = value]
        /\ hashOp' = [name |-> IF found THEN "Store" ELSE "Add", pos |-> key, key |-> key, value |-> value]
        /\ UNCHANGED cursor

\* RemoveKey and RemoveAtPos, of any node but the one a position leads to next.
RemoveKeyAt(key) ==
    /\ Lookup(table, key) /\ key # cursor.at
    /\ table' = RemoveNode(table, key)
    /\ cursor' = [cursor EXCEPT !.seen = @ \ {key}, !.stayed = @ \ {key}]
    /\ hashOp' = [name |-> "Remove", pos |-> key]
    /\ UNCHANGED valueOf

RemoveAllKeys ==
    /\ ~cursor.active
    /\ table' = Cleared(table)
    /\ hashOp' = [name |-> "RemoveAll"]
    /\ UNCHANGED <<valueOf, cursor>>

\* Rehash by the user: numbers a policy would not pick itself are for Map
\* only, where the other tables index past their bins.
RehashTo(n) ==
    /\ ~cursor.active
    /\ table.kind = "fastl" => n = PickSize(table, n)
    /\ table.kind = "HashMap" => n = MaskBins
    /\ table' = Rehashed(table, n)
    /\ UNCHANGED <<valueOf, cursor, hashOp>>

SetOptimalLoad(load, bRehashNow) ==
    LET set == [table EXCEPT !.load = load]
    IN  /\ ~cursor.active /\ table.kind # "fastl"
        /\ table' = IF bRehashNow /\ (set.nElements > HiThreshold(set) \/ set.nElements < LoThreshold(set))
                    THEN Rehashed(set, PickSize(set, set.nElements)) ELSE set
        /\ UNCHANGED <<valueOf, cursor, hashOp>>

\* DisableAutoRehash and GetStartPosition.
Begin ==
    /\ ~cursor.active
    /\ table' = [table EXCEPT !.nLockCount = @ + 1]
    /\ cursor' = [at |-> GetStartPosition(table), active |-> TRUE, seen |-> {},
                  stayed |-> {k \in HashKeys : Lookup(table, k)}]
    /\ UNCHANGED <<valueOf, hashOp>>

GetNext ==
    /\ cursor.active /\ cursor.at # HashNULL
    /\ cursor' = [cursor EXCEPT !.at = FindNextNode(table, cursor.at), !.seen = @ \cup {cursor.at}]
    /\ UNCHANGED <<table, valueOf, hashOp>>

\* EnableAutoRehash, which does not rehash.
End ==
    /\ cursor.active /\ cursor.at = HashNULL
    /\ table' = [table EXCEPT !.nLockCount = @ - 1]
    /\ cursor' = Idle
    /\ UNCHANGED <<valueOf, hashOp>>

HashNext ==
    \/ \E k \in HashKeys, v \in HashValues : SetKeyAt(k, v)
    \/ \E k \in HashKeys : RemoveKeyAt(k)
    \/ RemoveAllKeys
    \/ \E n \in RehashBins : RehashTo(n)
    \/ \E load \in Loads, now \in BOOLEAN : SetOptimalLoad(load, now)
    \/ Begin \/ GetNext \/ End

HashSpec == HashInit /\ [][HashNext]_hashVars

-----------------------------------------------------------------------------

Present == {k \in HashKeys : Lookup(table, k)}

\* The table as a store of items: what Lookup finds.  No rehash, unlinking or
\* clearing loses a key, brings one back or disturbs another one's value.
TablePromise == INSTANCE ItemStore WITH
    items <- [k \in Present |-> [key |-> k, value |-> valueOf[k]]],
    op <- hashOp

TableIsStore == TablePromise!Spec

\* Every node is in the bin of its key, once, and the count is the number of
\* nodes; what is allocated is in the table or on the free list, and fastl's
\* reserve stays below twice its size.
TableAccounts ==
    /\ \A b \in DOMAIN table.bins :
          /\ Seqs!IsInjective(table.bins[b])
          /\ \A k \in Seqs!ToSet(table.bins[b]) : BinOf(table, k) = b
    /\ table.nElements = Cardinality(Present)
    /\ table.nodes = table.nElements + table.free
    /\ table.kind = "fastl" => table.free <= 2 * BlockSize - 1

\* Under the lock, whatever is added and removed on the way, a walk from the
\* start position to the end visits every key that was there throughout,
\* and none twice.
WalkComplete == cursor.active /\ cursor.at = HashNULL => cursor.stayed \subseteq cursor.seen

WalkOnce == cursor.at \notin cursor.seen

\* The bins, the counts and the walks of one table agree, whichever keys
\* collide and whenever it is rehashed.
TableInv == TableAccounts /\ WalkComplete /\ WalkOnce

\* Values are read by no method.
HashView == <<table, cursor>>
=============================================================================

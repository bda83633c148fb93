-------------------------- MODULE FixedSizePoolSet --------------------------
(***************************************************************************)
(* ftl::FixedSizePoolSet of src/include/ftl/AdaptivePoolSet.h and its      *)
(* user.  A pool is known by a number that stands for its address range.   *)
(* A set with one pool and neither ST_INC nor ST_DEC is a FixedSizePool.   *)
(***************************************************************************)
EXTENDS FixedSizePoolObject, Sequences

CONSTANTS
    ElemCount,      \* elemCount of the constructor
    AllocMin,       \* ALLOC_MIN, 16 in the code
    SpeedPercent,   \* _K in percent
    UIntMod,        \* unsigned int wraps here, 2^32 in the code
    MaxPools,       \* bound: pools at a time
    Strategies      \* sets of strategy flags the user may ask for

VARIABLES
    strategy,       \* _strategy, a set of flags
    pools,          \* _pools: sequence of pool numbers with a slot to give
    fullPools,      \* _fullPools: those without
    poolAt,         \* the FixedSizePool behind each number
    nPrevAlloc, countPrevAlloc, nPrevPeak, nCapacity,
    holders         \* history: how many holders each slot has

setVars == <<strategy, pools, fullPools, poolAt,
             nPrevAlloc, countPrevAlloc, nPrevPeak, nCapacity, holders>>

MaxOf2(a, b) == IF a >= b THEN a ELSE b

MaxCount == MaxOf2(MaxOf2(ElemCount, AllocMin), MaxPools)

\* With ST_INC a speed must be chosen: without one a pool that follows a
\* dropped one gets as many slots as the negated capacity in an unsigned type.
ASSUME SetAssumption ==
    /\ ElemCount \in Nat \ {0} /\ MaxPools \in Nat \ {0}
    /\ AllocMin \in Nat /\ AllocMin >= 2
    /\ SpeedPercent \in 0..100
    /\ UIntMod \in Nat /\ MaxCount < UIntMod
    /\ \A s \in Strategies : "INC" \in s => ("SPEED_CONSTANT" \in s <=> "SPEED_LINEAR" \notin s)

Slots == (1..MaxPools) \X (1..MaxCount)

SetInit ==
    /\ strategy \in Strategies
    /\ pools = <<1>>
    /\ fullPools = <<>>
    /\ poolAt = [i \in 1..MaxPools |-> NewPool(ElemCount)]
    /\ nPrevAlloc = ElemCount
    /\ countPrevAlloc = 1
    /\ nPrevPeak = ElemCount
    /\ nCapacity = ElemCount
    /\ holders = [s \in Slots |-> 0]

Listed == {pools[i] : i \in 1..Len(pools)} \cup {fullPools[i] : i \in 1..Len(fullPools)}

\* erase of the pool, if it is in the list.
Without(list, id) ==
    LET at == CHOOSE i \in 1..Len(list) : list[i] = id
    IN  IF \E i \in 1..Len(list) : list[i] = id
        THEN [i \in 1..(Len(list) - 1) |-> IF i < at THEN list[i] ELSE list[i + 1]]
        ELSE list

\* Elements of the pool _newPool makes.
NewCount ==
    LET wanted == CASE nPrevAlloc > 0 /\ "SPEED_CONSTANT" \in strategy ->
                         (ElemCount * SpeedPercent) \div 100
                    [] nPrevAlloc > 0 /\ "SPEED_LINEAR" \in strategy ->
                         (countPrevAlloc * (100 - SpeedPercent)) \div 100
                    [] nPrevAlloc = 0 -> nPrevPeak
                    [] OTHER          -> nPrevAlloc
    IN  MaxOf2(wanted, AllocMin)

\* Faulty variant: a pool that gave its last slot stays in _pools.
AllocateFromListStays ==
    LET id == Head(pools)
    IN  /\ pools # <<>>
        /\ poolAt' = [poolAt EXCEPT ![id] = PoolAllocate(@)]
        /\ holders' = [holders EXCEPT ![<<id, poolAt[id].avail>>] = @ + 1]
        /\ UNCHANGED <<strategy, pools, fullPools, nPrevAlloc, countPrevAlloc, nPrevPeak, nCapacity>>

\* allocate while a pool has a slot: the first one gives it, and moves to the
\* full ones when it was its last.
AllocateFromList ==
    LET id == Head(pools)
    IN  /\ pools # <<>>
        /\ poolAt' = [poolAt EXCEPT ![id] = PoolAllocate(@)]
        /\ holders' = [holders EXCEPT ![<<id, poolAt[id].avail>>] = @ + 1]
        /\ IF PoolFull(poolAt'[id])
           THEN pools' = Tail(pools) /\ fullPools' = Append(fullPools, id)
           ELSE UNCHANGED <<pools, fullPools>>
        /\ UNCHANGED <<strategy, nPrevAlloc, countPrevAlloc, nPrevPeak, nCapacity>>

\* allocate while all pools are full: a new one joins the list, whether or
\* not its first slot is its last.
AllocateFromNewPool ==
    /\ pools = <<>>
    /\ "INC" \in strategy
    /\ \E id \in 1..MaxPools \ Listed :
          /\ \A j \in 1..MaxPools \ Listed : id <= j
          /\ pools' = <<id>>
          /\ poolAt' = [poolAt EXCEPT ![id] = PoolAllocate(NewPool(NewCount))]
          /\ holders' = [holders EXCEPT ![<<id, 1>>] = @ + 1]
    /\ nPrevAlloc' = NewCount
    /\ nCapacity' = nCapacity + NewCount
    /\ countPrevAlloc' = countPrevAlloc + 1
    /\ UNCHANGED <<strategy, fullPools, nPrevPeak>>

\* deallocate a slot of a pool in either list.  A full pool goes back to
\* _pools first; a pool that became empty is dropped under ST_DEC.
SetDeallocate(id, slot) ==
    LET freed == PoolDeallocate(poolAt[id], slot)
        back  == IF id \in {pools[i] : i \in 1..Len(pools)} THEN pools ELSE Append(pools, id)
        drop  == PoolEmpty(freed) /\ "DEC" \in strategy
    IN  /\ holders[<<id, slot>>] > 0
        /\ holders' = [holders EXCEPT ![<<id, slot>>] = @ - 1]
        /\ poolAt' = [poolAt EXCEPT ![id] = IF drop THEN NewPool(ElemCount) ELSE freed]
        /\ fullPools' = Without(fullPools, id)
        /\ IF drop
           THEN /\ pools' = Without(back, id)
                /\ nPrevPeak' = nCapacity
                /\ nPrevAlloc' = (-freed.max) % UIntMod
                /\ nCapacity' = nCapacity - freed.max
                /\ countPrevAlloc' = 0
           ELSE /\ pools' = back
                /\ UNCHANGED <<nPrevAlloc, countPrevAlloc, nPrevPeak, nCapacity>>
        /\ UNCHANGED strategy

SetNext ==
    \/ AllocateFromList
    \/ AllocateFromNewPool
    \/ \E s \in Slots : SetDeallocate(s[1], s[2])

SetSpec == SetInit /\ [][SetNext]_setVars

ListedPools(list) == {list[i] : i \in 1..Len(list)}

Held(id) == {n \in 1..MaxCount : holders[<<id, n>>] > 0}

\* The pool asked next has its first slot left and no other, and would give one
\* that somebody holds.
Astray ==
    LET id == Head(pools)
    IN  /\ pools # <<>>
        /\ 1..poolAt[id].max \ Held(id) = {1}
        /\ poolAt[id].avail # 1

\* Any user, up to a request that finds a pool astray.
SetNextOnce ==
    \/ ~Astray /\ AllocateFromList
    \/ AllocateFromNewPool
    \/ \E s \in Slots : SetDeallocate(s[1], s[2])

SetSpecOnce == SetInit /\ [][SetNextOnce]_setVars

-----------------------------------------------------------------------------

\* allocate looks for the next available block (FixedSizePool.h:117): nobody
\* gets a slot that another one holds.
HeldOnce == \A s \in Slots : holders[s] <= 1

\* The set as one pool: a slot has one holder at a time, whichever pool it
\* comes from, however pools were added, filled and dropped in between; the
\* one request that breaks this is the one of a pool that has gone astray.
SetPromise == INSTANCE SlotPool

SetIsSlotPool == SetPromise!Spec

\* The two lists tell full pools from others: allocate's assert(ret) holds,
\* no pool with a free slot is left out, no pool is in both or lost while
\* somebody holds a slot of it.
ListsTellFullness ==
    /\ \A id \in ListedPools(pools) : ~PoolFull(poolAt[id]) /\ poolAt[id].avail # NULL
    /\ \A id \in ListedPools(fullPools) : PoolFull(poolAt[id])
    /\ Cardinality(Listed) = Len(pools) + Len(fullPools)
    /\ \A id \in 1..MaxPools \ Listed : Held(id) = {}

\* What a pool knows of its slots is what its users hold, the slot it gives
\* next is free unless the first slot is the only free one, and the capacity
\* of the set is that of its pools.
SetAccounts ==
    /\ \A id \in Listed :
          /\ poolAt[id].nBuffers = Cardinality(Held(id))
          /\ poolAt[id].marked = Held(id)
          /\ poolAt[id].avail \in Held(id) => 1..poolAt[id].max \ Held(id) = {1}
    /\ nCapacity = LET Sum[i \in 0..MaxPools] ==
                        IF i = 0 THEN 0
                        ELSE Sum[i - 1] + IF i \in Listed THEN poolAt[i].max ELSE 0
                   IN  Sum[MaxPools]

SetInv == ListsTellFullness /\ SetAccounts
=============================================================================

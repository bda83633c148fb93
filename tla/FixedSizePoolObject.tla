------------------------ MODULE FixedSizePoolObject ------------------------
(***************************************************************************)
(* ftl::FixedSizePool of src/include/ftl/FixedSizePool.h as a record and   *)
(* one operator per method.  Slots are numbered from 1 in address order;   *)
(* marked are those whose header has bAlloc set.                           *)
(***************************************************************************)
EXTENDS Integers, FiniteSets

NULL == 0

LOCAL MinOf(S) == CHOOSE x \in S : \A y \in S : x <= y

NewPool(elemMaxCount) ==
    [max |-> elemMaxCount, marked |-> {}, avail |-> 1, nBuffers |-> 0]

PoolFull(p) == p.nBuffers = p.max

PoolEmpty(p) == p.nBuffers = 0

\* Faulty variant: the slots in front of the one handed out are not searched.
NextAvailForwardOnly(p, ret) ==
    LET behind == (ret + 1)..p.max \ p.marked
    IN  IF behind # {} THEN MinOf(behind)
        ELSE IF PoolFull(p) THEN NULL ELSE ret

\* The slot the next call gets when ret was handed out last.  The search goes
\* on behind ret and then from the SECOND slot on; a search without a result
\* leaves _pAvail at ret unless the pool is full.
NextAvail(p, ret) ==
    LET behind == (ret + 1)..p.max \ p.marked
        before == 2..(ret - 1) \ p.marked
    IN  CASE behind # {}                  -> MinOf(behind)
          [] behind = {} /\ before # {}   -> MinOf(before)
          [] behind \cup before = {}      -> IF PoolFull(p) THEN NULL ELSE ret

\* allocate on a pool with _pAvail; the caller gets slot p.avail.
PoolAllocate(p) ==
    LET taken == [p EXCEPT !.marked = @ \cup {p.avail}, !.nBuffers = @ + 1]
    IN  [taken EXCEPT !.avail = NextAvail(taken, p.avail)]

PoolDeallocate(p, slot) ==
    [p EXCEPT !.marked = @ \ {slot}, !.avail = slot, !.nBuffers = @ - 1]
=============================================================================

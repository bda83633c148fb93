------------------------------ MODULE FifoPool ------------------------------
(***************************************************************************)
(* One ftl::FifoPool and its user: blocks of some sizes are allocated at   *)
(* one end and released at the other.                                      *)
(***************************************************************************)
EXTENDS FifoPoolObject

CONSTANTS
    MaxSize,    \* the constructor's maxsize, in bytes
    Sizes       \* sizes asked for

ASSUME SizeAssumption == MaxSize \in Nat /\ Sizes \subseteq Nat \ {0}

VARIABLES
    pool,       \* the FifoPool
    blocks      \* history: the blocks in use, oldest first

vars == <<pool, blocks>>

Init == pool = NewFifo(MaxSize) /\ blocks = <<>>

\* A block that fits; otherwise allocate returns NULL and changes nothing.
AllocateBlock(size) ==
    /\ Fits(pool, size)
    /\ pool' = Allocate(pool, size)
    /\ blocks' = Append(blocks, [at |-> BlockAt(pool, size), size |-> size])

Deallocate ==
    /\ ~FifoEmpty(pool)
    /\ pool' = Pop(pool)
    /\ blocks' = IF blocks = <<>> THEN <<>> ELSE Tail(blocks)

First(b) == b.at

Last(b) == b.at + HEADER_SIZE + b.size - 1

\* The newest block ends where the oldest begins: a head that wraps may fill
\* the front to the last byte, and then meets the tail.
FrontFilled ==
    blocks # <<>> /\ Last(blocks[Len(blocks)]) + 1 = First(blocks[1])

\* Any user, up to and including the step that fills the front: from then on
\* the pool takes itself for empty, and hands the blocks in use out again.
Next == ~FrontFilled /\ ((\E size \in Sizes : AllocateBlock(size)) \/ Deallocate)

Spec == Init /\ [][Next]_vars

-----------------------------------------------------------------------------

\* Types of the pool's fields: every pointer stays inside the buffer.
TypeOK ==
    /\ pool.max = MaxSize + HEADER_SIZE + FULL_GAP
    /\ pool.head \in 0..pool.max
    /\ pool.tail \in 0..pool.max
    /\ pool.end \in 0..pool.max
    /\ pool.nBuffers \in Nat
    /\ DOMAIN pool.header = 0..pool.max

\* The blocks in use do not overlap, headers included, and lie in the buffer.
BlocksDisjoint ==
    /\ \A i \in 1..Len(blocks) : Last(blocks[i]) < pool.max
    /\ \A i, j \in 1..Len(blocks) :
           i < j => Last(blocks[i]) < First(blocks[j]) \/ Last(blocks[j]) < First(blocks[i])

\* The pool knows its blocks: peek and pop find the oldest one and its size,
\* size() counts them, and the pool looks empty when there is none, or when the
\* front is filled to the last byte; there is no other way to lose a block.
OldestFound ==
    /\ pool.nBuffers = Len(blocks)
    /\ FifoEmpty(pool) <=> blocks = <<>> \/ FrontFilled
    /\ blocks # <<>> => pool.tail = blocks[1].at
    /\ \A i \in 1..Len(blocks) : pool.header[blocks[i].at] = blocks[i].size

FifoInv == TypeOK /\ BlocksDisjoint /\ OldestFound

\* The headers chain the blocks of the pool in the order they were allocated:
\* the pool is a FIFO of blocks.
Promise == INSTANCE BoundedFifo WITH
    Blocks <- [at: 0..(MaxSize + HEADER_SIZE + FULL_GAP), size: Sizes],
    fifo <- Chain(pool)

IsFifo == Promise!Spec
=============================================================================

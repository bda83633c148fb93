------------------------------ MODULE TaskQueue ------------------------------
(***************************************************************************)
(* The two queues a thread pool of src/src/ThreadPool.cpp may have:        *)
(* StdQueue, a std::queue, when the pool is given no task size, and        *)
(* FifoQueue, whose elements are blocks of a FifoPool, otherwise.          *)
(***************************************************************************)
EXTENDS FifoPoolObject

CONSTANTS
    TaskSize,   \* task_size of the pool's constructor
    ElemSize    \* sizeof(ELEM_TYPE)

ASSUME QueueAssumption == TaskSize \in Nat /\ ElemSize \in Nat \ {0}

\* What front() of a queue without elements is, and memory never written.
NoTask == [arg |-> "none", own |-> FALSE]

IsStdQueue == TaskSize = 0

EmptyPool == NewFifo(TaskSize * ElemSize)

NewQueue ==
    IF IsStdQueue THEN <<>>
    ELSE [pool |-> EmptyPool, at |-> [a \in 0..EmptyPool.max |-> NoTask]]

QueueEmpty(q) == IF IsStdQueue THEN q = <<>> ELSE FifoEmpty(q.pool)

QueueSize(q) == IF IsStdQueue THEN Len(q) ELSE q.pool.nBuffers

\* The queue looks empty and counts tasks: it was wrapped, and a task filled
\* the front up to the oldest one.  No task it held is ever found again.
Forgets(q) == QueueEmpty(q) /\ QueueSize(q) > 0

\* push() fails when the FifoPool has no block to give.
QueueTakes(q) == ~IsStdQueue => Fits(q.pool, ElemSize)

Push(q, t) ==
    IF IsStdQueue THEN Append(q, t)
    ELSE [pool |-> Allocate(q.pool, ElemSize),
          at |-> [q.at EXCEPT ![BlockAt(q.pool, ElemSize)] = t]]

Front(q) ==
    CASE QueueEmpty(q)                   -> NoTask
      [] ~QueueEmpty(q) /\ IsStdQueue    -> q[1]
      [] ~QueueEmpty(q) /\ ~IsStdQueue   -> q.at[q.pool.tail]

PopFront(q) ==
    CASE QueueEmpty(q)                   -> q
      [] ~QueueEmpty(q) /\ IsStdQueue    -> Tail(q)
      [] ~QueueEmpty(q) /\ ~IsStdQueue   -> [q EXCEPT !.pool = Pop(q.pool)]

\* The elements of a queue, oldest first.
Elements(q) ==
    IF IsStdQueue THEN q
    ELSE [k \in 1..q.pool.nBuffers |-> q.at[Chain(q.pool)[k].at]]
=============================================================================

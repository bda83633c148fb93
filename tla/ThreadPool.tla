------------------------------ MODULE ThreadPool ------------------------------
(***************************************************************************)
(* The thread pool of src/src/ThreadPool.cpp: thread_pool, whose workers   *)
(* sleep on a condition variable, and thread_one, which a pool of one      *)
(* thread is built as and whose worker polls the queue without the mutex.  *)
(*                                                                         *)
(* One step of a worker is what it does between two accesses to shared     *)
(* state.  The mutex is held from one step to the next only while a worker *)
(* loads and stores workingThreads_ after taking a task (label "count").   *)
(* Both ++ and -- are a load and a store: the field is a plain int and --  *)
(* is done without the mutex.                                              *)
(***************************************************************************)
EXTENDS TaskQueue, FiniteSets

CONSTANTS
    Workers,        \* the threads of the pool
    Tasks,          \* arguments posted, each at most once
    HasProc,        \* whether the pool was created with a task procedure
    EarlyStart      \* whether a thread may run before thread_one's constructor

ASSUME PoolAssumption ==
    /\ IsFiniteSet(Workers) /\ Workers # {}
    /\ HasProc \in BOOLEAN /\ EarlyStart \in BOOLEAN

\* ThreadPool's constructors: a pool of one thread is a thread_one.
ThreadOne == Cardinality(Workers) = 1

VARIABLES
    phase,      \* life of the pool object
    running,    \* running_
    tasks,      \* tasks_
    working,    \* workingThreads_
    pc,         \* where each worker is
    body,       \* the pool_main each worker runs
    task,       \* the worker's copy of the task it took
    reg,        \* what the worker loaded from workingThreads_
    accepted,   \* history: the tasks run_task took, in order
    called      \* history: what was called for each task

vars == <<phase, running, tasks, working, pc, body, task, reg, accepted, called>>

\* A task names its argument and whether it carries a function of its own.
Task == [arg: Tasks, own: BOOLEAN]

Labels == {"start", "top", "lock", "waiting", "peek", "take", "count", "run", "uncount", "done"}

\* own: the task's function; proc: the pool's; null: none, a call through a
\* null pointer; wild: another function or another argument.
Callees == {"own", "proc", "null", "wild"}

Init ==
    /\ phase = "constructing"
    /\ running = TRUE
    /\ tasks = NewQueue
    /\ working = 0
    /\ pc = [w \in Workers |-> "start"]
    /\ body = [w \in Workers |-> "pool_main"]
    /\ task = [w \in Workers |-> NoTask]
    /\ reg = [w \in Workers |-> 0]
    /\ accepted = <<>>
    /\ called = [t \in Tasks |-> "none"]

MutexFree == \A w \in Workers : pc[w] # "count"

Goto(w, label) == pc' = [pc EXCEPT ![w] = label]

-----------------------------------------------------------------------------
(* The owner of the pool, and whoever posts to it. *)

\* The constructors of thread_pool and thread_one have returned.
Constructed ==
    /\ phase = "constructing"
    /\ phase' = "running"
    /\ UNCHANGED <<running, tasks, working, pc, body, task, reg, accepted, called>>

\* A pool without a procedure queues TASK1_T, which has no function.
Queued(t, own) == [arg |-> t, own |-> own /\ HasProc]

\* Faulty variants of notify_one: run_task wakes a worker only when the queue
\* was empty; it wakes none.
NotifyOnEmpty ==
    IF ThreadOne \/ ~QueueEmpty(tasks) \/ \A w \in Workers : pc[w] # "waiting"
    THEN pc' = pc
    ELSE \E w \in Workers : pc[w] = "waiting" /\ Goto(w, "lock")

NotifyNobody == pc' = pc

\* condition_.notify_one(): one waiting worker, if there is any, goes on to
\* take the mutex.  thread_one::run_task does not notify.
NotifyOne ==
    IF ThreadOne \/ \A w \in Workers : pc[w] # "waiting"
    THEN pc' = pc
    ELSE \E w \in Workers : pc[w] = "waiting" /\ Goto(w, "lock")

\* run_task, when it succeeds: there is a function to call, and the queue
\* takes the task.
RunTask(t, own) ==
    /\ phase = "running" /\ MutexFree
    /\ \A i \in 1..Len(accepted) : accepted[i].arg # t
    /\ own \/ HasProc
    /\ QueueTakes(tasks)
    /\ tasks' = Push(tasks, Queued(t, own))
    /\ accepted' = Append(accepted, [arg |-> t, own |-> own])
    /\ NotifyOne
    /\ UNCHANGED <<phase, running, working, body, task, reg, called>>

\* Faulty variant: the destructor does not notify.
StopQuietly ==
    /\ phase = "running" /\ MutexFree
    /\ phase' = "stopping"
    /\ running' = FALSE
    /\ UNCHANGED <<tasks, working, pc, body, task, reg, accepted, called>>

\* The destructor: running_ is cleared and all workers are notified under
\* the mutex, and then all threads are joined.
Stop ==
    /\ phase = "running" /\ MutexFree
    /\ phase' = "stopping"
    /\ running' = FALSE
    /\ pc' = [w \in Workers |-> IF pc[w] = "waiting" THEN "lock" ELSE pc[w]]
    /\ UNCHANGED <<tasks, working, body, task, reg, accepted, called>>

JoinAll ==
    /\ phase = "stopping"
    /\ \A w \in Workers : pc[w] = "done"
    /\ phase' = "gone"
    /\ UNCHANGED <<running, tasks, working, pc, body, task, reg, accepted, called>>

-----------------------------------------------------------------------------
(* The workers. *)

\* The thread calls the virtual pool_main: thread_one's own once its
\* constructor has set the object's type, else thread_pool's.
Start(w) ==
    /\ pc[w] = "start"
    /\ ~ThreadOne \/ EarlyStart \/ phase # "constructing"
    /\ body' = [body EXCEPT ![w] =
                   IF ThreadOne /\ phase = "running" THEN "one_main" ELSE "pool_main"]
    /\ Goto(w, "top")
    /\ UNCHANGED <<phase, running, tasks, working, task, reg, accepted, called>>

\* while( running_ )
Top(w) ==
    /\ pc[w] = "top"
    /\ Goto(w, IF ~running THEN "done"
               ELSE IF body[w] = "one_main" THEN "peek" ELSE "lock")
    /\ UNCHANGED <<phase, running, tasks, working, body, task, reg, accepted, called>>

\* Faulty variant: the task is copied and not removed.
TakeTaskKeeps(w) ==
    /\ task' = [task EXCEPT ![w] = Front(tasks)]
    /\ tasks' = tasks
    /\ reg' = [reg EXCEPT ![w] = working]
    /\ Goto(w, "count")

\* front(), pop() and the load of ++, under the mutex.
TakeTask(w) ==
    /\ task' = [task EXCEPT ![w] = Front(tasks)]
    /\ tasks' = PopFront(tasks)
    /\ reg' = [reg EXCEPT ![w] = working]
    /\ Goto(w, "count")

\* thread_pool: take the mutex; wait, which releases it, leave, or take a
\* task.  A worker that was woken up comes back here.
Lock(w) ==
    /\ pc[w] = "lock" /\ MutexFree
    /\ \/ /\ QueueEmpty(tasks) /\ running
          /\ Goto(w, "waiting") /\ UNCHANGED <<tasks, task, reg>>
       \/ /\ ~running
          /\ Goto(w, "done") /\ UNCHANGED <<tasks, task, reg>>
       \/ /\ ~QueueEmpty(tasks) /\ running
          /\ TakeTask(w)
    /\ UNCHANGED <<phase, running, working, body, accepted, called>>

\* Faulty variant: wait is not in a loop that looks at the queue again.
WakeAndTake(w) ==
    /\ pc[w] = "waiting"
    /\ Goto(w, "take")
    /\ UNCHANGED <<phase, running, tasks, working, body, task, reg, accepted, called>>

\* condition_.wait may return without a notification.
WakeSpuriously(w) ==
    /\ pc[w] = "waiting"
    /\ Goto(w, "lock")
    /\ UNCHANGED <<phase, running, tasks, working, body, task, reg, accepted, called>>

\* Faulty variant: thread_one does not look whether the queue is empty.
PeekBlindly(w) ==
    /\ pc[w] = "peek"
    /\ Goto(w, "take")
    /\ UNCHANGED <<phase, running, tasks, working, body, task, reg, accepted, called>>

\* thread_one: tasks_.empty() without the mutex.
Peek(w) ==
    /\ pc[w] = "peek"
    /\ Goto(w, IF QueueEmpty(tasks) THEN "top" ELSE "take")
    /\ UNCHANGED <<phase, running, tasks, working, body, task, reg, accepted, called>>

Take(w) ==
    /\ pc[w] = "take" /\ MutexFree
    /\ TakeTask(w)
    /\ UNCHANGED <<phase, running, working, body, accepted, called>>

\* Faulty variant: the worker stores what it loaded.
CountNothing(w) ==
    /\ pc[w] = "count"
    /\ working' = reg[w]
    /\ Goto(w, "run")
    /\ UNCHANGED <<phase, running, tasks, body, task, reg, accepted, called>>

\* The store of ++, then lock.unlock().
Count(w) ==
    /\ pc[w] = "count"
    /\ working' = reg[w] + 1
    /\ Goto(w, "run")
    /\ UNCHANGED <<phase, running, tasks, body, task, reg, accepted, called>>

\* What TASK2_T(task, taskProc_) calls.
Callee(k) == IF k.own THEN "own" ELSE IF HasProc THEN "proc" ELSE "null"

\* In thread_pool the copy is declared with the name of the task it is made
\* from, so it is initialised from itself and calls what the storage holds.
Outcomes(w) ==
    IF body[w] = "one_main" THEN {Callee(task[w])} ELSE {Callee(task[w]), "wild"}

\* The call returns, and the worker loads workingThreads_ to decrease it.
Run(w) ==
    /\ pc[w] = "run"
    /\ \E c \in Outcomes(w) : called' = [called EXCEPT ![task[w].arg] = c]
    /\ reg' = [reg EXCEPT ![w] = working]
    /\ Goto(w, "uncount")
    /\ UNCHANGED <<phase, running, tasks, working, body, task, accepted>>

\* Faulty variant: the worker is not taken off the count.
UncountNothing(w) ==
    /\ pc[w] = "uncount"
    /\ task' = [task EXCEPT ![w] = NoTask]
    /\ Goto(w, "top")
    /\ UNCHANGED <<phase, running, tasks, working, body, reg, accepted, called>>

\* The store of --; the copy of the task goes out of scope.
Uncount(w) ==
    /\ pc[w] = "uncount"
    /\ working' = reg[w] - 1
    /\ task' = [task EXCEPT ![w] = NoTask]
    /\ Goto(w, "top")
    /\ UNCHANGED <<phase, running, tasks, body, reg, accepted, called>>

\* A thread that has left pool_main takes no more steps.
Step(w) ==
    /\ pc[w] # "done"
    /\ \/ Start(w) \/ Top(w) \/ Lock(w) \/ Peek(w) \/ Take(w)
       \/ Count(w) \/ Run(w) \/ Uncount(w)

-----------------------------------------------------------------------------

\* The pool on its own: posted to by any thread at any time, and deleted
\* when its owner chooses.
Next ==
    \/ Constructed
    \/ \E t \in Tasks, own \in BOOLEAN : RunTask(t, own)
    \/ Stop
    \/ JoinAll
    \/ \E w \in Workers : Step(w) \/ WakeSpuriously(w)

\* The scheduler lets every thread that can go on go on, tasks return, and
\* the owner's constructor and its join return when they can.
Fairness ==
    /\ \A w \in Workers : WF_vars(Step(w))
    /\ WF_vars(Constructed) /\ WF_vars(JoinAll)

Spec == Init /\ [][Next]_vars /\ Fairness

-----------------------------------------------------------------------------

InHand == {w \in Workers : pc[w] \in {"count", "run", "uncount"}}

\* Types of the pool's fields and of its workers' locals: a worker past the
\* queue holds a task.
TypeOK ==
    /\ phase \in {"constructing", "running", "stopping", "gone"}
    /\ running \in BOOLEAN
    /\ Elements(tasks) \in Seq(Task)
    /\ working \in Int
    /\ pc \in [Workers -> Labels]
    /\ body \in [Workers -> {"pool_main", "one_main"}]
    /\ \A w \in Workers : task[w] \in IF w \in InHand THEN Task ELSE {NoTask}
    /\ reg \in [Workers -> Int]
    /\ accepted \in Seq(Task)
    /\ called \in [Tasks -> Callees \cup {"none"}]

Args(q) == {q[i].arg : i \in 1..Len(q)}

Waiting == Args(Elements(tasks))

\* Each accepted task has one taker: the queue holds the last of them in the
\* order they were posted, the others were called or are in the hand of one
\* worker.
HandedOnce ==
    LET queue == Elements(tasks)
    IN  /\ Len(queue) <= Len(accepted)
        /\ \A i \in 1..Len(queue) :
               queue[i].arg = accepted[Len(accepted) - Len(queue) + i].arg
        /\ \A w \in InHand : task[w].arg \notin Waiting
        /\ \A v, w \in InHand : task[v].arg = task[w].arg => v = w
        /\ \A t \in Tasks : called[t] # "none" => t \in Args(accepted) \ Waiting
        /\ \A t \in Args(accepted) \ Waiting :
               called[t] # "none" \/ \E w \in InHand : task[w].arg = t

PoolInv == TypeOK /\ HandedOnce

\* What thread_one's worker saw without the mutex still holds when it has it:
\* nobody else takes tasks, and only the post with which a FifoQueue forgets
\* all of them takes them away.
PeekStaysTrue ==
    \A w \in Workers : pc[w] = "take" => ~QueueEmpty(tasks) \/ Forgets(tasks)

OnTheWay == {w \in Workers : pc[w] \in {"start", "top", "lock"}}

\* No wake-up is lost: while the pool runs, a worker sleeps only if for every
\* queued task another one is awake and on its way to the queue.
WakeupsSuffice ==
    (running /\ \E w \in Workers : pc[w] = "waiting")
        => QueueSize(tasks) <= Cardinality(OnTheWay)

\* Claimed by ThreadPool.h:44 of working_count, "count of current working
\* tasks": it is the number of workers between ++ and --, as long as none is
\* in the middle of either.  Several workers overwrite each other's counts.
WorkingExact ==
    (\A w \in Workers : pc[w] \notin {"count", "uncount"})
        => working = Cardinality({w \in Workers : pc[w] = "run"})

\* A task is called with its own function, or the pool's if it has none.
RunsWhatWasPosted ==
    \A i \in 1..Len(accepted) :
        called[accepted[i].arg] \in {"none", IF accepted[i].own THEN "own" ELSE "proc"}

\* Every queued task is taken, unless the pool is deleted first.
TasksServed ==
    \A t \in Tasks : (t \in Waiting) ~> (t \notin Waiting \/ ~running)

\* The destructor returns: no worker sleeps through it.
DestructorReturns == (phase = "stopping") ~> (phase = "gone")
=============================================================================

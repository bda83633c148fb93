--------------------------- MODULE ThreadPoolJoin ---------------------------
(***************************************************************************)
(* The thread that owns a pool in src/test/src: it posts its tasks in      *)
(* order, trying again when the queue is full (multi_run of mqatest.cpp),  *)
(* then polls task_count() and working_count() until both are zero         *)
(* (multi_run, test_malloc_speed of TestBufferPool.cpp), uses the results, *)
(* and deletes the pool.                                                   *)
(***************************************************************************)
EXTENDS ThreadPool

CONSTANTS
    Jobs,       \* the tasks in the order they are posted
    MaxTries    \* MAX_TRY_ALLOC, 1000 in the code

ASSUME JobAssumption ==
    /\ Jobs \in Seq(Tasks) /\ \A i, j \in 1..Len(Jobs) : Jobs[i] = Jobs[j] => i = j
    /\ MaxTries \in Nat \ {0}

VARIABLES
    mainPc,     \* where the owner is
    job,        \* the job it posts next
    tries       \* its failed attempts to post it

joinVars == <<vars, mainPc, job, tries>>

JoinInit == Init /\ mainPc = "post" /\ job = 1 /\ tries = 0

\* mqatest.cpp posts functions to a pool without a procedure, and
\* TestBufferPool.cpp plain arguments to pools with one.
Own == ~HasProc

\* A job that finds the queue full MaxTries times is skipped.
Post ==
    /\ mainPc = "post" /\ phase = "running" /\ job <= Len(Jobs)
    /\ \/ /\ RunTask(Jobs[job], Own)
          /\ job' = job + 1 /\ tries' = 0
       \/ /\ ~QueueTakes(tasks) /\ MutexFree
          /\ IF tries + 1 < MaxTries THEN tries' = tries + 1 /\ job' = job
                                     ELSE tries' = 0 /\ job' = job + 1
          /\ UNCHANGED vars
    /\ UNCHANGED mainPc

Posted ==
    /\ mainPc = "post" /\ phase = "running" /\ job > Len(Jobs)
    /\ mainPc' = "tasks"
    /\ UNCHANGED <<vars, job, tries>>

\* task_count(), under the mutex.
TaskCount ==
    /\ mainPc = "tasks" /\ MutexFree
    /\ mainPc' = IF QueueSize(tasks) = 0 THEN "working" ELSE "tasks"
    /\ UNCHANGED <<vars, job, tries>>

\* Faulty variant: the owner does not ask for the working tasks.
WorkingCountIgnored ==
    /\ mainPc = "working"
    /\ mainPc' = "joined"
    /\ UNCHANGED <<vars, job, tries>>

\* working_count(), without it.
WorkingCount ==
    /\ mainPc = "working"
    /\ mainPc' = IF working = 0 THEN "joined" ELSE "tasks"
    /\ UNCHANGED <<vars, job, tries>>

Delete == mainPc = "joined" /\ Stop /\ UNCHANGED <<mainPc, job, tries>>

Owner == Post \/ Posted \/ TaskCount \/ WorkingCount \/ Delete

JoinNext ==
    \/ Owner
    \/ (Constructed \/ JoinAll) /\ UNCHANGED <<mainPc, job, tries>>
    \/ \E w \in Workers : (Step(w) \/ WakeSpuriously(w)) /\ UNCHANGED <<mainPc, job, tries>>

JoinFairness ==
    /\ WF_joinVars(Owner)
    /\ WF_joinVars((Constructed \/ JoinAll) /\ UNCHANGED <<mainPc, job, tries>>)
    /\ \A w \in Workers : WF_joinVars(Step(w) /\ UNCHANGED <<mainPc, job, tries>>)

JoinSpec == JoinInit /\ [][JoinNext]_joinVars /\ JoinFairness

-----------------------------------------------------------------------------

\* When the owner has left its polling loop and reads the results, every task
\* the pool accepted was called and has returned.
JoinedMeansDone ==
    mainPc = "joined" =>
        \A i \in 1..Len(accepted) : called[accepted[i].arg] # "none"

\* Claimed by the comment "wait for all tasks completion" of
\* TestBufferPool.cpp:224: the owner gets through its loop.
JoinReturns == <>(mainPc = "joined")

\* The owner gets through its loop and through the destructor, unless the
\* queue forgets tasks.
OwnerFinishes == <>(phase = "gone" \/ Forgets(tasks))
=============================================================================

-------------------------- MODULE MCThreadPoolJoin --------------------------
(* ThreadPoolJoin with five jobs, more than the queue of its runs takes. *)
EXTENDS ThreadPoolJoin

CONSTANTS t1, t2, t3, t4, t5

MCTasks == {t1, t2, t3, t4, t5}

MCJobs == <<t1, t2, t3, t4, t5>>
=============================================================================

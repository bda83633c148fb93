CONSTANTS
    t1 = t1
    t2 = t2
    t3 = t3
    t4 = t4
    t5 = t5
    Workers = {w1}
    Tasks <- MCTasks
    Jobs <- MCJobs
    MaxTries = 2
    TaskSize = 0
    ElemSize = 4
    HasProc = TRUE
    EarlyStart = TRUE

SPECIFICATION JoinSpec

CHECK_DEADLOCK FALSE

PROPERTIES
    JoinReturns

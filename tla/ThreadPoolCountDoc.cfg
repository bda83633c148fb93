CONSTANTS
    Workers = {w1, w2}
    Tasks = {t1, t2}
    TaskSize = 0
    ElemSize = 4
    HasProc = TRUE
    EarlyStart = TRUE

SPECIFICATION Spec

CHECK_DEADLOCK FALSE

INVARIANTS
    WorkingExact

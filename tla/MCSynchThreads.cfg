\* The boot thread and two others share a lock, a semaphore and a condition
\* variable, under the fairness of the clock and the scheduler.
SPECIFICATION FairSpec
CONSTANTS
    Thread = {t1, t2, t3}
    Boot = t1
    NULL = NULL
    lbolt = lbolt
    HZ = 2
    MaxSecs = 2
    Lock = {l1}
    Sem = {s1}
    Cv = {c1}
    MaxCount = 1
INVARIANTS
    TypeOK
    OnOneList
    NumthreadsCounts
PROPERTIES
    ImplementsSynch
    RunnableRuns
    ClocksleepReturns

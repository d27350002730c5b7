\* Three threads contend for two locks, one semaphore and one condition
\* variable.
SPECIFICATION Spec
CONSTANTS
    t1 = t1
    t2 = t2
    t3 = t3
    Thread = {t1, t2, t3}
    Lock = {l1, l2}
    Sem = {s1}
    Cv = {c1}
    NULL = NULL
    MaxCount = 2
SYMMETRY Symmetry
INVARIANTS
    TypeOK
    NoLostWakeup
PROPERTY
    ImplementsContract
CHECK_DEADLOCK FALSE

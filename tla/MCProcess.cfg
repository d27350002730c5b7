\* The menu and three processes.  Processes may all end up waiting for
\* each other, so the run may stop.
SPECIFICATION FairSpec
CONSTANTS
    TOTAL_PROCESSES = 4
    Code = {1}
    NULL = NULL
INVARIANTS
    TypeOK
    WaitOnlyAfterExit
    LockOwnerAwake
    
PROPERTY
    ExitCompletes
CHECK_DEADLOCK FALSE

\* The menu and two processes.
SPECIFICATION FairSpec
CONSTANTS
    TOTAL_PROCESSES = 3
    Code = {1}
    NULL = NULL
PROPERTY
    WaitReturns
CHECK_DEADLOCK FALSE

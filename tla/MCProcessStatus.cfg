\* The menu and two processes.
SPECIFICATION Spec
CONSTANTS
    TOTAL_PROCESSES = 3
    Code = {1}
    NULL = NULL
INVARIANTS
    StatusIsExitCode
CHECK_DEADLOCK FALSE

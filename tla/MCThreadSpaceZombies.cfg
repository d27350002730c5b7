\* The sizes of the code, three threads at a time.
SPECIFICATION Spec
CONSTANTS
    QSIZE = 32
    KEEP = 16
    MaxThreads = 3
    MaxZombies = 8
INVARIANTS
    ZombieAddNeverFails
CHECK_DEADLOCK FALSE

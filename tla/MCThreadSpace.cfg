\* Sizes small enough for the ring to grow and the zombies array to be freed.
\* The run ends where an assertion of the kernel fails.
SPECIFICATION Spec
CONSTANTS
    QSIZE = 4
    KEEP = 5
    MaxThreads = 6
    MaxZombies = 4
INVARIANTS
    TypeOK
    SleepNeverFails
    SpaceForAll
CHECK_DEADLOCK FALSE

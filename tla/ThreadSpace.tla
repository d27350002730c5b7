---------------------------- MODULE ThreadSpace ----------------------------
(***************************************************************************)
(* The space behind the thread lists: the sleepers and zombies arrays      *)
(* (lib/array.c) and the ring of the run queue (lib/queue.c), which        *)
(* thread_fork enlarges beforehand so that mi_switch and thread_wakeup     *)
(* need not allocate.  Threads are not named; only what a thread does when *)
(* it gets the processor is kept: a new thread starts in mi_threadstart,   *)
(* an old one, and the menu's, which never exits, resume in mi_switch and  *)
(* run exorcise.  Any kmalloc may fail.                                    *)
(***************************************************************************)
EXTENDS Naturals, Sequences, SequencesExt

CONSTANTS
    QSIZE,          \* first size of the run queue, 32 in the code
    KEEP,           \* an emptied array keeps its storage up to this size, 16 in the code
    MaxThreads,     \* bound on numthreads
    MaxZombies      \* bound on the zombies array's size

ASSUME SpaceAssumption == QSIZE \in Nat \ {0} /\ KEEP \in Nat
                          /\ MaxThreads \in Nat /\ MaxZombies \in Nat

VARIABLES
    curthread,      \* the running thread, or none in the idle loop
    runqueue, sleepers,
    zombies,        \* num of the zombies array
    sleepersmax, zombiesmax,    \* max of each array
    qsize,          \* size of the run queue's ring
    numthreads,
    panicked        \* the list that could not grow, whose assertion failed

vars == <<curthread, runqueue, sleepers, zombies, sleepersmax, zombiesmax, qsize,
          numthreads, panicked>>

\* thread_bootstrap and scheduler_bootstrap.
Init ==
    /\ curthread = "menu" /\ runqueue = <<>>
    /\ sleepers = <<>> /\ zombies = 0
    /\ sleepersmax = 0 /\ zombiesmax = 0
    /\ qsize = QSIZE
    /\ numthreads = 1
    /\ panicked = "no"

-----------------------------------------------------------------------------
\* array_preallocate: the new max of an array that must hold n.
RECURSIVE ArrayMax(_, _)
ArrayMax(max, n) == IF n <= max THEN max ELSE ArrayMax((max + 1) * 2, n)

\* q_grow: the new size of a ring that must reach n.
RECURSIVE RingSize(_, _)
RingSize(size, n) == IF n <= size THEN size ELSE RingSize(size * 2, n)

\* q_addtail keeps one element of the ring free, and grows the ring rather than
\* use it.
RoomFor(queue, size) == Len(queue) < size

\* make_runnable, after which the threads of queue are on the ring: as it is, or
\* grown, unless there is no memory to grow it.
MakeRunnable(queue) ==
    /\ runqueue' = queue
    /\ IF RoomFor(queue, qsize)
         THEN UNCHANGED <<qsize, panicked>>
         ELSE \/ /\ qsize' = RingSize(qsize, Len(queue) + 1)
                 /\ UNCHANGED panicked
              \/ panicked' = "runqueue" /\ UNCHANGED qsize

\* The rest of mi_switch once the old thread is on its list: scheduler, then
\* exorcise by a thread that resumes.  array_setsize(zombies, 0) frees a large
\* array.
Switch(queue, dead, max) ==
    IF queue = <<>>
    THEN /\ curthread' = "none" /\ runqueue' = queue
         /\ zombies' = dead /\ zombiesmax' = max
    ELSE /\ curthread' = Head(queue) /\ runqueue' = Tail(queue)
         /\ IF Head(queue) = "new"
              THEN zombies' = dead /\ zombiesmax' = max
              ELSE zombies' = 0 /\ zombiesmax' = IF max > KEEP THEN 0 ELSE max

\* Faulty variant: space for the threads there are, not for the new one.
Preallocate_OneLess(max) == ArrayMax(max, numthreads)

\* The size thread_fork makes an array have.
Preallocate(max) == ArrayMax(max, numthreads + 1)

-----------------------------------------------------------------------------
Alive == panicked = "no"

\* Where curthread goes on when it next runs: in mi_switch.
Resumes == IF curthread = "menu" THEN "menu" ELSE "old"

\* thread_fork.  Each of its allocations may find no memory and fail the call:
\* the arrays enlarged by then stay so.  The enlarged ring has room for the new
\* thread while the forking one is off it, so make_runnable succeeds.
thread_fork ==
    /\ Alive /\ curthread # "none" /\ numthreads < MaxThreads
    /\ sleepersmax' = Preallocate(sleepersmax)
    /\ \/ UNCHANGED <<zombiesmax, qsize, runqueue, numthreads>>
       \/ /\ zombiesmax' = Preallocate(zombiesmax)
          /\ UNCHANGED <<qsize, runqueue, numthreads>>
       \/ /\ zombiesmax' = Preallocate(zombiesmax)
          /\ qsize' = RingSize(qsize, numthreads + 1)
          /\ runqueue' = Append(runqueue, "new")
          /\ numthreads' = numthreads + 1
    /\ UNCHANGED <<curthread, sleepers, zombies, panicked>>

\* thread_yield: mi_switch(S_READY).
thread_yield ==
    /\ Alive /\ curthread # "none"
    /\ LET queue == Append(runqueue, Resumes) IN
       \/ /\ \/ RoomFor(queue, qsize) /\ UNCHANGED qsize
             \/ ~RoomFor(queue, qsize) /\ qsize' = RingSize(qsize, qsize + 1)
          /\ Switch(queue, zombies, zombiesmax)
          /\ UNCHANGED panicked
       \/ /\ ~RoomFor(queue, qsize)
          /\ panicked' = "runqueue"
          /\ UNCHANGED <<curthread, runqueue, zombies, zombiesmax, qsize>>
    /\ UNCHANGED <<sleepers, sleepersmax, numthreads>>

\* thread_sleep: mi_switch(S_SLEEP).
thread_sleep ==
    /\ Alive /\ curthread # "none"
    /\ \/ /\ sleepers' = Append(sleepers, Resumes)
          /\ sleepersmax' = ArrayMax(sleepersmax, Len(sleepers) + 1)
          /\ Switch(runqueue, zombies, zombiesmax)
          /\ UNCHANGED panicked
       \/ /\ Len(sleepers) >= sleepersmax
          /\ panicked' = "sleepers"
          /\ UNCHANGED <<curthread, runqueue, sleepers, sleepersmax, zombies, zombiesmax>>
    /\ UNCHANGED <<qsize, numthreads>>

\* Faulty variant: the thread is counted out twice.
thread_exit_CountedTwice ==
    /\ Alive /\ curthread \notin {"none", "menu"} /\ zombies < MaxZombies
    /\ numthreads' = numthreads - 2
    /\ Switch(runqueue, zombies + 1, ArrayMax(zombiesmax, zombies + 1))
    /\ UNCHANGED <<sleepers, sleepersmax, qsize, panicked>>

\* thread_exit: mi_switch(S_ZOMB).  The menu's thread never exits.
thread_exit ==
    /\ Alive /\ curthread \notin {"none", "menu"} /\ zombies < MaxZombies
    /\ numthreads' = numthreads - 1
    /\ \/ /\ Switch(runqueue, zombies + 1, ArrayMax(zombiesmax, zombies + 1))
          /\ UNCHANGED panicked
       \/ /\ zombies >= zombiesmax
          /\ panicked' = "zombies"
          /\ UNCHANGED <<curthread, runqueue, zombies, zombiesmax>>
    /\ UNCHANGED <<sleepers, sleepersmax, qsize>>

\* The threads of the list at the given places, in order.
At(list, places) ==
    LET order == SetToSortSeq(places, <) IN [i \in 1..Len(order) |-> list[order[i]]]

\* thread_wakeup and thread_onewakeup, by a thread or by an interrupt: some of
\* the sleepers become runnable.
thread_wakeup ==
    /\ Alive
    /\ \E woken \in SUBSET DOMAIN sleepers \ {{}} :
          /\ sleepers' = At(sleepers, DOMAIN sleepers \ woken)
          /\ MakeRunnable(runqueue \o At(sleepers, woken))
    /\ UNCHANGED <<curthread, zombies, sleepersmax, zombiesmax, numthreads>>

\* The idle loop ends when an interrupt has made a thread runnable; mi_switch
\* then goes on with it.
scheduler ==
    /\ Alive /\ curthread = "none" /\ runqueue # <<>>
    /\ Switch(runqueue, zombies, zombiesmax)
    /\ UNCHANGED <<sleepers, sleepersmax, qsize, numthreads, panicked>>

Next ==
    \/ thread_fork \/ thread_yield \/ thread_sleep
    \/ thread_exit \/ thread_wakeup \/ scheduler

Spec == Init /\ [][Next]_vars

-----------------------------------------------------------------------------
\* Every variable holds a value of its kind.
TypeOK ==
    /\ curthread \in {"menu", "new", "old", "none"}
    /\ runqueue \in Seq({"menu", "new", "old"})
    /\ sleepers \in Seq({"menu", "old"})
    /\ {zombies, sleepersmax, zombiesmax} \subseteq Nat
    /\ qsize \in Nat \ {0}
    /\ numthreads \in 1..MaxThreads
    /\ panicked \in {"no", "sleepers", "zombies", "runqueue"}

\* "Because we preallocate sleepers[] during thread_fork, this should never
\* fail" (mi_switch): once a thread has been forked, going to sleep never needs
\* memory.
SleepNeverFails == panicked = "sleepers" => sleepersmax = 0

\* However threads come and go, the space thread_fork set aside is never lost:
\* the sleepers array can hold every thread, and the ring is no smaller.
SpaceForAll ==
    /\ numthreads > 1 => sleepersmax >= numthreads
    /\ qsize >= numthreads

-----------------------------------------------------------------------------
\* "Because we preallocate during thread_fork, this should not fail"
\* (mi_switch): a thread that exits finds room among the zombies.
ZombieAddNeverFails == panicked # "zombies"

=============================================================================

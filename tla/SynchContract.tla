--------------------------- MODULE SynchContract ---------------------------
(***************************************************************************)
(* What synch.h promises its callers, with the sleeping and retrying of    *)
(* synch.c hidden: taking a lock and decrementing a semaphore are single   *)
(* atomic steps that happen only when they may, releasing a lock to wait   *)
(* on a condition variable is atomic with starting to wait, and a thread   *)
(* that has been signalled does nothing else before it has the lock back.  *)
(***************************************************************************)
EXTENDS Naturals

CONSTANTS
    Thread,     \* kernel threads
    Lock,       \* struct lock objects
    Sem,        \* struct semaphore objects
    Cv,         \* struct cv objects
    NULL,       \* the null pointer
    MaxCount    \* largest semaphore count (the range of int in the code)

VARIABLES
    holder,     \* the thread holding each lock, or NULL
    value,      \* the value of each semaphore
    waiting,    \* the condition variable a thread waits on, or NULL
    owes        \* the lock a thread's unfinished cv_wait must retake, or NULL

vars == <<holder, value, waiting, owes>>

Init ==
    /\ holder = [l \in Lock |-> NULL]
    /\ value \in [Sem -> 0..MaxCount]
    /\ waiting = [t \in Thread |-> NULL]
    /\ owes = [t \in Thread |-> NULL]

\* "Only one thread can hold the lock at the same time."  Also the end of a
\* cv_wait, which re-acquires the lock after waking up.
Acquire(t, l) ==
    /\ waiting[t] = NULL
    /\ owes[t] \in {NULL, l}
    /\ holder[l] = NULL
    /\ holder' = [holder EXCEPT ![l] = t]
    /\ owes' = [owes EXCEPT ![t] = NULL]
    /\ UNCHANGED <<value, waiting>>

\* "Only the thread holding the lock may do this."
Release(t, l) ==
    /\ owes[t] = NULL
    /\ holder[l] = t
    /\ holder' = [holder EXCEPT ![l] = NULL]
    /\ UNCHANGED <<value, waiting, owes>>

\* "Release the supplied lock, go to sleep, and, after waking up again,
\* re-acquire the lock."
Wait(t, c, l) ==
    /\ owes[t] = NULL
    /\ holder[l] = t
    /\ holder' = [holder EXCEPT ![l] = NULL]
    /\ waiting' = [waiting EXCEPT ![t] = c]
    /\ owes' = [owes EXCEPT ![t] = l]
    /\ UNCHANGED value

\* "Wake up one thread that's sleeping on this CV."  A signal nobody waits
\* for is a stuttering step.
Signal(t, c) ==
    /\ owes[t] = NULL
    /\ \E u \in Thread : /\ waiting[u] = c
                         /\ waiting' = [waiting EXCEPT ![u] = NULL]
    /\ UNCHANGED <<holder, value, owes>>

\* "Wake up all threads sleeping on this CV."
Broadcast(t, c) ==
    /\ owes[t] = NULL
    /\ waiting' = [u \in Thread |-> IF waiting[u] = c THEN NULL ELSE waiting[u]]
    /\ UNCHANGED <<holder, value, owes>>

\* "P (proberen): decrement count. If the count is 0, block until the count is 1
\* again before decrementing."
Down(t, s) ==
    /\ owes[t] = NULL
    /\ value[s] > 0
    /\ value' = [value EXCEPT ![s] = @ - 1]
    /\ UNCHANGED <<holder, waiting, owes>>

\* "V (verhogen): increment count."
Up(s) ==
    /\ value[s] < MaxCount
    /\ value' = [value EXCEPT ![s] = @ + 1]
    /\ UNCHANGED <<holder, waiting, owes>>

Next ==
    \/ \E t \in Thread, l \in Lock : Acquire(t, l) \/ Release(t, l)
    \/ \E t \in Thread, c \in Cv, l \in Lock : Wait(t, c, l)
    \/ \E t \in Thread, c \in Cv : Signal(t, c) \/ Broadcast(t, c)
    \/ \E t \in Thread, s \in Sem : Down(t, s)
    \/ \E s \in Sem : Up(s)

Spec == Init /\ [][Next]_vars

=============================================================================

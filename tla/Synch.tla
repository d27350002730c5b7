------------------------------- MODULE Synch -------------------------------
(***************************************************************************)
(* Semaphores, locks and condition variables (thread/synch.c) over the     *)
(* sleep queue of thread.c, seen here only through the address each        *)
(* thread sleeps on.  Every primitive runs at splhigh, so it is atomic up  *)
(* to the point where it calls thread_sleep; the loop around thread_sleep  *)
(* tests its condition again once the thread has been woken and picked.    *)
(* Which runnable thread is picked is left open.                           *)
(***************************************************************************)
EXTENDS Naturals

CONSTANTS
    Thread,     \* kernel threads
    Lock,       \* struct lock objects
    Sem,        \* struct semaphore objects
    Cv,         \* struct cv objects
    NULL,       \* the null pointer
    MaxCount    \* bound on sem->count, an int in the code

\* Objects are told apart by their addresses, and none is at address 0.
ASSUME AddrAssumption ==
    /\ Lock \cap Sem = {} /\ Lock \cap Cv = {} /\ Sem \cap Cv = {}
    /\ NULL \notin Thread \cup Lock \cup Sem \cup Cv

ASSUME CountAssumption == MaxCount \in Nat

VARIABLES
    owner,      \* lock->owner
    count,      \* sem->count
    sleepaddr,  \* the address a thread on sleepers[] waits for, else NULL
    op,         \* the primitive a thread is blocked in or retrying
    arg         \* the object that primitive waits to take, or NULL

vars == <<owner, count, sleepaddr, op, arg>>

Addr == Lock \cup Sem \cup Cv

Op == {"none", "P", "lock_acquire", "cv_wait"}

Init ==
    /\ owner = [l \in Lock |-> NULL]
    /\ count \in [Sem -> 0..MaxCount]
    /\ sleepaddr = [t \in Thread |-> NULL]
    /\ op = [t \in Thread |-> "none"]
    /\ arg = [t \in Thread |-> NULL]

\* t is in no primitive, so it may call one.
Idle(t) == op[t] = "none"

\* t calls the primitive o on x, or has been woken inside that call.
Attempts(t, o, x) == sleepaddr[t] = NULL /\ (Idle(t) \/ (op[t] = o /\ arg[t] = x))

Asleep(a) == {t \in Thread : sleepaddr[t] = a}

\* The calling thread goes to sleep on a.
thread_sleep(t, a) == sleepaddr' = [sleepaddr EXCEPT ![t] = a]

\* Every thread sleeping on a becomes runnable.
thread_wakeup(a) ==
    sleepaddr' = [t \in Thread |-> IF sleepaddr[t] = a THEN NULL ELSE sleepaddr[t]]

\* One thread sleeping on a, if there is one, becomes runnable.
thread_onewakeup(a) ==
    \/ Asleep(a) = {} /\ UNCHANGED sleepaddr
    \/ \E u \in Asleep(a) : sleepaddr' = [sleepaddr EXCEPT ![u] = NULL]

\* The call ends and its thread runs on.
Return(t) ==
    /\ op' = [op EXCEPT ![t] = "none"]
    /\ arg' = [arg EXCEPT ![t] = NULL]

\* The thread sleeps on a inside the call o, which waits to take x.
Block(t, o, x, a) ==
    /\ thread_sleep(t, a)
    /\ op' = [op EXCEPT ![t] = o]
    /\ arg' = [arg EXCEPT ![t] = x]

-----------------------------------------------------------------------------
(***************************************************************************)
(* Semaphores                                                              *)
(***************************************************************************)
\* Faulty variant: the count is tested once, with `if' in place of `while'.
P_TestedOnce(t, s) ==
    /\ Attempts(t, "P", s)
    /\ IF count[s] = 0 /\ Idle(t)
       THEN Block(t, "P", s, s) /\ UNCHANGED <<owner, count>>
       ELSE /\ count' = [count EXCEPT ![s] = @ - 1]
            /\ Return(t)
            /\ UNCHANGED <<owner, sleepaddr>>

P(t, s) ==
    /\ Attempts(t, "P", s)
    /\ IF count[s] = 0
       THEN Block(t, "P", s, s) /\ UNCHANGED <<owner, count>>
       ELSE /\ count' = [count EXCEPT ![s] = @ - 1]
            /\ Return(t)
            /\ UNCHANGED <<owner, sleepaddr>>

\* Faulty variant: one sleeper is woken, and only when the count was zero.
V_WakesOnZero(s) ==
    /\ count[s] < MaxCount
    /\ count' = [count EXCEPT ![s] = @ + 1]
    /\ IF count[s] = 0 THEN thread_onewakeup(s) ELSE UNCHANGED sleepaddr
    /\ UNCHANGED <<owner, op, arg>>

\* Called by threads and by the interrupt handlers of the device drivers.
V(s) ==
    /\ count[s] < MaxCount
    /\ count' = [count EXCEPT ![s] = @ + 1]
    /\ thread_wakeup(s)
    /\ UNCHANGED <<owner, op, arg>>

-----------------------------------------------------------------------------
(***************************************************************************)
(* Locks                                                                   *)
(***************************************************************************)
\* The body of lock_acquire, called by its own callers and by cv_wait.
TakeLock(t, o, l) ==
    IF owner[l] # NULL
    THEN Block(t, o, l, l) /\ UNCHANGED <<owner, count>>
    ELSE /\ owner' = [owner EXCEPT ![l] = t]
         /\ Return(t)
         /\ UNCHANGED <<count, sleepaddr>>

\* A thread never asks for a lock it holds: it would wait for itself.
lock_acquire(t, l) ==
    /\ Attempts(t, "lock_acquire", l)
    /\ owner[l] # t
    /\ TakeLock(t, "lock_acquire", l)

\* The guard is the assertion that curthread owns the lock.
lock_release(t, l) ==
    /\ Idle(t)
    /\ owner[l] = t
    /\ owner' = [owner EXCEPT ![l] = NULL]
    /\ thread_wakeup(l)
    /\ UNCHANGED <<count, op, arg>>

-----------------------------------------------------------------------------
(***************************************************************************)
(* Condition variables                                                     *)
(***************************************************************************)
\* lock_release and thread_sleep in one section at splhigh: no signal can
\* come between them.  The retaking of the lock is cv_wait_resume.
cv_wait(t, c, l) ==
    /\ Idle(t)
    /\ owner[l] = t
    /\ owner' = [owner EXCEPT ![l] = NULL]
    /\ sleepaddr' = [u \in Thread |-> IF u = t THEN c
                                      ELSE IF sleepaddr[u] = l THEN NULL
                                      ELSE sleepaddr[u]]
    /\ op' = [op EXCEPT ![t] = "cv_wait"]
    /\ arg' = [arg EXCEPT ![t] = l]
    /\ UNCHANGED count

\* Faulty variant: the waiter returns without waiting for the lock.
cv_wait_resume_Unlocked(t, l) ==
    /\ op[t] = "cv_wait" /\ arg[t] = l /\ sleepaddr[t] = NULL
    /\ owner' = [owner EXCEPT ![l] = t]
    /\ Return(t)
    /\ UNCHANGED <<count, sleepaddr>>

\* The lock_acquire that ends cv_wait, tried each time the thread is woken.
cv_wait_resume(t, l) ==
    /\ op[t] = "cv_wait" /\ arg[t] = l /\ sleepaddr[t] = NULL
    /\ TakeLock(t, "cv_wait", l)

\* Neither call looks at the lock it is given.
cv_signal(t, c) ==
    /\ Idle(t)
    /\ thread_onewakeup(c)
    /\ UNCHANGED <<owner, count, op, arg>>

cv_broadcast(t, c) ==
    /\ Idle(t)
    /\ thread_wakeup(c)
    /\ UNCHANGED <<owner, count, op, arg>>

Next ==
    \/ \E t \in Thread, s \in Sem : P(t, s)
    \/ \E s \in Sem : V(s)
    \/ \E t \in Thread, l \in Lock :
          lock_acquire(t, l) \/ lock_release(t, l) \/ cv_wait_resume(t, l)
    \/ \E t \in Thread, c \in Cv, l \in Lock : cv_wait(t, c, l)
    \/ \E t \in Thread, c \in Cv : cv_signal(t, c) \/ cv_broadcast(t, c)

Spec == Init /\ [][Next]_vars

-----------------------------------------------------------------------------
(***************************************************************************)
(* Properties                                                              *)
(***************************************************************************)
\* The type of the state: a blocked call waits for an object of its kind.
TypeOK ==
    /\ owner \in [Lock -> Thread \cup {NULL}]
    /\ count \in [Sem -> 0..MaxCount]
    /\ sleepaddr \in [Thread -> Addr \cup {NULL}]
    /\ op \in [Thread -> Op]
    /\ arg \in [Thread -> Lock \cup Sem \cup {NULL}]
    /\ \A t \in Thread :
          /\ op[t] = "none" <=> arg[t] = NULL
          /\ op[t] = "P" => arg[t] \in Sem
          /\ op[t] \in {"lock_acquire", "cv_wait"} => arg[t] \in Lock

\* A thread sleeps only inside a call, and on that call's object: on a
\* condition variable only inside cv_wait.
SleepInCall ==
    \A t \in Thread : sleepaddr[t] # NULL =>
        /\ op[t] # "none"
        /\ sleepaddr[t] = arg[t] \/ (op[t] = "cv_wait" /\ sleepaddr[t] \in Cv)

\* No wakeup is lost: while a thread sleeps on a lock in lock_acquire or at
\* the end of cv_wait the lock is held by another thread, and while a thread
\* sleeps in P the count is zero.  Each release and each V wakes every
\* sleeper, so whatever a thread sleeps for is really unavailable.
NoLostWakeup ==
    \A t \in Thread :
        /\ sleepaddr[t] \in Lock => owner[sleepaddr[t]] \notin {NULL, t}
        /\ sleepaddr[t] \in Sem => count[sleepaddr[t]] = 0

\* A thread that is still inside lock_acquire or cv_wait does not own the
\* lock it is waiting to take, asleep or not.
WaiterNotOwner ==
    \A t \in Thread, l \in Lock : arg[t] = l => owner[l] # t

\* The primitives with their sleep-and-retry loops implement the contract of
\* synch.h (module SynchContract): atomic P, V, acquire and release, and a
\* cv_wait that no signal can fall between and that returns with the lock.
Contract == INSTANCE SynchContract WITH
    holder  <- owner,
    value   <- count,
    waiting <- [t \in Thread |-> IF sleepaddr[t] \in Cv THEN sleepaddr[t] ELSE NULL],
    owes    <- [t \in Thread |-> IF op[t] = "cv_wait" THEN arg[t] ELSE NULL]

ImplementsContract == Contract!Spec

=============================================================================

---------------------------- MODULE SynchThreads ----------------------------
(***************************************************************************)
(* synch.c running on the thread system: the primitives of module Synch    *)
(* with the run queue, the sleepers array, preemption by the clock, device *)
(* interrupts that call V, thread creation and thread exit.  Module Synch  *)
(* leaves open which thread runs; here the scheduler decides.              *)
(***************************************************************************)
EXTENDS Threads

CONSTANTS Lock, Sem, Cv, MaxCount

ASSUME ObjectAssumption ==
    /\ Lock \cap Sem = {} /\ Lock \cap Cv = {} /\ Sem \cap Cv = {}
    /\ NULL \notin Lock \cup Sem \cup Cv
    /\ lbolt \notin Lock \cup Sem \cup Cv \cup {NULL}
    /\ MaxCount \in Nat

VARIABLES
    owner,      \* lock->owner
    count,      \* sem->count
    op,         \* the primitive a thread is blocked in
    arg         \* the lock or semaphore that primitive waits to take

synchVars == <<owner, count, op, arg>>
vars == <<threadVars, synchVars>>

Init ==
    /\ ThreadsInit
    /\ owner = [l \in Lock |-> NULL]
    /\ count \in [Sem -> 0..MaxCount]
    /\ op = [t \in Thread |-> "none"]
    /\ arg = [t \in Thread |-> NULL]

\* The part of the thread state no primitive touches.
UnchangedByPrimitives == UNCHANGED <<zombies, numthreads, life, lbolt_counter, secs>>

\* The running thread calls o on x, or is back in the loop of that call.
Attempts(o, x) ==
    /\ curthread # NULL
    /\ Running \/ (op[curthread] = o /\ arg[curthread] = x)

\* It goes (back) to sleep on x.
BlockOn(o, x) ==
    /\ thread_sleep(x)
    /\ op' = [op EXCEPT ![curthread] = o]
    /\ arg' = [arg EXCEPT ![curthread] = x]

\* It leaves the call and enables interrupts.
Return ==
    /\ AwakeAgain
    /\ op' = [op EXCEPT ![curthread] = "none"]
    /\ arg' = [arg EXCEPT ![curthread] = NULL]
    /\ UNCHANGED <<curthread, runqueue, sleepers>>

P(s) ==
    /\ Attempts("P", s)
    /\ IF count[s] = 0
       THEN BlockOn("P", s) /\ UNCHANGED count
       ELSE Return /\ count' = [count EXCEPT ![s] = @ - 1]
    /\ UNCHANGED owner
    /\ UnchangedByPrimitives

\* By the running thread, or by a device's interrupt handler.
V(s) ==
    /\ Running \/ Idling
    /\ count[s] < MaxCount
    /\ count' = [count EXCEPT ![s] = @ + 1]
    /\ thread_wakeup(s)
    /\ UNCHANGED <<curthread, t_sleepaddr, owner, op, arg>>
    /\ UnchangedByPrimitives

TakeLock(o, l) ==
    /\ IF owner[l] # NULL
       THEN BlockOn(o, l) /\ UNCHANGED owner
       ELSE Return /\ owner' = [owner EXCEPT ![l] = curthread]
    /\ UNCHANGED count
    /\ UnchangedByPrimitives

lock_acquire(l) ==
    /\ Attempts("lock_acquire", l)
    /\ owner[l] # curthread
    /\ TakeLock("lock_acquire", l)

lock_release(l) ==
    /\ Running
    /\ owner[l] = curthread
    /\ owner' = [owner EXCEPT ![l] = NULL]
    /\ thread_wakeup(l)
    /\ UNCHANGED <<curthread, t_sleepaddr, count, op, arg>>
    /\ UnchangedByPrimitives

\* lock_release wakes the sleepers on the lock, then the caller sleeps.
cv_wait(c, l) ==
    /\ Running
    /\ owner[l] = curthread
    /\ owner' = [owner EXCEPT ![l] = NULL]
    /\ runqueue' = runqueue \o SleepersOn(l)
    /\ thread_sleep_from(c, SleepersNotOn(l))
    /\ op' = [op EXCEPT ![curthread] = "cv_wait"]
    /\ arg' = [arg EXCEPT ![curthread] = l]
    /\ UNCHANGED count
    /\ UnchangedByPrimitives

cv_wait_resume(l) ==
    /\ curthread # NULL
    /\ op[curthread] = "cv_wait" /\ arg[curthread] = l
    /\ TakeLock("cv_wait", l)

cv_signal(c) ==
    /\ Running
    /\ thread_onewakeup(c)
    /\ UNCHANGED <<curthread, t_sleepaddr, synchVars>>
    /\ UnchangedByPrimitives

cv_broadcast(c) ==
    /\ Running
    /\ thread_wakeup(c)
    /\ UNCHANGED <<curthread, t_sleepaddr, synchVars>>
    /\ UnchangedByPrimitives

\* A thread that is done has released what it held.
Exit == (\A l \in Lock : owner[l] # curthread) /\ thread_exit

ThreadSteps ==
    \/ scheduler \/ hardclock \/ thread_yield \/ Exit \/ clocksleep_loop
    \/ \E child \in Thread : thread_fork(child)
    \/ \E n \in 1..MaxSecs : clocksleep(n)

Next ==
    \/ ThreadSteps /\ UNCHANGED synchVars
    \/ \E s \in Sem : P(s) \/ V(s)
    \/ \E l \in Lock : lock_acquire(l) \/ lock_release(l) \/ cv_wait_resume(l)
    \/ \E c \in Cv, l \in Lock : cv_wait(c, l)
    \/ \E c \in Cv : cv_signal(c) \/ cv_broadcast(c)

\* What a thread does at splhigh once it has been picked.
GoOn ==
    \/ clocksleep_loop /\ UNCHANGED synchVars
    \/ /\ curthread # NULL /\ ~Running
       /\ \/ \E s \in Sem : P(s)
          \/ \E l \in Lock : lock_acquire(l) \/ cv_wait_resume(l)

Spec == Init /\ [][Next]_vars

\* The timer holds its interrupt line until it is served, so a tick is taken
\* if interrupts are enabled again and again (strong fairness); scheduler()
\* returns once the run queue is not empty; and code at splhigh runs on, as
\* nothing can interrupt it.
Fairness ==
    /\ SF_vars(hardclock /\ UNCHANGED synchVars)
    /\ WF_vars(scheduler /\ UNCHANGED synchVars)
    /\ WF_vars(GoOn)

FairSpec == Spec /\ Fairness

-----------------------------------------------------------------------------
(***************************************************************************)
(* Properties                                                              *)
(***************************************************************************)
\* The type of the state.
TypeOK ==
    /\ curthread \in Thread \cup {NULL}
    /\ \A q \in {runqueue, sleepers, zombies} : q \in Seq(Thread)
    /\ numthreads \in 0..Cardinality(Thread)
    /\ t_sleepaddr \in [Thread -> Lock \cup Sem \cup Cv \cup {lbolt, NULL}]
    /\ life \in [Thread -> {"unborn", "new", "started", "gone"}]
    /\ lbolt_counter \in 0..HZ - 1
    /\ secs \in [Thread -> 0..MaxSecs]
    /\ owner \in [Lock -> Thread \cup {NULL}]
    /\ count \in [Sem -> 0..MaxCount]
    /\ op \in [Thread -> {"none", "P", "lock_acquire", "cv_wait"}]
    /\ arg \in [Thread -> Lock \cup Sem \cup {NULL}]

\* Every thread that has been forked and not destroyed is in exactly one
\* place, once: running, on the run queue, asleep or a zombie.  No thread is
\* scheduled twice, and exorcise destroys no thread that can still run.
OnOneList ==
    LET all == runqueue \o sleepers \o zombies
               \o (IF curthread = NULL THEN <<>> ELSE <<curthread>>)
    IN  /\ Len(all) = Cardinality(ToSet(all))
        /\ ToSet(all) = {t \in Thread : life[t] \in {"new", "started"}}

\* numthreads is the "total number of outstanding threads" that thread_fork
\* sizes the lists with; it "does not count zombies[]".
NumthreadsCounts ==
    numthreads = Cardinality({t \in Thread : /\ life[t] \in {"new", "started"}
                                             /\ ~Contains(zombies, t)})

\* The lists and the scheduler implement the sleep queue that module Synch
\* assumes, so what is proved there of locks, semaphores and condition
\* variables holds of the code running on thread.c.
SynchOnThreads == INSTANCE Synch WITH
    sleepaddr <- [t \in Thread |->
                     IF Contains(sleepers, t) /\ t_sleepaddr[t] # lbolt
                     THEN t_sleepaddr[t] ELSE NULL]

ImplementsSynch == SynchOnThreads!Spec

\* Round robin: a thread on the run queue gets the processor, whatever the
\* threads before it do, because the clock makes them yield to the tail.
RunnableRuns ==
    \A t \in Thread : Contains(runqueue, t) ~> curthread = t

\* clocksleep returns: its thread is woken on lbolt once for each second, by
\* ticks that also come when every thread is asleep.
ClocksleepReturns ==
    \A t \in Thread : secs[t] > 0 ~> secs[t] = 0

=============================================================================

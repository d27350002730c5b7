------------------------------ MODULE Threads ------------------------------
(***************************************************************************)
(* The thread system (thread/thread.c), the round-robin scheduler          *)
(* (thread/scheduler.c) and the clock (thread/hardclock.c) of the          *)
(* uniprocessor kernel, with the thread lists as the code keeps them.      *)
(*                                                                         *)
(* A section at splhigh is one step, cut where mi_switch gives up the      *)
(* processor: the step that leaves the processor sets curthread to NULL,   *)
(* and the step `scheduler' picks the next thread, which finds itself      *)
(* where it called mi_switch.  A thread that comes back from thread_sleep  *)
(* still has its t_sleepaddr set until it goes on, at splhigh.             *)
(***************************************************************************)
EXTENDS Naturals, FiniteSets, Sequences, SequencesExt

CONSTANTS
    Thread,     \* all the threads there will ever be
    Boot,       \* the thread made by thread_bootstrap
    NULL,       \* the null pointer
    lbolt,      \* the address clocksleep sleeps on
    HZ,         \* clock interrupts per second
    MaxSecs     \* bound on the argument of clocksleep

ASSUME ThreadsAssumption ==
    /\ Boot \in Thread
    /\ NULL \notin Thread
    /\ HZ \in Nat \ {0}
    /\ MaxSecs \in Nat

VARIABLES
    curthread,      \* the running thread, or NULL inside scheduler()
    runqueue,       \* the run queue, head first
    sleepers,       \* the array of sleeping threads
    zombies,        \* the array of dead threads not yet destroyed
    numthreads,     \* outstanding threads, zombies not counted
    t_sleepaddr,    \* t->t_sleepaddr
    life,           \* "unborn", "new" until first scheduled, "started", "gone"
    lbolt_counter,  \* clock interrupts in the current second
    secs            \* num_secs of a thread inside clocksleep

lists == <<curthread, runqueue, sleepers, zombies>>
threadVars == <<lists, numthreads, t_sleepaddr, life, lbolt_counter, secs>>

\* thread_bootstrap
ThreadsInit ==
    /\ curthread = Boot
    /\ runqueue = <<>> /\ sleepers = <<>> /\ zombies = <<>>
    /\ numthreads = 1
    /\ t_sleepaddr = [t \in Thread |-> NULL]
    /\ life = [t \in Thread |-> IF t = Boot THEN "started" ELSE "unborn"]
    /\ lbolt_counter = 0
    /\ secs = [t \in Thread |-> 0]

\* Interrupts are on while the running thread is in no section at splhigh,
\* and in cpu_idle, where scheduler() waits for the run queue to fill.
Running == curthread # NULL /\ t_sleepaddr[curthread] = NULL
Idling == curthread = NULL /\ runqueue = <<>>

-----------------------------------------------------------------------------
(***************************************************************************)
(* Sleeping and waking                                                     *)
(***************************************************************************)
\* Faulty variant: the thread goes to the head of the queue.
make_runnable_AtHead(queue, t) == <<t>> \o queue

\* The run queue after make_runnable(t).
make_runnable(queue, t) == Append(queue, t)

\* thread_wakeup(a) moves all the sleepers on a to the run queue in the order
\* of the array; thread_onewakeup(a) moves the first of them.
SleepersOn(a) == SelectSeq(sleepers, LAMBDA t : t_sleepaddr[t] = a)
SleepersNotOn(a) == SelectSeq(sleepers, LAMBDA t : t_sleepaddr[t] # a)

\* Faulty variant: the index is advanced past the entry that array_remove has
\* just moved into the place of the woken thread, so of two neighbours on the
\* same address the second sleeps on.
thread_wakeup_Skips(a) ==
    LET woken == {i \in DOMAIN sleepers :
                     /\ t_sleepaddr[sleepers[i]] = a
                     /\ i > 1 => t_sleepaddr[sleepers[i - 1]] # a}
        Moves(t) == \E i \in woken : sleepers[i] = t
    IN  /\ runqueue' = runqueue \o SelectSeq(sleepers, Moves)
        /\ sleepers' = SelectSeq(sleepers, LAMBDA t : ~Moves(t))

thread_wakeup(a) ==
    /\ runqueue' = runqueue \o SleepersOn(a)
    /\ sleepers' = SleepersNotOn(a)

\* Faulty variant: the thread is made runnable and left in the array.
thread_onewakeup_Keeps(a) ==
    IF SleepersOn(a) = <<>>
    THEN UNCHANGED <<runqueue, sleepers>>
    ELSE /\ runqueue' = make_runnable(runqueue, Head(SleepersOn(a)))
         /\ UNCHANGED sleepers

thread_onewakeup(a) ==
    IF SleepersOn(a) = <<>>
    THEN UNCHANGED <<runqueue, sleepers>>
    ELSE /\ runqueue' = make_runnable(runqueue, Head(SleepersOn(a)))
         /\ sleepers' = RemoveFirst(sleepers, Head(SleepersOn(a)))

\* thread_sleep up to the switch; rest is the sleepers array once whatever
\* the caller wakes first has left it.
thread_sleep_from(a, rest) ==
    /\ t_sleepaddr' = [t_sleepaddr EXCEPT ![curthread] = a]
    /\ sleepers' = Append(rest, curthread)
    /\ curthread' = NULL

thread_sleep(a) == thread_sleep_from(a, sleepers) /\ UNCHANGED runqueue

\* The end of thread_sleep, in the woken thread.
AwakeAgain == t_sleepaddr' = [t_sleepaddr EXCEPT ![curthread] = NULL]

-----------------------------------------------------------------------------
(***************************************************************************)
(* Switching                                                               *)
(***************************************************************************)
\* scheduler() and the rest of mi_switch in the thread it returns.  A thread
\* that has run before destroys the zombies (exorcise); a new one starts in
\* mi_threadstart, which does not.
scheduler ==
    /\ curthread = NULL
    /\ runqueue # <<>>
    /\ curthread' = Head(runqueue)
    /\ runqueue' = Tail(runqueue)
    /\ IF life[Head(runqueue)] = "new"
       THEN /\ life' = [life EXCEPT ![Head(runqueue)] = "started"]
            /\ UNCHANGED zombies
       ELSE /\ life' = [t \in Thread |-> IF Contains(zombies, t) THEN "gone"
                                                                ELSE life[t]]
            /\ zombies' = <<>>
    /\ UNCHANGED <<sleepers, numthreads, t_sleepaddr, lbolt_counter, secs>>

-----------------------------------------------------------------------------
(***************************************************************************)
(* Operations of the running thread, and the clock                         *)
(***************************************************************************)
\* A successful thread_fork; a failed one leaves this state as it was.
thread_fork(child) ==
    /\ Running
    /\ life[child] = "unborn"
    /\ life' = [life EXCEPT ![child] = "new"]
    /\ runqueue' = make_runnable(runqueue, child)
    /\ numthreads' = numthreads + 1
    /\ UNCHANGED <<curthread, sleepers, zombies, t_sleepaddr, lbolt_counter, secs>>

\* Faulty variant: the thread is counted out when it is destroyed.
thread_exit_Uncounted ==
    /\ Running
    /\ zombies' = Append(zombies, curthread)
    /\ curthread' = NULL
    /\ UNCHANGED <<runqueue, sleepers, numthreads, t_sleepaddr, life, lbolt_counter, secs>>

thread_exit ==
    /\ Running
    /\ numthreads' = numthreads - 1
    /\ zombies' = Append(zombies, curthread)
    /\ curthread' = NULL
    /\ UNCHANGED <<runqueue, sleepers, t_sleepaddr, life, lbolt_counter, secs>>

thread_yield ==
    /\ Running
    /\ runqueue' = make_runnable(runqueue, curthread)
    /\ curthread' = NULL
    /\ UNCHANGED <<sleepers, zombies, numthreads, t_sleepaddr, life, lbolt_counter, secs>>

\* Faulty variant: the handler returns at once when no thread is running.
hardclock_NotIdle ==
    /\ Running
    /\ lbolt_counter' = IF lbolt_counter + 1 >= HZ THEN 0 ELSE lbolt_counter + 1
    /\ LET second == lbolt_counter + 1 >= HZ
       IN  /\ sleepers' = IF second THEN SleepersNotOn(lbolt) ELSE sleepers
           /\ runqueue' = Append(IF second THEN runqueue \o SleepersOn(lbolt)
                                           ELSE runqueue, curthread)
    /\ curthread' = NULL
    /\ UNCHANGED <<zombies, numthreads, t_sleepaddr, life, secs>>

\* Once a second everything that waits on lbolt is woken; every time, the
\* interrupted thread yields, unless the clock interrupted the idle loop.
hardclock ==
    LET second == lbolt_counter + 1 >= HZ
        queue  == IF second THEN runqueue \o SleepersOn(lbolt) ELSE runqueue
    IN  /\ Running \/ Idling
        /\ lbolt_counter' = IF second THEN 0 ELSE lbolt_counter + 1
        /\ sleepers' = IF second THEN SleepersNotOn(lbolt) ELSE sleepers
        /\ IF Idling
           THEN runqueue' = queue /\ UNCHANGED curthread
           ELSE runqueue' = make_runnable(queue, curthread) /\ curthread' = NULL
        /\ UNCHANGED <<zombies, numthreads, t_sleepaddr, life, secs>>

\* clocksleep is entered with n > 0 seconds to go.
clocksleep(n) ==
    /\ Running
    /\ n > 0
    /\ secs' = [secs EXCEPT ![curthread] = n]
    /\ thread_sleep(lbolt)
    /\ UNCHANGED <<zombies, numthreads, life, lbolt_counter>>

\* Faulty variant: one more sleep when the last second has passed.
clocksleep_loop_Again ==
    /\ curthread # NULL /\ t_sleepaddr[curthread] = lbolt
    /\ secs' = [secs EXCEPT ![curthread] = @ - 1]
    /\ IF secs[curthread] >= 1
       THEN thread_sleep(lbolt)
       ELSE AwakeAgain /\ UNCHANGED <<curthread, runqueue, sleepers>>
    /\ UNCHANGED <<zombies, numthreads, life, lbolt_counter>>

\* Its loop, each time the thread is woken: one second less to go.
clocksleep_loop ==
    /\ curthread # NULL /\ t_sleepaddr[curthread] = lbolt
    /\ secs' = [secs EXCEPT ![curthread] = @ - 1]
    /\ IF secs[curthread] > 1
       THEN thread_sleep(lbolt)
       ELSE AwakeAgain /\ UNCHANGED <<curthread, runqueue, sleepers>>
    /\ UNCHANGED <<zombies, numthreads, life, lbolt_counter>>

=============================================================================

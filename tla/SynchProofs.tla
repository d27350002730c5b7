---------------------------- MODULE SynchProofs ----------------------------
(***************************************************************************)
(* For any sets of threads, locks, semaphores and condition variables, the *)
(* primitives of synch.c lose no wakeup and implement the contract of      *)
(* synch.h.                                                                *)
(***************************************************************************)
EXTENDS Synch, TLAPS

\* The inductive invariant.  NoLostWakeup alone is not inductive: that a
\* thread going to sleep on a lock is not its owner needs WaiterNotOwner, and
\* that a cv_wait starts no second sleep needs SleepInCall.
IndInv == TypeOK /\ SleepInCall /\ WaiterNotOwner /\ NoLostWakeup

\* The invariant holds when no thread is in a primitive (Init).
LEMMA InitIndInv == Init => IndInv
BY AddrAssumption, CountAssumption
   DEF Init, IndInv, TypeOK, SleepInCall, WaiterNotOwner, NoLostWakeup, Addr, Op

\* thread_wakeup and thread_onewakeup keep sleepaddr a function to addresses
\* and put nobody to sleep.
LEMMA WakeupOnlyWakes ==
    ASSUME TypeOK, NEW a, thread_wakeup(a) \/ thread_onewakeup(a)
    PROVE  /\ sleepaddr' \in [Thread -> Addr \cup {NULL}]
           /\ \A t \in Thread : sleepaddr'[t] \in {sleepaddr[t], NULL}
BY DEF TypeOK, thread_wakeup, thread_onewakeup, Asleep

\* Blocking on the lock or semaphore a call waits to take preserves the
\* invariant when that object is unavailable to the caller (the sleeping
\* branch of P, of lock_acquire and of the end of cv_wait).
LEMMA BlockKeepsInv ==
    ASSUME IndInv, NEW t \in Thread, NEW o \in {"P", "lock_acquire", "cv_wait"},
           NEW x, IF o = "P" THEN x \in Sem /\ count[x] = 0
                             ELSE x \in Lock /\ owner[x] \notin {NULL, t},
           Block(t, o, x, x), UNCHANGED <<owner, count>>
    PROVE  IndInv'
<1> USE AddrAssumption, CountAssumption DEF IndInv, Addr, Op
<1>1. TypeOK'
  BY DEF TypeOK, Block, thread_sleep
<1>2. SleepInCall'
  BY DEF TypeOK, SleepInCall, Block, thread_sleep
<1>3. WaiterNotOwner'
  BY DEF TypeOK, WaiterNotOwner, Block, thread_sleep
<1>4. NoLostWakeup'
  BY DEF TypeOK, NoLostWakeup, Block, thread_sleep
<1> QED BY <1>1, <1>2, <1>3, <1>4

\* The body of lock_acquire preserves the invariant, whichever call it is
\* part of.
LEMMA TakeLockKeepsInv ==
    ASSUME IndInv, NEW t \in Thread, NEW l \in Lock,
           NEW o \in {"lock_acquire", "cv_wait"},
           sleepaddr[t] = NULL, owner[l] # t, TakeLock(t, o, l)
    PROVE  IndInv'
<1>1. CASE owner[l] # NULL
  <2>1. Block(t, o, l, l) /\ UNCHANGED <<owner, count>>
    BY <1>1 DEF TakeLock
  <2> QED BY <1>1, <2>1, BlockKeepsInv
<1>2. CASE owner[l] = NULL
  <2> USE AddrAssumption, CountAssumption, <1>2 DEF IndInv, Addr, Op, TakeLock, Return
  <2>1. TypeOK'
    BY DEF TypeOK
  <2>2. SleepInCall'
    BY DEF TypeOK, SleepInCall
  <2>3. WaiterNotOwner'
    BY DEF TypeOK, WaiterNotOwner
  <2>4. NoLostWakeup'
    BY DEF TypeOK, NoLostWakeup
  <2> QED BY <2>1, <2>2, <2>3, <2>4
<1> QED BY <1>1, <1>2

\* Every step of every primitive preserves the invariant.
LEMMA NextKeepsInv == IndInv /\ [Next]_vars => IndInv'
<1> SUFFICES ASSUME IndInv, [Next]_vars PROVE IndInv'
  OBVIOUS
<1> USE AddrAssumption, CountAssumption DEF Addr, Op
<1>1. ASSUME NEW t \in Thread, NEW s \in Sem, P(t, s) PROVE IndInv'
  <2>1. CASE count[s] = 0
    <3>1. Block(t, "P", s, s) /\ UNCHANGED <<owner, count>>
      BY <1>1, <2>1 DEF P
    <3> QED BY <2>1, <3>1, BlockKeepsInv
  <2>2. CASE count[s] # 0
    <3> USE <1>1, <2>2 DEF IndInv, P, Attempts, Idle, Return
    <3>1. TypeOK'
      BY DEF TypeOK
    <3>2. SleepInCall'
      BY DEF TypeOK, SleepInCall
    <3>3. WaiterNotOwner'
      BY DEF TypeOK, WaiterNotOwner
    <3>4. NoLostWakeup'
      BY DEF TypeOK, NoLostWakeup
    <3> QED BY <3>1, <3>2, <3>3, <3>4
  <2> QED BY <2>1, <2>2
<1>2. ASSUME NEW s \in Sem, V(s) PROVE IndInv'
  <2> USE <1>2 DEF IndInv, V
  <2>1. TypeOK'
    BY WakeupOnlyWakes DEF TypeOK
  <2>2. SleepInCall'
    BY WakeupOnlyWakes DEF SleepInCall
  <2>3. WaiterNotOwner'
    BY DEF WaiterNotOwner
  <2>4. NoLostWakeup'
    BY DEF TypeOK, NoLostWakeup, thread_wakeup
  <2> QED BY <2>1, <2>2, <2>3, <2>4
<1>3. ASSUME NEW t \in Thread, NEW l \in Lock, lock_acquire(t, l) PROVE IndInv'
  BY <1>3, TakeLockKeepsInv DEF lock_acquire, Attempts
<1>4. ASSUME NEW t \in Thread, NEW l \in Lock, lock_release(t, l) PROVE IndInv'
  <2> USE <1>4 DEF IndInv, lock_release
  <2>1. TypeOK'
    BY WakeupOnlyWakes DEF TypeOK
  <2>2. SleepInCall'
    BY WakeupOnlyWakes DEF SleepInCall
  <2>3. WaiterNotOwner'
    BY DEF TypeOK, WaiterNotOwner
  <2>4. NoLostWakeup'
    BY DEF TypeOK, NoLostWakeup, thread_wakeup
  <2> QED BY <2>1, <2>2, <2>3, <2>4
<1>5. ASSUME NEW t \in Thread, NEW l \in Lock, cv_wait_resume(t, l) PROVE IndInv'
  <2>1. owner[l] # t
    BY <1>5 DEF IndInv, WaiterNotOwner, cv_wait_resume
  <2> QED BY <1>5, <2>1, TakeLockKeepsInv DEF cv_wait_resume
<1>6. ASSUME NEW t \in Thread, NEW c \in Cv, NEW l \in Lock, cv_wait(t, c, l)
      PROVE  IndInv'
  <2> USE <1>6 DEF IndInv, cv_wait
  <2>1. TypeOK'
    BY DEF TypeOK
  <2>2. SleepInCall'
    BY DEF TypeOK, SleepInCall
  <2>3. WaiterNotOwner'
    BY DEF TypeOK, WaiterNotOwner
  <2>4. NoLostWakeup'
    BY DEF TypeOK, NoLostWakeup
  <2> QED BY <2>1, <2>2, <2>3, <2>4
<1>7. ASSUME NEW t \in Thread, NEW c \in Cv, cv_signal(t, c) \/ cv_broadcast(t, c)
      PROVE  IndInv'
  <2> USE <1>7 DEF IndInv, cv_signal, cv_broadcast
  <2>0. thread_wakeup(c) \/ thread_onewakeup(c)
    OBVIOUS
  <2>1. TypeOK'
    BY <2>0, WakeupOnlyWakes DEF TypeOK
  <2>2. SleepInCall'
    BY <2>0, WakeupOnlyWakes DEF SleepInCall
  <2>3. WaiterNotOwner'
    BY DEF WaiterNotOwner
  <2>4. NoLostWakeup'
    BY <2>0, WakeupOnlyWakes DEF NoLostWakeup
  <2> QED BY <2>1, <2>2, <2>3, <2>4
<1>8. CASE UNCHANGED vars
  BY <1>8 DEF IndInv, TypeOK, SleepInCall, WaiterNotOwner, NoLostWakeup, vars
<1> QED BY <1>1, <1>2, <1>3, <1>4, <1>5, <1>6, <1>7, <1>8 DEF Next

\* The invariant holds in every reachable state.
THEOREM Invariance == Spec => []IndInv
BY InitIndInv, NextKeepsInv, PTL DEF Spec

\* Every reachable state is well typed: in particular no P ever takes a count
\* below zero.
THEOREM TypeCorrect == Spec => []TypeOK
BY Invariance, PTL DEF IndInv

\* No thread sleeps on a lock that is free or on a semaphore that is not zero
\* (lock_release and V wake every sleeper).
THEOREM WakeupsNotLost == Spec => []NoLostWakeup
BY Invariance, PTL DEF IndInv

-----------------------------------------------------------------------------
(***************************************************************************)
(* Refinement.  Going to sleep on a lock or a semaphore, and being woken   *)
(* from one, are stuttering steps of the contract; each other step is the  *)
(* contract's step of the same name.                                       *)
(***************************************************************************)
\* The variables of the contract, as functions of the state of synch.c.
Waiting == [t \in Thread |-> IF sleepaddr[t] \in Cv THEN sleepaddr[t] ELSE NULL]
Owes == [t \in Thread |-> IF op[t] = "cv_wait" THEN arg[t] ELSE NULL]

\* The sleeping branch of a loop is invisible to the contract's caller.
LEMMA BlockStutters ==
    ASSUME IndInv, NEW t \in Thread, NEW o \in {"P", "lock_acquire", "cv_wait"},
           NEW x \in Lock \cup Sem, sleepaddr[t] = NULL,
           op[t] = "cv_wait" <=> o = "cv_wait", o = "cv_wait" => arg[t] = x,
           Block(t, o, x, x), UNCHANGED <<owner, count>>
    PROVE  UNCHANGED Contract!vars
<1> USE AddrAssumption DEF IndInv, TypeOK, Addr, Op, Block, thread_sleep
<1>1. Waiting' = Waiting
  BY DEF Waiting
<1>2. Owes' = Owes
  BY DEF Owes
<1> QED BY <1>1, <1>2 DEF Contract!vars, Waiting, Owes

\* Taking a free lock is the contract's Acquire, sleeping for a held one is a
\* stuttering step.
LEMMA TakeLockImplements ==
    ASSUME IndInv, NEW t \in Thread, NEW l \in Lock,
           NEW o \in {"lock_acquire", "cv_wait"}, sleepaddr[t] = NULL,
           op[t] = "cv_wait" <=> o = "cv_wait", o = "cv_wait" => arg[t] = l,
           TakeLock(t, o, l)
    PROVE  [Contract!Next]_(Contract!vars)
<1>1. CASE owner[l] # NULL
  <2>1. Block(t, o, l, l) /\ UNCHANGED <<owner, count>>
    BY <1>1 DEF TakeLock
  <2> QED BY <2>1, BlockStutters
<1>2. CASE owner[l] = NULL
  <2> USE AddrAssumption, <1>2 DEF IndInv, TypeOK, Addr, Op, TakeLock, Return
  <2>1. Waiting' = Waiting /\ Waiting[t] = NULL
    BY DEF Waiting
  <2>2. Owes' = [Owes EXCEPT ![t] = NULL] /\ Owes[t] \in {NULL, l}
    BY DEF Owes
  <2>3. Contract!Acquire(t, l)
    BY <2>1, <2>2 DEF Contract!Acquire, Waiting, Owes
  <2> QED BY <2>3 DEF Contract!Next
<1> QED BY <1>1, <1>2

\* Every step of synch.c is a step of the contract or leaves it unchanged.
LEMMA NextImplements ==
    IndInv /\ [Next]_vars => [Contract!Next]_(Contract!vars)
<1> SUFFICES ASSUME IndInv, [Next]_vars
             PROVE  [Contract!Next]_(Contract!vars)
  OBVIOUS
<1> USE AddrAssumption, CountAssumption DEF Addr, Op
<1>1. ASSUME NEW t \in Thread, NEW s \in Sem, P(t, s)
      PROVE  [Contract!Next]_(Contract!vars)
  <2>0. sleepaddr[t] = NULL /\ op[t] # "cv_wait"
    BY <1>1 DEF P, Attempts, Idle
  <2>1. CASE count[s] = 0
    <3>1. Block(t, "P", s, s) /\ UNCHANGED <<owner, count>>
      BY <1>1, <2>1 DEF P
    <3> QED BY <2>0, <3>1, BlockStutters
  <2>2. CASE count[s] # 0
    <3> USE <1>1, <2>0, <2>2 DEF IndInv, TypeOK, P, Return
    <3>1. Waiting' = Waiting
      BY DEF Waiting
    <3>2. Owes' = Owes /\ Owes[t] = NULL
      BY DEF Owes
    <3>3. Contract!Down(t, s)
      BY <3>1, <3>2 DEF Contract!Down, Waiting, Owes
    <3> QED BY <3>3 DEF Contract!Next
  <2> QED BY <2>1, <2>2
<1>2. ASSUME NEW s \in Sem, V(s) PROVE [Contract!Next]_(Contract!vars)
  <2> USE <1>2 DEF IndInv, TypeOK, V, thread_wakeup
  <2>1. Waiting' = Waiting
    BY DEF Waiting
  <2>2. Owes' = Owes
    BY DEF Owes
  <2>3. Contract!Up(s)
    BY <2>1, <2>2 DEF Contract!Up, Waiting, Owes
  <2> QED BY <2>3 DEF Contract!Next
<1>3. ASSUME NEW t \in Thread, NEW l \in Lock, lock_acquire(t, l)
      PROVE  [Contract!Next]_(Contract!vars)
  BY <1>3, TakeLockImplements DEF lock_acquire, Attempts, Idle
<1>4. ASSUME NEW t \in Thread, NEW l \in Lock, lock_release(t, l)
      PROVE  [Contract!Next]_(Contract!vars)
  <2> USE <1>4 DEF IndInv, TypeOK, lock_release, thread_wakeup, Idle
  <2>1. Waiting' = Waiting
    BY DEF Waiting
  <2>2. Owes' = Owes /\ Owes[t] = NULL
    BY DEF Owes
  <2>3. Contract!Release(t, l)
    BY <2>1, <2>2 DEF Contract!Release, Waiting, Owes
  <2> QED BY <2>3 DEF Contract!Next
<1>5. ASSUME NEW t \in Thread, NEW l \in Lock, cv_wait_resume(t, l)
      PROVE  [Contract!Next]_(Contract!vars)
  BY <1>5, TakeLockImplements DEF cv_wait_resume
<1>6. ASSUME NEW t \in Thread, NEW c \in Cv, NEW l \in Lock, cv_wait(t, c, l)
      PROVE  [Contract!Next]_(Contract!vars)
  <2> USE <1>6 DEF IndInv, TypeOK, cv_wait, Idle
  <2>1. Waiting' = [Waiting EXCEPT ![t] = c]
    <3>1. sleepaddr'[t] = c
      OBVIOUS
    <3>2. \A u \in Thread \ {t} :
             /\ sleepaddr'[u] \in {sleepaddr[u], NULL}
             /\ sleepaddr[u] \in Cv => sleepaddr'[u] = sleepaddr[u]
      OBVIOUS
    <3> QED BY <3>1, <3>2 DEF Waiting
  <2>2. Owes' = [Owes EXCEPT ![t] = l] /\ Owes[t] = NULL
    BY DEF Owes
  <2>3. Contract!Wait(t, c, l)
    BY <2>1, <2>2 DEF Contract!Wait, Waiting, Owes
  <2> QED BY <2>3 DEF Contract!Next
<1>7. ASSUME NEW t \in Thread, NEW c \in Cv, cv_signal(t, c)
      PROVE  [Contract!Next]_(Contract!vars)
  <2> USE <1>7 DEF IndInv, TypeOK, cv_signal, Idle, Asleep
  <2>0. Owes' = Owes /\ Owes[t] = NULL
    BY DEF Owes
  <2>1. CASE UNCHANGED sleepaddr
    BY <2>1 DEF Contract!vars
  <2>2. ASSUME NEW u \in Asleep(c), sleepaddr' = [sleepaddr EXCEPT ![u] = NULL]
        PROVE  [Contract!Next]_(Contract!vars)
    <3>1. Waiting[u] = c /\ Waiting' = [Waiting EXCEPT ![u] = NULL]
      BY <2>2 DEF Waiting
    <3>2. Contract!Signal(t, c)
      BY <2>0, <3>1 DEF Contract!Signal, Waiting, Owes
    <3> QED BY <3>2 DEF Contract!Next
  <2> QED BY <2>1, <2>2 DEF thread_onewakeup
<1>8. ASSUME NEW t \in Thread, NEW c \in Cv, cv_broadcast(t, c)
      PROVE  [Contract!Next]_(Contract!vars)
  <2> USE <1>8 DEF IndInv, TypeOK, cv_broadcast, thread_wakeup, Idle
  <2>1. Waiting' = [u \in Thread |-> IF Waiting[u] = c THEN NULL ELSE Waiting[u]]
    BY DEF Waiting
  <2>2. Owes' = Owes /\ Owes[t] = NULL
    BY DEF Owes
  <2>3. Contract!Broadcast(t, c)
    BY <2>1, <2>2 DEF Contract!Broadcast, Waiting, Owes
  <2> QED BY <2>3 DEF Contract!Next
<1>9. CASE UNCHANGED vars
  BY <1>9 DEF vars, Contract!vars
<1> QED BY <1>1, <1>2, <1>3, <1>4, <1>5, <1>6, <1>7, <1>8, <1>9 DEF Next

\* The primitives of synch.c implement the contract of synch.h: locks are
\* mutually exclusive, P and V are atomic, and cv_wait releases and sleeps
\* atomically and returns holding the lock.
THEOREM SynchImplementsContract == Spec => ImplementsContract
<1>1. Init => Contract!Init
  BY AddrAssumption DEF Init, Contract!Init
<1> QED BY <1>1, Invariance, NextImplements, PTL
        DEF Spec, ImplementsContract, Contract!Spec

=============================================================================

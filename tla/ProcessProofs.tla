--------------------------- MODULE ProcessProofs ---------------------------
(***************************************************************************)
(* Proofs about Process, for every size of the process table and every set *)
(* of exit codes.                                                          *)
(***************************************************************************)
EXTENDS Process, TLAPS

User == Pid \ {Menu}
Ended == {"dead", "gone"}

\* The menu runs in entry 0 and nothing else does.
MenuApart ==
    /\ pc[Menu] \in MenuPC
    /\ \A p \in User : pc[p] \notin MenuPC

\* A waitpid is for another process, in a taken entry.
WaitsForOther ==
    \A p \in User : pc[p] \in WaitPC =>
        peer[p] \in User /\ peer[p] # p /\ pc[peer[p]] # "none"

\* A process forking has an embryo of its own.
OwnEmbryo ==
    /\ \A p \in User : pc[p] = "f_run" => peer[p] \in User /\ pc[peer[p]] = "embryo"
    /\ \A p, q \in User : pc[p] = "f_run" /\ pc[q] = "f_run" /\ p # q => peer[p] # peer[q]
    /\ \A p \in User : pc[p] = "f_parent" => peer[p] \in User

\* The exited flag is set after the broadcast.
FlagAfterBroadcast == \A p \in Pid : exited[p] => HasExited(p)

\* At most one program is started or running as the menu's, and it is the one
\* the menu last forked.
OneMenuProgram ==
    /\ peer[Menu] # NULL => peer[Menu] \in User /\ pc[peer[Menu]] # "none"
    /\ \A p \in User : pc[p] = "entry" => peer[Menu] = p
    /\ menuth # NULL =>
           /\ menuth \in User
           /\ pc[menuth] \notin {"none", "embryo", "leaked"}
           /\ pc[menuth] \notin Ended => menuth = peer[Menu]
    /\ pc[Menu] \in {"prompt", "m_relock", "m_release"} /\ peer[Menu] # NULL
           => pc[peer[Menu]] \in Ended

IndInv ==
    /\ TypeOK /\ MenuApart /\ WaitsForOther /\ OwnEmbryo
    /\ FlagAfterBroadcast /\ OneMenuProgram
    /\ WaitOnlyAfterExit /\ LockOwnerAwake

-----------------------------------------------------------------------------
\* The vocabulary of process states, which every proof below needs.
USE NullAssumption, TableAssumption
    DEF Pid, Menu, User, Ended, LifePC, MenuPC, ForkPC, WaitPC, ExitPC, PC, HasExited,
        callVars, tableVars, lockVars, menuVars

\* The owner of an exitpermission is a process.
LEMMA OwnersArePids ==
    ASSUME IndInv
    PROVE  \A q \in Pid : exitpermission[q] # NULL => exitpermission[q] \in Pid
  BY DEF IndInv, TypeOK

\* sys_fork preserves the invariant.  The entry taken was free, so no waitpid,
\* lock or program refers to it.
LEMMA sys_forkIndInv ==
    ASSUME IndInv, NEW p \in Pid, sys_fork(p)
    PROVE  IndInv'
<1>q. PICK q \in Pid :
         /\ FreeEntry(q)
         /\ pc' = [pc EXCEPT ![p] = "f_run", ![q] = "embryo"]
         /\ peer' = [peer EXCEPT ![p] = q]
         /\ waiting' = [waiting EXCEPT ![q] = FALSE]
  BY DEF sys_fork
<1>u. /\ noprocesses' = IF noprocesses < 2 THEN noprocesses + 1 ELSE noprocesses
      /\ UNCHANGED <<code, status, parentPID, exited, exitcode, lockVars, menuth>>
  BY DEF sys_fork
<1>a. pc[p] = "user" /\ pc[q] = "none" /\ q \in User /\ p \in User /\ p # q
  BY <1>q DEF IndInv, MenuApart, FreeEntry, sys_fork
<1>b. /\ pc'[p] = "f_run" /\ pc'[q] = "embryo"
      /\ \A r \in Pid \ {p, q} : pc'[r] = pc[r]
  BY <1>q, <1>a DEF IndInv, TypeOK
<1>c. peer'[p] = q /\ \A r \in Pid \ {p} : peer'[r] = peer[r]
  BY <1>q DEF IndInv, TypeOK
<1>1. TypeOK'
  <2>1. pc' \in [Pid -> PC] /\ peer' \in [Pid -> Pid \cup {NULL}] /\ waiting' \in [Pid -> BOOLEAN]
    BY <1>q DEF IndInv, TypeOK
  <2>2. noprocesses' \in 1..2
    BY <1>u DEF IndInv, TypeOK
  <2>. QED  BY <1>u, <2>1, <2>2 DEF IndInv, TypeOK
<1>2. MenuApart'
  BY <1>a, <1>b DEF IndInv, MenuApart
<1>3. WaitsForOther'
  BY <1>u, <1>a, <1>b, <1>c DEF IndInv, MenuApart, WaitsForOther
<1>4. OwnEmbryo'
  BY <1>u, <1>a, <1>b, <1>c DEF IndInv, MenuApart, OwnEmbryo
<1>5. FlagAfterBroadcast'
  BY <1>u, <1>a, <1>b DEF IndInv, FlagAfterBroadcast
<1>6. OneMenuProgram'
  BY <1>u, <1>a, <1>b, <1>c DEF IndInv, MenuApart, OneMenuProgram
<1>7. WaitOnlyAfterExit'
  BY <1>u, <1>a, <1>b, <1>c DEF IndInv, MenuApart, WaitsForOther, WaitOnlyAfterExit
<1>8. LockOwnerAwake'
  BY OwnersArePids, <1>u, <1>a, <1>b, <1>c DEF IndInv, MenuApart, WaitsForOther,
     LockOwnerAwake
<1>. QED  BY <1>1, <1>2, <1>3, <1>4, <1>5, <1>6, <1>7, <1>8 DEF IndInv

\* thread_fork preserves the invariant.  The child leaves the embryo state;
\* nobody else forks the same embryo.
LEMMA thread_forkIndInv ==
    ASSUME IndInv, NEW p \in Pid, thread_fork(p)
    PROVE  IndInv'
<1>. DEFINE q == peer[p]
<1>a. pc[p] = "f_run" /\ p \in User /\ q \in User /\ pc[q] = "embryo"
  BY DEF IndInv, MenuApart, OwnEmbryo, thread_fork
<1>b. UNCHANGED <<code, status, tableVars, lockVars, menuVars>>
  BY DEF thread_fork
<1>1. CASE /\ pc' = [pc EXCEPT ![p] = "f_parent", ![q] = "user"]
           /\ UNCHANGED peer
  <2>a. /\ pc'[p] = "f_parent" /\ pc'[q] = "user"
        /\ \A r \in Pid \ {p, q} : pc'[r] = pc[r]
    BY <1>a, <1>1 DEF IndInv, TypeOK
  <2>b. peer' = peer
    BY <1>1
  <2>1. TypeOK'
    BY <1>a, <1>b, <1>1 DEF IndInv, TypeOK, MenuApart, OwnEmbryo
  <2>2. MenuApart'
    BY <1>a, <2>a DEF IndInv, MenuApart, OwnEmbryo
  <2>3. WaitsForOther'
    BY <1>a, <1>b, <2>a, <2>b DEF IndInv, MenuApart, WaitsForOther, OwnEmbryo
  <2>4. OwnEmbryo'
    BY <1>a, <1>b, <2>a, <2>b DEF IndInv, MenuApart, OwnEmbryo
  <2>5. FlagAfterBroadcast'
    BY <1>a, <1>b, <2>a DEF IndInv, MenuApart, OwnEmbryo, FlagAfterBroadcast
  <2>6. OneMenuProgram'
    BY <1>a, <1>b, <2>a, <2>b DEF IndInv, MenuApart, OwnEmbryo, OneMenuProgram
  <2>7. WaitOnlyAfterExit'
    BY <1>a, <1>b, <2>a, <2>b DEF IndInv, MenuApart, WaitsForOther, OwnEmbryo,
       WaitOnlyAfterExit
  <2>8. LockOwnerAwake'
    BY OwnersArePids, <1>a, <1>b, <2>a, <2>b DEF IndInv, MenuApart, WaitsForOther,
       OwnEmbryo, LockOwnerAwake
  <2>. QED  BY <2>1, <2>2, <2>3, <2>4, <2>5, <2>6, <2>7, <2>8 DEF IndInv
<1>2. CASE /\ pc' = [pc EXCEPT ![p] = "user", ![q] = "leaked"]
           /\ peer' = [peer EXCEPT ![p] = NULL]
  <2>a. /\ pc'[p] = "user" /\ pc'[q] = "leaked"
        /\ \A r \in Pid \ {p, q} : pc'[r] = pc[r]
    BY <1>a, <1>2 DEF IndInv, TypeOK
  <2>b. peer'[p] = NULL /\ \A r \in Pid \ {p} : peer'[r] = peer[r]
    BY <1>2 DEF IndInv, TypeOK
  <2>1. TypeOK'
    BY <1>a, <1>b, <1>2 DEF IndInv, TypeOK, MenuApart, OwnEmbryo
  <2>2. MenuApart'
    BY <1>a, <2>a DEF IndInv, MenuApart, OwnEmbryo
  <2>3. WaitsForOther'
    BY <1>a, <1>b, <2>a, <2>b DEF IndInv, MenuApart, WaitsForOther, OwnEmbryo
  <2>4. OwnEmbryo'
    BY <1>a, <1>b, <2>a, <2>b DEF IndInv, MenuApart, OwnEmbryo
  <2>5. FlagAfterBroadcast'
    BY <1>a, <1>b, <2>a DEF IndInv, MenuApart, OwnEmbryo, FlagAfterBroadcast
  <2>6. OneMenuProgram'
    BY <1>a, <1>b, <2>a, <2>b DEF IndInv, MenuApart, OwnEmbryo, OneMenuProgram
  <2>7. WaitOnlyAfterExit'
    BY <1>a, <1>b, <2>a, <2>b DEF IndInv, MenuApart, WaitsForOther, OwnEmbryo,
       WaitOnlyAfterExit
  <2>8. LockOwnerAwake'
    BY OwnersArePids, <1>a, <1>b, <2>a, <2>b DEF IndInv, MenuApart, WaitsForOther,
       OwnEmbryo, LockOwnerAwake
  <2>. QED  BY <2>1, <2>2, <2>3, <2>4, <2>5, <2>6, <2>7, <2>8 DEF IndInv
<1>. QED  BY <1>1, <1>2 DEF thread_fork

\* sys_fork_return preserves the invariant.  Only the forking process moves,
\* and parentPID is in no invariant.
LEMMA sys_fork_returnIndInv ==
    ASSUME IndInv, NEW p \in Pid, sys_fork_return(p)
    PROVE  IndInv'
<1>q. PICK q \in Pid : parentPID' = [parentPID EXCEPT ![q] = p]
  BY DEF sys_fork_return
<1>u. /\ pc' = [pc EXCEPT ![p] = "user"]
      /\ peer' = [peer EXCEPT ![p] = NULL]
      /\ UNCHANGED <<code, status, exited, exitcode, waiting, lockVars, menuVars>>
  BY DEF sys_fork_return, Goto
<1>a. pc[p] = "f_parent" /\ p \in User
  BY DEF IndInv, MenuApart, sys_fork_return
<1>b. pc'[p] = "user" /\ \A r \in Pid \ {p} : pc'[r] = pc[r]
  BY <1>u DEF IndInv, TypeOK
<1>c. peer'[p] = NULL /\ \A r \in Pid \ {p} : peer'[r] = peer[r]
  BY <1>u DEF IndInv, TypeOK
<1>1. TypeOK'
  BY <1>q, <1>u, <1>a DEF IndInv, TypeOK
<1>2. MenuApart'
  BY <1>a, <1>b DEF IndInv, MenuApart
<1>3. WaitsForOther'
  BY <1>u, <1>a, <1>b, <1>c DEF IndInv, MenuApart, WaitsForOther
<1>4. OwnEmbryo'
  BY <1>u, <1>a, <1>b, <1>c DEF IndInv, MenuApart, OwnEmbryo
<1>5. FlagAfterBroadcast'
  BY <1>u, <1>a, <1>b DEF IndInv, FlagAfterBroadcast
<1>6. OneMenuProgram'
  BY <1>u, <1>a, <1>b, <1>c DEF IndInv, MenuApart, OneMenuProgram
<1>7. WaitOnlyAfterExit'
  BY <1>u, <1>a, <1>b, <1>c DEF IndInv, MenuApart, WaitsForOther, WaitOnlyAfterExit
<1>8. LockOwnerAwake'
  BY OwnersArePids, <1>u, <1>a, <1>b, <1>c DEF IndInv, MenuApart, WaitsForOther,
     LockOwnerAwake
<1>. QED  BY <1>1, <1>2, <1>3, <1>4, <1>5, <1>6, <1>7, <1>8 DEF IndInv

\* sys_waitpid preserves the invariant.  The process waited for is another one,
\* in a taken entry.
LEMMA sys_waitpidIndInv ==
    ASSUME IndInv, NEW p \in Pid, sys_waitpid(p)
    PROVE  IndInv'
<1>q. PICK q \in Pid \ {Menu, p} : pc[q] # "none" /\ peer' = [peer EXCEPT ![p] = q]
  BY DEF sys_waitpid
<1>u. /\ pc' = [pc EXCEPT ![p] = "w_exited"]
      /\ UNCHANGED <<code, status, tableVars, lockVars, menuVars>>
  BY DEF sys_waitpid, Goto
<1>a. pc[p] = "user" /\ p \in User /\ pc[q] # "none"
  BY <1>q DEF IndInv, MenuApart, sys_waitpid
<1>b. pc'[p] = "w_exited" /\ \A r \in Pid \ {p} : pc'[r] = pc[r]
  BY <1>u DEF IndInv, TypeOK
<1>c. peer'[p] = q /\ \A r \in Pid \ {p} : peer'[r] = peer[r]
  BY <1>q DEF IndInv, TypeOK
<1>1. TypeOK'
  BY <1>q, <1>u, <1>a DEF IndInv, TypeOK
<1>2. MenuApart'
  BY <1>a, <1>b DEF IndInv, MenuApart
<1>3. WaitsForOther'
  BY <1>u, <1>a, <1>b, <1>c DEF IndInv, MenuApart, WaitsForOther
<1>4. OwnEmbryo'
  BY <1>u, <1>a, <1>b, <1>c DEF IndInv, MenuApart, OwnEmbryo
<1>5. FlagAfterBroadcast'
  BY <1>u, <1>a, <1>b DEF IndInv, FlagAfterBroadcast
<1>6. OneMenuProgram'
  BY <1>u, <1>a, <1>b, <1>c DEF IndInv, MenuApart, OneMenuProgram
<1>7. WaitOnlyAfterExit'
  BY <1>u, <1>a, <1>b, <1>c DEF IndInv, MenuApart, WaitsForOther, WaitOnlyAfterExit
<1>8. LockOwnerAwake'
  BY OwnersArePids, <1>u, <1>a, <1>b, <1>c DEF IndInv, MenuApart, WaitsForOther,
     LockOwnerAwake
<1>. QED  BY <1>1, <1>2, <1>3, <1>4, <1>5, <1>6, <1>7, <1>8 DEF IndInv

\* TestExited preserves the invariant.  Taking the fast path relies on the flag
\* being set after the broadcast.
LEMMA TestExitedIndInv ==
    ASSUME IndInv, NEW p \in Pid, TestExited(p)
    PROVE  IndInv'
<1>1. TypeOK'
  BY DEF IndInv, TypeOK, MenuApart, WaitsForOther, TestExited, Goto
<1>2. MenuApart'
  BY DEF IndInv, TypeOK, MenuApart, TestExited, Goto
<1>3. WaitsForOther'
  BY DEF IndInv, TypeOK, MenuApart, WaitsForOther, TestExited, Goto
<1>4. OwnEmbryo'
  BY DEF IndInv, TypeOK, MenuApart, OwnEmbryo, TestExited, Goto
<1>5. FlagAfterBroadcast'
  BY DEF IndInv, TypeOK, FlagAfterBroadcast, TestExited, Goto
<1>6. OneMenuProgram'
  BY DEF IndInv, TypeOK, MenuApart, OneMenuProgram, TestExited, Goto
<1>7. WaitOnlyAfterExit'
  BY DEF IndInv, TypeOK, MenuApart, WaitsForOther, FlagAfterBroadcast,
     WaitOnlyAfterExit, TestExited, Goto
<1>8. LockOwnerAwake'
  BY DEF IndInv, TypeOK, MenuApart, WaitsForOther, LockOwnerAwake, TestExited, Goto
<1>. QED  BY <1>1, <1>2, <1>3, <1>4, <1>5, <1>6, <1>7, <1>8 DEF IndInv

\* ReadExitcode preserves the invariant.  Reading the exit code moves the
\* waiter only.
LEMMA ReadExitcodeIndInv ==
    ASSUME IndInv, NEW p \in Pid, ReadExitcode(p)
    PROVE  IndInv'
<1>1. TypeOK'
  BY DEF IndInv, TypeOK, MenuApart, WaitsForOther, ReadExitcode, Goto
<1>2. MenuApart'
  BY DEF IndInv, TypeOK, MenuApart, ReadExitcode, Goto
<1>3. WaitsForOther'
  BY DEF IndInv, TypeOK, MenuApart, WaitsForOther, ReadExitcode, Goto
<1>4. OwnEmbryo'
  BY DEF IndInv, TypeOK, MenuApart, OwnEmbryo, ReadExitcode, Goto
<1>5. FlagAfterBroadcast'
  BY DEF IndInv, TypeOK, FlagAfterBroadcast, ReadExitcode, Goto
<1>6. OneMenuProgram'
  BY DEF IndInv, TypeOK, MenuApart, OneMenuProgram, ReadExitcode, Goto
<1>7. WaitOnlyAfterExit'
  BY DEF IndInv, TypeOK, MenuApart, WaitsForOther, WaitOnlyAfterExit, ReadExitcode,
     Goto
<1>8. LockOwnerAwake'
  BY DEF IndInv, TypeOK, MenuApart, WaitsForOther, LockOwnerAwake, ReadExitcode,
     Goto
<1>. QED  BY <1>1, <1>2, <1>3, <1>4, <1>5, <1>6, <1>7, <1>8 DEF IndInv

\* WaiterLocks preserves the invariant.  The waiter becomes the owner, awake at
\* its cv_wait or past it.
LEMMA WaiterLocksIndInv ==
    ASSUME IndInv, NEW p \in Pid, WaiterLocks(p)
    PROVE  IndInv'
<1>1. TypeOK'
  BY DEF IndInv, TypeOK, MenuApart, WaitsForOther, WaiterLocks, Goto
<1>2. MenuApart'
  BY DEF IndInv, TypeOK, MenuApart, WaiterLocks, Goto
<1>3. WaitsForOther'
  BY DEF IndInv, TypeOK, MenuApart, WaitsForOther, WaiterLocks, Goto
<1>4. OwnEmbryo'
  BY DEF IndInv, TypeOK, MenuApart, OwnEmbryo, WaiterLocks, Goto
<1>5. FlagAfterBroadcast'
  BY DEF IndInv, TypeOK, FlagAfterBroadcast, WaiterLocks, Goto
<1>6. OneMenuProgram'
  BY DEF IndInv, TypeOK, MenuApart, OneMenuProgram, WaiterLocks, Goto
<1>7. WaitOnlyAfterExit'
  BY DEF IndInv, TypeOK, MenuApart, WaitsForOther, WaitOnlyAfterExit, WaiterLocks,
     Goto
<1>8. LockOwnerAwake'
  BY DEF IndInv, TypeOK, MenuApart, WaitsForOther, LockOwnerAwake, WaiterLocks, Goto
<1>. QED  BY <1>1, <1>2, <1>3, <1>4, <1>5, <1>6, <1>7, <1>8 DEF IndInv

\* WaiterSleeps preserves the invariant.  cv_wait gives the lock up before the
\* waiter sleeps.
LEMMA WaiterSleepsIndInv ==
    ASSUME IndInv, NEW p \in Pid, WaiterSleeps(p)
    PROVE  IndInv'
<1>1. TypeOK'
  BY DEF IndInv, TypeOK, WaiterSleeps, Goto
<1>2. MenuApart'
  BY DEF IndInv, TypeOK, MenuApart, WaiterSleeps, Goto
<1>3. WaitsForOther'
  BY DEF IndInv, TypeOK, MenuApart, WaitsForOther, WaiterSleeps, Goto
<1>4. OwnEmbryo'
  BY DEF IndInv, TypeOK, MenuApart, OwnEmbryo, WaiterSleeps, Goto
<1>5. FlagAfterBroadcast'
  BY DEF IndInv, TypeOK, FlagAfterBroadcast, WaiterSleeps, Goto
<1>6. OneMenuProgram'
  BY DEF IndInv, TypeOK, MenuApart, OneMenuProgram, WaiterSleeps, Goto
<1>7. WaitOnlyAfterExit'
  BY DEF IndInv, TypeOK, MenuApart, WaitsForOther, WaitOnlyAfterExit, WaiterSleeps,
     Goto
<1>8. LockOwnerAwake'
  BY DEF IndInv, TypeOK, MenuApart, WaitsForOther, LockOwnerAwake, WaiterSleeps,
     Goto
<1>. QED  BY <1>1, <1>2, <1>3, <1>4, <1>5, <1>6, <1>7, <1>8 DEF IndInv

\* WaiterUnlocks preserves the invariant.  The waiter owned the lock of the
\* process it waited for, and no other.
LEMMA WaiterUnlocksIndInv ==
    ASSUME IndInv, NEW p \in Pid, WaiterUnlocks(p)
    PROVE  IndInv'
<1>1. TypeOK'
  BY DEF IndInv, TypeOK, WaiterUnlocks, Goto
<1>2. MenuApart'
  BY DEF IndInv, TypeOK, MenuApart, WaiterUnlocks, Goto
<1>3. WaitsForOther'
  BY DEF IndInv, TypeOK, MenuApart, WaitsForOther, WaiterUnlocks, Goto
<1>4. OwnEmbryo'
  BY DEF IndInv, TypeOK, MenuApart, OwnEmbryo, WaiterUnlocks, Goto
<1>5. FlagAfterBroadcast'
  BY DEF IndInv, TypeOK, FlagAfterBroadcast, WaiterUnlocks, Goto
<1>6. OneMenuProgram'
  BY DEF IndInv, TypeOK, MenuApart, OneMenuProgram, WaiterUnlocks, Goto
<1>7. WaitOnlyAfterExit'
  BY DEF IndInv, TypeOK, MenuApart, WaitsForOther, WaitOnlyAfterExit, WaiterUnlocks,
     Goto
<1>8. LockOwnerAwake'
  BY DEF IndInv, TypeOK, MenuApart, WaitsForOther, LockOwnerAwake, WaiterUnlocks,
     Goto
<1>. QED  BY <1>1, <1>2, <1>3, <1>4, <1>5, <1>6, <1>7, <1>8 DEF IndInv

\* MarkWaited preserves the invariant.  The waiting mark is in no invariant.
LEMMA MarkWaitedIndInv ==
    ASSUME IndInv, NEW p \in Pid, MarkWaited(p)
    PROVE  IndInv'
<1>1. TypeOK'
  BY DEF IndInv, TypeOK, MarkWaited, Goto
<1>2. MenuApart'
  BY DEF IndInv, TypeOK, MenuApart, MarkWaited, Goto
<1>3. WaitsForOther'
  BY DEF IndInv, TypeOK, MenuApart, WaitsForOther, MarkWaited, Goto
<1>4. OwnEmbryo'
  BY DEF IndInv, TypeOK, MenuApart, OwnEmbryo, MarkWaited, Goto
<1>5. FlagAfterBroadcast'
  BY DEF IndInv, TypeOK, FlagAfterBroadcast, MarkWaited, Goto
<1>6. OneMenuProgram'
  BY DEF IndInv, TypeOK, MenuApart, OneMenuProgram, MarkWaited, Goto
<1>7. WaitOnlyAfterExit'
  BY DEF IndInv, TypeOK, MenuApart, WaitsForOther, WaitOnlyAfterExit, MarkWaited,
     Goto
<1>8. LockOwnerAwake'
  BY DEF IndInv, TypeOK, MenuApart, WaitsForOther, LockOwnerAwake, MarkWaited, Goto
<1>. QED  BY <1>1, <1>2, <1>3, <1>4, <1>5, <1>6, <1>7, <1>8 DEF IndInv

\* sys_waitpid_return preserves the invariant.  The waiter forgets the process
\* it waited for.
LEMMA sys_waitpid_returnIndInv ==
    ASSUME IndInv, NEW p \in Pid, sys_waitpid_return(p)
    PROVE  IndInv'
<1>1. TypeOK'
  BY DEF IndInv, TypeOK, sys_waitpid_return, Goto
<1>2. MenuApart'
  BY DEF IndInv, TypeOK, MenuApart, sys_waitpid_return, Goto
<1>3. WaitsForOther'
  BY DEF IndInv, TypeOK, MenuApart, WaitsForOther, sys_waitpid_return, Goto
<1>4. OwnEmbryo'
  BY DEF IndInv, TypeOK, MenuApart, OwnEmbryo, sys_waitpid_return, Goto
<1>5. FlagAfterBroadcast'
  BY DEF IndInv, TypeOK, FlagAfterBroadcast, sys_waitpid_return, Goto
<1>6. OneMenuProgram'
  BY DEF IndInv, TypeOK, MenuApart, OneMenuProgram, sys_waitpid_return, Goto
<1>7. WaitOnlyAfterExit'
  BY DEF IndInv, TypeOK, MenuApart, WaitsForOther, WaitOnlyAfterExit,
     sys_waitpid_return, Goto
<1>8. LockOwnerAwake'
  BY DEF IndInv, TypeOK, MenuApart, WaitsForOther, LockOwnerAwake,
     sys_waitpid_return, Goto
<1>. QED  BY <1>1, <1>2, <1>3, <1>4, <1>5, <1>6, <1>7, <1>8 DEF IndInv

\* sys_exit preserves the invariant.  The process leaves user mode, where it
\* owns no lock.
LEMMA sys_exitIndInv ==
    ASSUME IndInv, NEW p \in Pid, sys_exit(p)
    PROVE  IndInv'
<1>1. TypeOK'
  BY DEF IndInv, TypeOK, sys_exit, Goto
<1>2. MenuApart'
  BY DEF IndInv, TypeOK, MenuApart, sys_exit, Goto
<1>3. WaitsForOther'
  BY DEF IndInv, TypeOK, MenuApart, WaitsForOther, sys_exit, Goto
<1>4. OwnEmbryo'
  BY DEF IndInv, TypeOK, MenuApart, OwnEmbryo, sys_exit, Goto
<1>5. FlagAfterBroadcast'
  BY DEF IndInv, TypeOK, FlagAfterBroadcast, sys_exit, Goto
<1>6. OneMenuProgram'
  BY DEF IndInv, TypeOK, MenuApart, OneMenuProgram, sys_exit, Goto
<1>7. WaitOnlyAfterExit'
  BY DEF IndInv, TypeOK, MenuApart, WaitsForOther, WaitOnlyAfterExit, sys_exit, Goto
<1>8. LockOwnerAwake'
  BY DEF IndInv, TypeOK, MenuApart, WaitsForOther, LockOwnerAwake, sys_exit, Goto
<1>. QED  BY <1>1, <1>2, <1>3, <1>4, <1>5, <1>6, <1>7, <1>8 DEF IndInv

\* ExiterLocks preserves the invariant.  The exiting process becomes the owner
\* of its own lock.
LEMMA ExiterLocksIndInv ==
    ASSUME IndInv, NEW p \in Pid, ExiterLocks(p)
    PROVE  IndInv'
<1>1. TypeOK'
  BY DEF IndInv, TypeOK, ExiterLocks, Goto
<1>2. MenuApart'
  BY DEF IndInv, TypeOK, MenuApart, ExiterLocks, Goto
<1>3. WaitsForOther'
  BY DEF IndInv, TypeOK, MenuApart, WaitsForOther, ExiterLocks, Goto
<1>4. OwnEmbryo'
  BY DEF IndInv, TypeOK, MenuApart, OwnEmbryo, ExiterLocks, Goto
<1>5. FlagAfterBroadcast'
  BY DEF IndInv, TypeOK, FlagAfterBroadcast, ExiterLocks, Goto
<1>6. OneMenuProgram'
  BY DEF IndInv, TypeOK, MenuApart, OneMenuProgram, ExiterLocks, Goto
<1>7. WaitOnlyAfterExit'
  BY DEF IndInv, TypeOK, MenuApart, WaitsForOther, WaitOnlyAfterExit, ExiterLocks,
     Goto
<1>8. LockOwnerAwake'
  BY DEF IndInv, TypeOK, MenuApart, WaitsForOther, LockOwnerAwake, ExiterLocks, Goto
<1>. QED  BY <1>1, <1>2, <1>3, <1>4, <1>5, <1>6, <1>7, <1>8 DEF IndInv

\* ExiterWakes preserves the invariant.  The waiters woken are those of the
\* process that exits.
LEMMA ExiterWakesIndInv ==
    ASSUME IndInv, NEW p \in Pid, ExiterWakes(p)
    PROVE  IndInv'
<1>1. TypeOK'
  BY DEF IndInv, TypeOK, ExiterWakes, Goto
<1>2. MenuApart'
  BY DEF IndInv, TypeOK, MenuApart, ExiterWakes, Goto
<1>3. WaitsForOther'
  BY DEF IndInv, TypeOK, MenuApart, WaitsForOther, ExiterWakes, Goto
<1>4. OwnEmbryo'
  BY DEF IndInv, TypeOK, MenuApart, OwnEmbryo, ExiterWakes, Goto
<1>5. FlagAfterBroadcast'
  BY DEF IndInv, TypeOK, FlagAfterBroadcast, ExiterWakes, Goto
<1>6. OneMenuProgram'
  BY DEF IndInv, TypeOK, MenuApart, OneMenuProgram, ExiterWakes, Goto
<1>7. WaitOnlyAfterExit'
  BY DEF IndInv, TypeOK, MenuApart, WaitsForOther, WaitOnlyAfterExit, ExiterWakes,
     Goto
<1>8. LockOwnerAwake'
  BY DEF IndInv, TypeOK, MenuApart, WaitsForOther, LockOwnerAwake, ExiterWakes, Goto
<1>. QED  BY <1>1, <1>2, <1>3, <1>4, <1>5, <1>6, <1>7, <1>8 DEF IndInv

\* ExiterUnlocks preserves the invariant.  The exiting process owned its own
\* lock, and no other.
LEMMA ExiterUnlocksIndInv ==
    ASSUME IndInv, NEW p \in Pid, ExiterUnlocks(p)
    PROVE  IndInv'
<1>1. TypeOK'
  BY DEF IndInv, TypeOK, ExiterUnlocks, Goto
<1>2. MenuApart'
  BY DEF IndInv, TypeOK, MenuApart, ExiterUnlocks, Goto
<1>3. WaitsForOther'
  BY DEF IndInv, TypeOK, MenuApart, WaitsForOther, ExiterUnlocks, Goto
<1>4. OwnEmbryo'
  BY DEF IndInv, TypeOK, MenuApart, OwnEmbryo, ExiterUnlocks, Goto
<1>5. FlagAfterBroadcast'
  BY DEF IndInv, TypeOK, FlagAfterBroadcast, ExiterUnlocks, Goto
<1>6. OneMenuProgram'
  BY DEF IndInv, TypeOK, MenuApart, OneMenuProgram, ExiterUnlocks, Goto
<1>7. WaitOnlyAfterExit'
  BY DEF IndInv, TypeOK, MenuApart, WaitsForOther, WaitOnlyAfterExit, ExiterUnlocks,
     Goto
<1>8. LockOwnerAwake'
  BY DEF IndInv, TypeOK, MenuApart, WaitsForOther, LockOwnerAwake, ExiterUnlocks,
     Goto
<1>. QED  BY <1>1, <1>2, <1>3, <1>4, <1>5, <1>6, <1>7, <1>8 DEF IndInv

\* SetExited preserves the invariant.  The flag is set after the broadcast.
LEMMA SetExitedIndInv ==
    ASSUME IndInv, NEW p \in Pid, SetExited(p)
    PROVE  IndInv'
<1>1. TypeOK'
  BY DEF IndInv, TypeOK, SetExited, Goto
<1>2. MenuApart'
  BY DEF IndInv, TypeOK, MenuApart, SetExited, Goto
<1>3. WaitsForOther'
  BY DEF IndInv, TypeOK, MenuApart, WaitsForOther, SetExited, Goto
<1>4. OwnEmbryo'
  BY DEF IndInv, TypeOK, MenuApart, OwnEmbryo, SetExited, Goto
<1>5. FlagAfterBroadcast'
  BY DEF IndInv, TypeOK, FlagAfterBroadcast, SetExited, Goto
<1>6. OneMenuProgram'
  BY DEF IndInv, TypeOK, MenuApart, OneMenuProgram, SetExited, Goto
<1>7. WaitOnlyAfterExit'
  BY DEF IndInv, TypeOK, MenuApart, WaitsForOther, WaitOnlyAfterExit, SetExited,
     Goto
<1>8. LockOwnerAwake'
  BY DEF IndInv, TypeOK, MenuApart, WaitsForOther, LockOwnerAwake, SetExited, Goto
<1>. QED  BY <1>1, <1>2, <1>3, <1>4, <1>5, <1>6, <1>7, <1>8 DEF IndInv

\* SetExitcode preserves the invariant.  The exit code is in no invariant.
LEMMA SetExitcodeIndInv ==
    ASSUME IndInv, NEW p \in Pid, SetExitcode(p)
    PROVE  IndInv'
<1>1. TypeOK'
  BY DEF IndInv, TypeOK, SetExitcode, Goto
<1>2. MenuApart'
  BY DEF IndInv, TypeOK, MenuApart, SetExitcode, Goto
<1>3. WaitsForOther'
  BY DEF IndInv, TypeOK, MenuApart, WaitsForOther, SetExitcode, Goto
<1>4. OwnEmbryo'
  BY DEF IndInv, TypeOK, MenuApart, OwnEmbryo, SetExitcode, Goto
<1>5. FlagAfterBroadcast'
  BY DEF IndInv, TypeOK, FlagAfterBroadcast, SetExitcode, Goto
<1>6. OneMenuProgram'
  BY DEF IndInv, TypeOK, MenuApart, OneMenuProgram, SetExitcode, Goto
<1>7. WaitOnlyAfterExit'
  BY DEF IndInv, TypeOK, MenuApart, WaitsForOther, WaitOnlyAfterExit, SetExitcode,
     Goto
<1>8. LockOwnerAwake'
  BY DEF IndInv, TypeOK, MenuApart, WaitsForOther, LockOwnerAwake, SetExitcode, Goto
<1>. QED  BY <1>1, <1>2, <1>3, <1>4, <1>5, <1>6, <1>7, <1>8 DEF IndInv

\* thread_exit preserves the invariant.  The menu is woken by its own program's
\* thread only.
LEMMA thread_exitIndInv ==
    ASSUME IndInv, NEW p \in Pid, thread_exit(p)
    PROVE  IndInv'
<1>1. TypeOK'
  BY DEF IndInv, TypeOK, thread_exit, Goto
<1>2. MenuApart'
  BY DEF IndInv, TypeOK, MenuApart, thread_exit, Goto
<1>3. WaitsForOther'
  BY DEF IndInv, TypeOK, MenuApart, WaitsForOther, thread_exit, Goto
<1>4. OwnEmbryo'
  BY DEF IndInv, TypeOK, MenuApart, OwnEmbryo, thread_exit, Goto
<1>5. FlagAfterBroadcast'
  BY DEF IndInv, TypeOK, FlagAfterBroadcast, thread_exit, Goto
<1>6. OneMenuProgram'
  BY DEF IndInv, TypeOK, MenuApart, OneMenuProgram, thread_exit, Goto
<1>7. WaitOnlyAfterExit'
  BY DEF IndInv, TypeOK, MenuApart, WaitsForOther, WaitOnlyAfterExit, thread_exit,
     Goto
<1>8. LockOwnerAwake'
  BY DEF IndInv, TypeOK, MenuApart, WaitsForOther, LockOwnerAwake, thread_exit, Goto
<1>. QED  BY <1>1, <1>2, <1>3, <1>4, <1>5, <1>6, <1>7, <1>8 DEF IndInv

\* exorcise preserves the invariant.  A process that was dead is gone.
LEMMA exorciseIndInv ==
    ASSUME IndInv, exorcise
    PROVE  IndInv'
<1>1. TypeOK'
  BY DEF IndInv, TypeOK, exorcise, Goto
<1>2. MenuApart'
  BY DEF IndInv, TypeOK, MenuApart, exorcise, Goto
<1>3. WaitsForOther'
  BY DEF IndInv, TypeOK, MenuApart, WaitsForOther, exorcise, Goto
<1>4. OwnEmbryo'
  BY DEF IndInv, TypeOK, MenuApart, OwnEmbryo, exorcise, Goto
<1>5. FlagAfterBroadcast'
  BY DEF IndInv, TypeOK, FlagAfterBroadcast, exorcise, Goto
<1>6. OneMenuProgram'
  BY DEF IndInv, TypeOK, MenuApart, OneMenuProgram, exorcise, Goto
<1>7. WaitOnlyAfterExit'
  BY DEF IndInv, TypeOK, MenuApart, WaitsForOther, WaitOnlyAfterExit, exorcise, Goto
<1>8. LockOwnerAwake'
  BY DEF IndInv, TypeOK, MenuApart, WaitsForOther, LockOwnerAwake, exorcise, Goto
<1>. QED  BY <1>1, <1>2, <1>3, <1>4, <1>5, <1>6, <1>7, <1>8 DEF IndInv

\* common_prog preserves the invariant.  The menu's last program is over when
\* it starts the next.
LEMMA common_progIndInv ==
    ASSUME IndInv, common_prog
    PROVE  IndInv'
<1>a. pc[Menu] = "prompt"
  BY DEF common_prog
<1>b. /\ noprocesses' \in 1..2
     /\ UNCHANGED <<code, status, tableVars, lockVars, menuth>>
  BY DEF IndInv, TypeOK, common_prog
<1>1. ASSUME NEW q \in Pid, NEW next \in {"entry", "leaked"}, pc[q] = "none",
             pc' = [pc EXCEPT ![Menu] = "m_lock", ![q] = next],
             peer' = [peer EXCEPT ![Menu] = q]
      PROVE  IndInv'
  <2>a. /\ pc'[Menu] = "m_lock" /\ pc'[q] \in {"entry", "leaked"}
        /\ pc[q] = "none" /\ q \in User
        /\ \A r \in Pid \ {Menu, q} : pc'[r] = pc[r]
    BY <1>a, <1>1 DEF IndInv, TypeOK
  <2>b. peer'[Menu] = q /\ \A r \in Pid \ {Menu} : peer'[r] = peer[r]
    BY <1>1 DEF IndInv, TypeOK
  <2>1. TypeOK'
    BY <1>a, <1>b, <1>1 DEF IndInv, TypeOK
  <2>2. MenuApart'
    BY <1>a, <2>a DEF IndInv, MenuApart
  <2>3. WaitsForOther'
    BY <1>a, <1>b, <2>a, <2>b DEF IndInv, MenuApart, WaitsForOther
  <2>4. OwnEmbryo'
    BY <1>a, <1>b, <2>a, <2>b DEF IndInv, MenuApart, OwnEmbryo
  <2>5. FlagAfterBroadcast'
    BY <1>a, <1>b, <2>a DEF IndInv, FlagAfterBroadcast
  <2>6. OneMenuProgram'
    BY <1>a, <1>b, <2>a, <2>b DEF IndInv, MenuApart, OneMenuProgram
  <2>7. WaitOnlyAfterExit'
    BY <1>a, <1>b, <2>a, <2>b DEF IndInv, MenuApart, WaitsForOther,
       WaitOnlyAfterExit
  <2>8. LockOwnerAwake'
    BY OwnersArePids, <1>a, <1>b, <2>a, <2>b DEF IndInv, MenuApart, WaitsForOther,
       LockOwnerAwake
  <2>. QED  BY <2>1, <2>2, <2>3, <2>4, <2>5, <2>6, <2>7, <2>8 DEF IndInv
<1>2. CASE pc' = [pc EXCEPT ![Menu] = "m_lock"] /\ UNCHANGED peer
  <2>a. /\ pc'[Menu] = "m_lock"
        /\ \A r \in Pid \ {Menu} : pc'[r] = pc[r]
    BY <1>2 DEF IndInv, TypeOK
  <2>b. peer' = peer
    BY <1>2
  <2>1. TypeOK'
    BY <1>a, <1>b, <1>2 DEF IndInv, TypeOK
  <2>2. MenuApart'
    BY <1>a, <2>a DEF IndInv, MenuApart
  <2>3. WaitsForOther'
    BY <1>a, <1>b, <2>a, <2>b DEF IndInv, MenuApart, WaitsForOther
  <2>4. OwnEmbryo'
    BY <1>a, <1>b, <2>a, <2>b DEF IndInv, MenuApart, OwnEmbryo
  <2>5. FlagAfterBroadcast'
    BY <1>a, <1>b, <2>a DEF IndInv, FlagAfterBroadcast
  <2>6. OneMenuProgram'
    BY <1>a, <1>b, <2>a, <2>b DEF IndInv, MenuApart, OneMenuProgram
  <2>7. WaitOnlyAfterExit'
    BY <1>a, <1>b, <2>a, <2>b DEF IndInv, MenuApart, WaitsForOther,
       WaitOnlyAfterExit
  <2>8. LockOwnerAwake'
    BY OwnersArePids, <1>a, <1>b, <2>a, <2>b DEF IndInv, MenuApart, WaitsForOther,
       LockOwnerAwake
  <2>. QED  BY <2>1, <2>2, <2>3, <2>4, <2>5, <2>6, <2>7, <2>8 DEF IndInv
<1>. QED  BY <1>1, <1>2 DEF common_prog, FreeEntry, Goto

\* MenuLocks preserves the invariant.  The menu becomes the owner of its lock,
\* awake.
LEMMA MenuLocksIndInv ==
    ASSUME IndInv, MenuLocks
    PROVE  IndInv'
<1>1. TypeOK'
  BY DEF IndInv, TypeOK, MenuApart, MenuLocks, Goto
<1>2. MenuApart'
  BY DEF IndInv, TypeOK, MenuApart, MenuLocks, Goto
<1>3. WaitsForOther'
  BY DEF IndInv, TypeOK, MenuApart, WaitsForOther, MenuLocks, Goto
<1>4. OwnEmbryo'
  BY DEF IndInv, TypeOK, MenuApart, OwnEmbryo, MenuLocks, Goto
<1>5. FlagAfterBroadcast'
  BY DEF IndInv, TypeOK, FlagAfterBroadcast, MenuLocks, Goto
<1>6. OneMenuProgram'
  BY DEF IndInv, TypeOK, MenuApart, OneMenuProgram, MenuLocks, Goto
<1>7. WaitOnlyAfterExit'
  BY DEF IndInv, TypeOK, MenuApart, WaitsForOther, WaitOnlyAfterExit, MenuLocks,
     Goto
<1>8. LockOwnerAwake'
  BY DEF IndInv, TypeOK, MenuApart, WaitsForOther, LockOwnerAwake, MenuLocks, Goto
<1>. QED  BY <1>1, <1>2, <1>3, <1>4, <1>5, <1>6, <1>7, <1>8 DEF IndInv

\* MenuSleeps preserves the invariant.  cv_wait gives the menu's lock up.
LEMMA MenuSleepsIndInv ==
    ASSUME IndInv, MenuSleeps
    PROVE  IndInv'
<1>1. TypeOK'
  BY DEF IndInv, TypeOK, MenuSleeps, Goto
<1>2. MenuApart'
  BY DEF IndInv, TypeOK, MenuApart, MenuSleeps, Goto
<1>3. WaitsForOther'
  BY DEF IndInv, TypeOK, MenuApart, WaitsForOther, MenuSleeps, Goto
<1>4. OwnEmbryo'
  BY DEF IndInv, TypeOK, MenuApart, OwnEmbryo, MenuSleeps, Goto
<1>5. FlagAfterBroadcast'
  BY DEF IndInv, TypeOK, FlagAfterBroadcast, MenuSleeps, Goto
<1>6. OneMenuProgram'
  BY DEF IndInv, TypeOK, MenuApart, OneMenuProgram, MenuSleeps, Goto
<1>7. WaitOnlyAfterExit'
  BY DEF IndInv, TypeOK, MenuApart, WaitsForOther, WaitOnlyAfterExit, MenuSleeps,
     Goto
<1>8. LockOwnerAwake'
  BY DEF IndInv, TypeOK, MenuApart, WaitsForOther, LockOwnerAwake, MenuSleeps, Goto
<1>. QED  BY <1>1, <1>2, <1>3, <1>4, <1>5, <1>6, <1>7, <1>8 DEF IndInv

\* MenuUnlocks preserves the invariant.  The menu prompts with its program
\* over, as since it was woken.
LEMMA MenuUnlocksIndInv ==
    ASSUME IndInv, MenuUnlocks
    PROVE  IndInv'
<1>1. TypeOK'
  BY DEF IndInv, TypeOK, MenuUnlocks, Goto
<1>2. MenuApart'
  BY DEF IndInv, TypeOK, MenuApart, MenuUnlocks, Goto
<1>3. WaitsForOther'
  BY DEF IndInv, TypeOK, MenuApart, WaitsForOther, MenuUnlocks, Goto
<1>4. OwnEmbryo'
  BY DEF IndInv, TypeOK, MenuApart, OwnEmbryo, MenuUnlocks, Goto
<1>5. FlagAfterBroadcast'
  BY DEF IndInv, TypeOK, FlagAfterBroadcast, MenuUnlocks, Goto
<1>6. OneMenuProgram'
  BY DEF IndInv, TypeOK, MenuApart, OneMenuProgram, MenuUnlocks, Goto
<1>7. WaitOnlyAfterExit'
  BY DEF IndInv, TypeOK, MenuApart, WaitsForOther, WaitOnlyAfterExit, MenuUnlocks,
     Goto
<1>8. LockOwnerAwake'
  BY DEF IndInv, TypeOK, MenuApart, WaitsForOther, LockOwnerAwake, MenuUnlocks, Goto
<1>. QED  BY <1>1, <1>2, <1>3, <1>4, <1>5, <1>6, <1>7, <1>8 DEF IndInv

\* cmd_progthread preserves the invariant.  The thread that starts is the
\* menu's last program.
LEMMA cmd_progthreadIndInv ==
    ASSUME IndInv, NEW p \in Pid, cmd_progthread(p)
    PROVE  IndInv'
<1>q. PICK next \in {"user", "thread_exit"} : pc' = [pc EXCEPT ![p] = next]
  BY DEF cmd_progthread, Goto
<1>u. menuth' = p /\ UNCHANGED <<callVars, tableVars, lockVars, noprocesses>>
  BY DEF cmd_progthread
<1>a. pc[p] = "entry" /\ p \in User
  BY DEF IndInv, MenuApart, cmd_progthread
<1>b. pc'[p] \in {"user", "thread_exit"} /\ \A r \in Pid \ {p} : pc'[r] = pc[r]
  BY <1>q DEF IndInv, TypeOK
<1>c. peer' = peer
  BY <1>u
<1>1. TypeOK'
  BY <1>q, <1>u, <1>a DEF IndInv, TypeOK
<1>2. MenuApart'
  BY <1>a, <1>b DEF IndInv, MenuApart
<1>3. WaitsForOther'
  BY <1>u, <1>a, <1>b, <1>c DEF IndInv, MenuApart, WaitsForOther
<1>4. OwnEmbryo'
  BY <1>u, <1>a, <1>b, <1>c DEF IndInv, MenuApart, OwnEmbryo
<1>5. FlagAfterBroadcast'
  BY <1>u, <1>a, <1>b DEF IndInv, FlagAfterBroadcast
<1>6. OneMenuProgram'
  BY <1>u, <1>a, <1>b, <1>c DEF IndInv, MenuApart, OneMenuProgram
<1>7. WaitOnlyAfterExit'
  BY <1>u, <1>a, <1>b, <1>c DEF IndInv, MenuApart, WaitsForOther, WaitOnlyAfterExit
<1>8. LockOwnerAwake'
  BY OwnersArePids, <1>u, <1>a, <1>b, <1>c DEF IndInv, MenuApart, WaitsForOther,
     LockOwnerAwake
<1>. QED  BY <1>1, <1>2, <1>3, <1>4, <1>5, <1>6, <1>7, <1>8 DEF IndInv

\* Initially nothing waits, forks or owns a lock (init_processtable).
LEMMA InitIndInv == Init => IndInv
  BY CodeAssumption DEF Init, IndInv, TypeOK, MenuApart, WaitsForOther, OwnEmbryo,
     FlagAfterBroadcast, OneMenuProgram, WaitOnlyAfterExit, LockOwnerAwake

\* Every step of the system calls, of thread_exit and of the menu preserves the
\* invariant.
LEMMA NextIndInv == IndInv /\ [Next]_vars => IndInv'
<1>. SUFFICES ASSUME IndInv, [Next]_vars  PROVE IndInv'
  OBVIOUS
<1>1. ASSUME NEW p \in Pid,
             sys_fork(p) \/ sys_waitpid(p) \/ sys_exit(p) \/ cmd_progthread(p)
      PROVE  IndInv'
  BY <1>1, sys_forkIndInv, sys_waitpidIndInv, sys_exitIndInv, cmd_progthreadIndInv
<1>2. ASSUME NEW p \in Pid, Forking(p)  PROVE IndInv'
  BY <1>2, thread_forkIndInv, sys_fork_returnIndInv DEF Forking
<1>3. ASSUME NEW p \in Pid, Waiting(p)  PROVE IndInv'
  BY <1>3, TestExitedIndInv, ReadExitcodeIndInv, WaiterLocksIndInv,
     WaiterSleepsIndInv,
     WaiterUnlocksIndInv, MarkWaitedIndInv, sys_waitpid_returnIndInv DEF Waiting
<1>4. ASSUME NEW p \in Pid, Exiting(p)  PROVE IndInv'
  BY <1>4, ExiterLocksIndInv, ExiterWakesIndInv, ExiterUnlocksIndInv,
     SetExitedIndInv,
     SetExitcodeIndInv, thread_exitIndInv DEF Exiting
<1>5. CASE exorcise \/ common_prog \/ MenuGoesOn
  BY <1>5, exorciseIndInv, common_progIndInv, MenuLocksIndInv, MenuSleepsIndInv,
     MenuUnlocksIndInv DEF MenuGoesOn
<1>6. CASE UNCHANGED vars
  <2>u. UNCHANGED <<pc, callVars, tableVars, lockVars, menuVars>>
    BY <1>6 DEF vars
  <2>1. TypeOK'
    BY <2>u DEF IndInv, TypeOK
  <2>2. MenuApart'
    BY <2>u DEF IndInv, MenuApart
  <2>3. WaitsForOther'
    BY <2>u DEF IndInv, WaitsForOther
  <2>4. OwnEmbryo'
    BY <2>u DEF IndInv, OwnEmbryo
  <2>5. FlagAfterBroadcast'
    BY <2>u DEF IndInv, FlagAfterBroadcast
  <2>6. OneMenuProgram'
    BY <2>u DEF IndInv, OneMenuProgram
  <2>7. WaitOnlyAfterExit'
    BY <2>u DEF IndInv, WaitOnlyAfterExit
  <2>8. LockOwnerAwake'
    BY <2>u DEF IndInv, LockOwnerAwake
  <2>. QED  BY <2>1, <2>2, <2>3, <2>4, <2>5, <2>6, <2>7, <2>8 DEF IndInv
<1>. QED  BY <1>1, <1>2, <1>3, <1>4, <1>5, <1>6 DEF Next

\* The invariant holds of every reachable state, for every table size.
THEOREM Invariance == Spec => []IndInv
  BY InitIndInv, NextIndInv, PTL DEF Spec

\* The variables of the process table, the locks and the calls keep their
\* types.
THEOREM TypeCorrect == Spec => []TypeOK
<1>1. IndInv => TypeOK
  BY DEF IndInv
<1>. QED  BY <1>1, Invariance, PTL

\* sys_waitpid gets past its wait only for a process that has woken its waiters
\* in sys_exit.
THEOREM WaitsAreOverAfterExit == Spec => []WaitOnlyAfterExit
<1>1. IndInv => WaitOnlyAfterExit
  BY DEF IndInv
<1>. QED  BY <1>1, Invariance, PTL

\* Nobody sleeps or dies holding an exitpermission or the menu's lock.
THEOREM ExitPermissionObtainable == Spec => []LockOwnerAwake
<1>1. IndInv => LockOwnerAwake
  BY DEF IndInv
<1>. QED  BY <1>1, Invariance, PTL

\* The menu does not reuse its argument buffer while its program runs.
THEOREM MenuArgumentsStable == Spec => []MenuWaitsForProgram
<1>1. IndInv => MenuWaitsForProgram
  BY DEF IndInv, OneMenuProgram, MenuWaitsForProgram
<1>. QED  BY <1>1, Invariance, PTL

=============================================================================

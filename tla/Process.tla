------------------------------ MODULE Process ------------------------------
(***************************************************************************)
(* Processes: fork, waitpid and _exit (arch/mips/mips/syscall.c), the      *)
(* process table filled by thread_create (thread/thread.c), and the menu   *)
(* thread that runs programs and waits for them (main/menu.c).             *)
(*                                                                         *)
(* A process is its index in the table, which is its pid; the menu runs in *)
(* process 0.  Sections at splhigh are single steps; everything else is    *)
(* cut at each access to the table, because the clock may preempt there.   *)
(* Locks and condition variables are those of module SynchContract.        *)
(***************************************************************************)
EXTENDS Integers, FiniteSets

CONSTANTS
    TOTAL_PROCESSES,    \* size of the process table, 128 in the code
    Code,               \* exit codes programs use
    NULL                \* no process

ASSUME TableAssumption == TOTAL_PROCESSES \in Nat /\ TOTAL_PROCESSES >= 2
ASSUME CodeAssumption == Code \subseteq Nat \ {0}
ASSUME NullAssumption == NULL \notin Nat

Pid == 0..TOTAL_PROCESSES - 1
Menu == 0

VARIABLES
    pc,             \* where each process is
    peer,           \* the child of its fork, or the process it waits for
    code,           \* the argument of its _exit
    status,         \* what its waitpid has stored in *status
    parentPID, exited, exitcode, waiting,   \* fields of table[]
    exitpermission, \* owner of each table entry's lock
    menusleep,      \* owner of the menu's lock
    menuth,         \* the thread of the program the menu runs
    noprocesses     \* calls of thread_create, up to 2

tableVars == <<parentPID, exited, exitcode, waiting>>
lockVars == <<exitpermission, menusleep>>
callVars == <<peer, code, status>>
menuVars == <<menuth, noprocesses>>
vars == <<pc, callVars, tableVars, lockVars, menuVars>>

\* none: the table entry is free.  embryo: thread_create has taken it.
\* leaked: taken, but thread_fork failed afterwards.  dead: a zombie.  gone:
\* thread_destroy has freed the thread structure.
LifePC == {"none", "embryo", "leaked", "dead", "gone"}
MenuPC == {"prompt", "m_lock", "m_wait", "m_asleep", "m_relock", "m_release"}
ForkPC == {"f_run", "f_parent"}
WaitPC == {"w_exited", "w_fast", "w_lock", "w_wait", "w_asleep", "w_relock",
           "w_release", "w_code", "w_mark", "w_return"}
ExitPC == {"x_lock", "x_broadcast", "x_release", "x_exited", "x_code", "thread_exit"}
PC == LifePC \cup MenuPC \cup ForkPC \cup WaitPC \cup ExitPC \cup {"entry", "user"}

\* init_processtable and the boot thread, which becomes the menu.
Init ==
    /\ pc = [p \in Pid |-> IF p = Menu THEN "prompt" ELSE "none"]
    /\ peer = [p \in Pid |-> NULL]
    /\ code = [p \in Pid |-> 0]
    /\ status = [p \in Pid |-> 0]
    /\ parentPID = [p \in Pid |-> 0]
    /\ exited = [p \in Pid |-> FALSE]
    /\ exitcode = [p \in Pid |-> 0]
    /\ waiting = [p \in Pid |-> FALSE]
    /\ exitpermission = [p \in Pid |-> NULL]
    /\ menusleep = NULL
    /\ menuth = NULL
    /\ noprocesses = 1

Goto(p, next) == pc' = [pc EXCEPT ![p] = next]

\* The process has a thread that can still run.
Alive(p) == pc[p] \notin LifePC

-----------------------------------------------------------------------------
(***************************************************************************)
(* fork                                                                    *)
(***************************************************************************)
\* thread_create looks for the first free entry, from index 2 on once two
\* threads exist.
FirstIndex == IF noprocesses < 2 THEN 0 ELSE 2
FreeEntry(q) ==
    /\ q >= FirstIndex /\ pc[q] = "none"
    /\ \A r \in FirstIndex..q - 1 : pc[r] # "none"

\* Faulty variant: noprocesses counts every thread_create.
sys_fork_CountsAll(p) ==
    /\ pc[p] = "user"
    /\ \E q \in Pid :
          /\ FreeEntry(q)
          /\ pc' = [pc EXCEPT ![p] = "f_run", ![q] = "embryo"]
          /\ peer' = [peer EXCEPT ![p] = q]
          /\ waiting' = [waiting EXCEPT ![q] = FALSE]
    /\ noprocesses' = noprocesses + 1
    /\ UNCHANGED <<code, status, parentPID, exited, exitcode, lockVars, menuth>>

\* sys_fork up to the end of thread_create.  A call that finds no memory or no
\* free entry by then fails and changes nothing.
sys_fork(p) ==
    /\ pc[p] = "user"
    /\ \E q \in Pid :
          /\ FreeEntry(q)
          /\ pc' = [pc EXCEPT ![p] = "f_run", ![q] = "embryo"]
          /\ peer' = [peer EXCEPT ![p] = q]
          /\ waiting' = [waiting EXCEPT ![q] = FALSE]
    /\ noprocesses' = IF noprocesses < 2 THEN noprocesses + 1 ELSE noprocesses
    /\ UNCHANGED <<code, status, parentPID, exited, exitcode, lockVars, menuth>>

\* The rest of thread_fork: the child becomes runnable, or memory for its
\* stack is out and the table entry stays taken.
thread_fork(p) ==
    /\ pc[p] = "f_run"
    /\ \/ /\ pc' = [pc EXCEPT ![p] = "f_parent", ![peer[p]] = "user"]
          /\ UNCHANGED peer
       \/ /\ pc' = [pc EXCEPT ![p] = "user", ![peer[p]] = "leaked"]
          /\ peer' = [peer EXCEPT ![p] = NULL]
    /\ UNCHANGED <<code, status, tableVars, lockVars, menuVars>>

\* sys_fork goes on, with the child's thread structure in hand.  Once that has
\* been freed, the threadPID read from it may be anything.
sys_fork_return(p) ==
    /\ pc[p] = "f_parent"
    /\ \E q \in Pid :
          /\ pc[peer[p]] # "gone" => q = peer[p]
          /\ parentPID' = [parentPID EXCEPT ![q] = p]
    /\ peer' = [peer EXCEPT ![p] = NULL]
    /\ Goto(p, "user")
    /\ UNCHANGED <<code, status, exited, exitcode, waiting, lockVars, menuVars>>

-----------------------------------------------------------------------------
(***************************************************************************)
(* waitpid                                                                 *)
(***************************************************************************)
\* The checks.  A call that fails one returns EINVAL and changes nothing.
sys_waitpid(p) ==
    /\ pc[p] = "user"
    /\ \E q \in Pid \ {Menu, p} :
          /\ pc[q] # "none"
          /\ ~waiting[q]
          /\ q # parentPID[p]
          /\ peer' = [peer EXCEPT ![p] = q]
    /\ Goto(p, "w_exited")
    /\ UNCHANGED <<code, status, tableVars, lockVars, menuVars>>

\* Its test of the exited flag.
TestExited(p) ==
    /\ pc[p] = "w_exited"
    /\ Goto(p, IF exited[peer[p]] THEN "w_fast" ELSE "w_lock")
    /\ UNCHANGED <<callVars, tableVars, lockVars, menuVars>>

\* *status = table[PID].exitcode, with or without having waited.
ReadExitcode(p) ==
    /\ pc[p] \in {"w_fast", "w_code"}
    /\ status' = [status EXCEPT ![p] = exitcode[peer[p]]]
    /\ Goto(p, IF pc[p] = "w_fast" THEN "w_return" ELSE "w_mark")
    /\ UNCHANGED <<peer, code, tableVars, lockVars, menuVars>>

\* lock_acquire before the wait and at the end of cv_wait.
WaiterLocks(p) ==
    /\ pc[p] \in {"w_lock", "w_relock"}
    /\ exitpermission[peer[p]] = NULL
    /\ exitpermission' = [exitpermission EXCEPT ![peer[p]] = p]
    /\ Goto(p, IF pc[p] = "w_lock" THEN "w_wait" ELSE "w_release")
    /\ UNCHANGED <<callVars, tableVars, menusleep, menuVars>>

\* Faulty variant: the lock is not given up while waiting.
WaiterSleeps_Holding(p) ==
    /\ pc[p] = "w_wait"
    /\ Goto(p, "w_asleep")
    /\ UNCHANGED <<callVars, tableVars, lockVars, menuVars>>

\* cv_wait, unconditionally.
WaiterSleeps(p) ==
    /\ pc[p] = "w_wait"
    /\ exitpermission' = [exitpermission EXCEPT ![peer[p]] = NULL]
    /\ Goto(p, "w_asleep")
    /\ UNCHANGED <<callVars, tableVars, menusleep, menuVars>>

WaiterUnlocks(p) ==
    /\ pc[p] = "w_release"
    /\ exitpermission' = [exitpermission EXCEPT ![peer[p]] = NULL]
    /\ Goto(p, "w_code")
    /\ UNCHANGED <<callVars, tableVars, menusleep, menuVars>>

MarkWaited(p) ==
    /\ pc[p] = "w_mark"
    /\ waiting' = [waiting EXCEPT ![peer[p]] = TRUE]
    /\ Goto(p, "w_return")
    /\ UNCHANGED <<callVars, parentPID, exited, exitcode, lockVars, menuVars>>

\* Back to the user, who forgets the status.
sys_waitpid_return(p) ==
    /\ pc[p] = "w_return"
    /\ peer' = [peer EXCEPT ![p] = NULL]
    /\ status' = [status EXCEPT ![p] = 0]
    /\ Goto(p, "user")
    /\ UNCHANGED <<code, tableVars, lockVars, menuVars>>

-----------------------------------------------------------------------------
(***************************************************************************)
(* _exit                                                                   *)
(***************************************************************************)
sys_exit(p) ==
    /\ pc[p] = "user"
    /\ \E x \in Code : code' = [code EXCEPT ![p] = x]
    /\ Goto(p, "x_lock")
    /\ UNCHANGED <<peer, status, tableVars, lockVars, menuVars>>

ExiterLocks(p) ==
    /\ pc[p] = "x_lock"
    /\ exitpermission[p] = NULL
    /\ exitpermission' = [exitpermission EXCEPT ![p] = p]
    /\ Goto(p, "x_broadcast")
    /\ UNCHANGED <<callVars, tableVars, menusleep, menuVars>>

\* Faulty variant: the waiters of every process are woken.
ExiterWakes_Everybody(p) ==
    /\ pc[p] = "x_broadcast"
    /\ pc' = [r \in Pid |-> IF r = p THEN "x_release"
                            ELSE IF pc[r] = "w_asleep" THEN "w_relock"
                            ELSE pc[r]]
    /\ UNCHANGED <<callVars, tableVars, lockVars, menuVars>>

\* cv_broadcast on the process's own exitcv.
ExiterWakes(p) ==
    /\ pc[p] = "x_broadcast"
    /\ pc' = [r \in Pid |-> IF r = p THEN "x_release"
                            ELSE IF pc[r] = "w_asleep" /\ peer[r] = p THEN "w_relock"
                            ELSE pc[r]]
    /\ UNCHANGED <<callVars, tableVars, lockVars, menuVars>>

ExiterUnlocks(p) ==
    /\ pc[p] = "x_release"
    /\ exitpermission' = [exitpermission EXCEPT ![p] = NULL]
    /\ Goto(p, "x_exited")
    /\ UNCHANGED <<callVars, tableVars, menusleep, menuVars>>

SetExited(p) ==
    /\ pc[p] = "x_exited"
    /\ exited' = [exited EXCEPT ![p] = TRUE]
    /\ Goto(p, "x_code")
    /\ UNCHANGED <<callVars, parentPID, exitcode, waiting, lockVars, menuVars>>

SetExitcode(p) ==
    /\ pc[p] = "x_code"
    /\ exitcode' = [exitcode EXCEPT ![p] = code[p]]
    /\ Goto(p, "thread_exit")
    /\ UNCHANGED <<callVars, parentPID, exited, waiting, lockVars, menuVars>>

\* Faulty variant: the test for the menu's own program is missing.
thread_exit_WakesMenu(p) ==
    /\ pc[p] = "thread_exit"
    /\ menusleep = NULL
    /\ pc' = [r \in Pid |-> IF r = p THEN "dead"
                            ELSE IF pc[r] = "m_asleep" THEN "m_relock"
                            ELSE pc[r]]
    /\ UNCHANGED <<callVars, tableVars, lockVars, menuVars>>

\* All at splhigh: the menu's program takes menusleep, waiting for it if need
\* be, and wakes the menu; then the thread becomes a zombie.
thread_exit(p) ==
    /\ pc[p] = "thread_exit"
    /\ p = menuth => menusleep = NULL
    /\ pc' = [r \in Pid |-> IF r = p THEN "dead"
                            ELSE IF pc[r] = "m_asleep" /\ p = menuth THEN "m_relock"
                            ELSE pc[r]]
    /\ UNCHANGED <<callVars, tableVars, lockVars, menuVars>>

\* A thread that resumes in mi_switch destroys all the zombies.
exorcise ==
    /\ \E p \in Pid : pc[p] = "dead"
    /\ \E p \in Pid : Alive(p)
    /\ pc' = [p \in Pid |-> IF pc[p] = "dead" THEN "gone" ELSE pc[p]]
    /\ UNCHANGED <<callVars, tableVars, lockVars, menuVars>>

-----------------------------------------------------------------------------
(***************************************************************************)
(* The menu                                                                *)
(***************************************************************************)
\* common_prog up to the end of thread_fork; whatever that returns, the menu
\* then waits.  The steps of thread_fork need not be told apart here: nobody
\* else can see the entry of a program that has not started.
common_prog ==
    /\ pc[Menu] = "prompt"
    /\ \/ \E q \in Pid, next \in {"entry", "leaked"} :
            /\ FreeEntry(q)
            /\ pc' = [pc EXCEPT ![Menu] = "m_lock", ![q] = next]
            /\ peer' = [peer EXCEPT ![Menu] = q]
            /\ noprocesses' = IF noprocesses < 2 THEN noprocesses + 1 ELSE noprocesses
       \/ Goto(Menu, "m_lock") /\ UNCHANGED <<peer, noprocesses>>
    /\ UNCHANGED <<code, status, tableVars, lockVars, menuth>>

MenuLocks ==
    /\ pc[Menu] \in {"m_lock", "m_relock"}
    /\ menusleep = NULL
    /\ menusleep' = Menu
    /\ Goto(Menu, IF pc[Menu] = "m_lock" THEN "m_wait" ELSE "m_release")
    /\ UNCHANGED <<callVars, tableVars, exitpermission, menuVars>>

\* cv_wait(menucv, menusleep), unconditionally.
MenuSleeps ==
    /\ pc[Menu] = "m_wait"
    /\ menusleep' = NULL
    /\ Goto(Menu, "m_asleep")
    /\ UNCHANGED <<callVars, tableVars, exitpermission, menuVars>>

MenuUnlocks ==
    /\ pc[Menu] = "m_release"
    /\ menusleep' = NULL
    /\ Goto(Menu, "prompt")
    /\ UNCHANGED <<callVars, tableVars, exitpermission, menuVars>>

\* The program's thread: it runs in user mode, or runprogram fails and the
\* thread ends without _exit.
cmd_progthread(p) ==
    /\ pc[p] = "entry"
    /\ menuth' = p
    /\ Goto(p, "user") \/ Goto(p, "thread_exit")
    /\ UNCHANGED <<callVars, tableVars, lockVars, noprocesses>>

-----------------------------------------------------------------------------
Forking(p) == thread_fork(p) \/ sys_fork_return(p)

Waiting(p) ==
    \/ TestExited(p) \/ ReadExitcode(p) \/ WaiterLocks(p) \/ WaiterSleeps(p)
    \/ WaiterUnlocks(p) \/ MarkWaited(p) \/ sys_waitpid_return(p)

Exiting(p) ==
    \/ ExiterLocks(p) \/ ExiterWakes(p) \/ ExiterUnlocks(p)
    \/ SetExited(p) \/ SetExitcode(p) \/ thread_exit(p)

MenuGoesOn == MenuLocks \/ MenuSleeps \/ MenuUnlocks

Next ==
    \/ \E p \in Pid : \/ sys_fork(p) \/ sys_waitpid(p) \/ sys_exit(p)
                      \/ Forking(p) \/ Waiting(p) \/ Exiting(p)
                      \/ cmd_progthread(p)
    \/ exorcise \/ common_prog \/ MenuGoesOn

Spec == Init /\ [][Next]_vars

\* Every runnable thread runs (module SynchThreads), so kernel code that is not
\* asleep goes on; what programs and the user at the menu do is left open.
FairSpec ==
    /\ Spec
    /\ \A p \in Pid \ {Menu} :
          /\ WF_vars(Forking(p)) /\ WF_vars(Waiting(p)) /\ WF_vars(Exiting(p))
          /\ WF_vars(cmd_progthread(p))
    /\ WF_vars(MenuGoesOn)

-----------------------------------------------------------------------------
(***************************************************************************)
(* What holds                                                              *)
(***************************************************************************)
\* Every variable holds a value of its kind.
TypeOK ==
    /\ pc \in [Pid -> PC]
    /\ peer \in [Pid -> Pid \cup {NULL}]
    /\ code \in [Pid -> Code \cup {0}]
    /\ status \in [Pid -> Code \cup {0}]
    /\ parentPID \in [Pid -> Pid]
    /\ exited \in [Pid -> BOOLEAN]
    /\ exitcode \in [Pid -> Code \cup {0}]
    /\ waiting \in [Pid -> BOOLEAN]
    /\ exitpermission \in [Pid -> Pid \cup {NULL}]
    /\ menusleep \in {Menu, NULL}
    /\ menuth \in Pid \cup {NULL}
    /\ noprocesses \in 1..2

\* A process is exiting and has woken those who waited for it, or has exited.
HasExited(p) == pc[p] \in {"x_release", "x_exited", "x_code", "thread_exit", "dead", "gone"}

\* waitpid never gets past its wait, nor past its test of the exited flag, for
\* a process that is still running (sys_waitpid waits once, without a loop).
WaitOnlyAfterExit ==
    \A p \in Pid :
        pc[p] \in {"w_fast", "w_relock", "w_release", "w_code", "w_mark", "w_return"}
            => HasExited(peer[p])

\* "This should always be able to be acquired" (sys_waitpid): whoever holds an
\* exitpermission, or the menu's lock, is awake and about to give it up.
LockOwnerAwake ==
    /\ \A q \in Pid : exitpermission[q] # NULL =>
           LET p == exitpermission[q] IN
           \/ p = q /\ pc[p] \in {"x_broadcast", "x_release"}
           \/ p # q /\ peer[p] = q /\ pc[p] \in {"w_wait", "w_release"}
    /\ menusleep # NULL => pc[Menu] \in {"m_wait", "m_release"}

\* The menu reads its next command only when the program it started is over:
\* the program's thread uses the argument array that the menu would overwrite
\* (common_prog, cmd_progthread, thread_exit).
MenuWaitsForProgram ==
    pc[Menu] = "prompt" /\ peer[Menu] # NULL => pc[peer[Menu]] \in {"dead", "gone"}

\* A process that calls _exit gets to its end, however many others lock its
\* exitpermission to wait for it.
ExitCompletes ==
    \A p \in Pid : pc[p] = "x_lock" ~> pc[p] \in {"dead", "gone"}

-----------------------------------------------------------------------------
(***************************************************************************)
(* What the documentation says and the code does not do                    *)
(***************************************************************************)
\* "If that process has exited already, waitpid returns immediately"
\* (waitpid.html): a waitpid for a process that is dead returns.
WaitReturns ==
    \A p, q \in Pid :
        (pc[p] \in WaitPC /\ peer[p] = q /\ pc[q] = "dead") ~> pc[p] \notin WaitPC

\* "Wait for the process specified by pid to exit, and return its exit code in
\* the integer pointed to by status" (waitpid.html).
StatusIsExitCode ==
    \A p \in Pid : pc[p] = "w_return" => status[p] = code[peer[p]]

\* "Then loop prompting for commands" (menu): once its program is over, the
\* menu prompts again.
MenuPrompts == (menuth # NULL /\ pc[menuth] = "dead") ~> pc[Menu] = "prompt"

\* The thread structure thread_fork hands back is to be used "only with
\* caution, because in general the child thread might exit at any time"
\* (thread.h): sys_fork does not read it once it has been freed.
ForkUsesLiveChild ==
    \A p \in Pid : pc[p] = "f_parent" => pc[peer[p]] # "gone"

=============================================================================

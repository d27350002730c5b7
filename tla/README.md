# MIPS-OS: a TLA+ verification project

MIPS-OS is an OS/161 kernel for one MIPS processor: kernel threads with a
round-robin scheduler, semaphores, locks and condition variables, two
synchronisation problems (stoplight, cats and mice), processes with `fork`,
`waitpid` and `_exit`, virtual memory, device drivers and a small filesystem.
This directory models its concurrent core, model-checks it with TLC and proves
the main results with TLAPS. Paths below are relative to `src/os161/`.

## Inventory

| Part | Code | State | Operations | What makes it hard |
|---|---|---|---|---|
| Synchronisation primitives | `thread/synch.c` | owner of a lock, count of a semaphore | `P` `V` `lock_*` `cv_*` | lost wakeups, barging between a wakeup and the retry |
| Threads, scheduler, clock | `thread/{thread,scheduler,hardclock}.c` | run queue, sleepers, zombies, `numthreads` | fork, yield, sleep, wakeup, exit, tick | preemption, idling, threads freed late |
| Space of the lists | `kern/lib/{array,queue}.c`, `thread/thread.c` | sizes of arrays and ring | preallocation, growth, shrinking | allocation in code that must not fail |
| Stoplight | `kern/asst1/stoplight.c` | ten locks | three turns from four directions | hold-and-wait on a circle |
| Cats and mice | `kern/asst1/catsem.c`, `thread/synch.c` | two extended semaphores | `Pcat` `Pmouse` `Vcat` `Vmouse` | waiting for two bowls, sleeping on one |
| Processes, menu | `kern/arch/mips/mips/syscall.c`, `kern/main/menu.c` | process table, menu's lock | `fork` `waitpid` `_exit`, running a program | unlocked flags, waits without a condition |
| Virtual memory | `kern/vm/addrspace.c` | coremap, page tables, TLB | page allocation, faults, copy | partial failure |
| Kernel heap, bitmap | `kern/lib/{kheap,bitmap}.c` | free lists, bits | allocate, free | sequences of calls |
| Disk, SFS | `kern/dev/lamebus/lhd.c`, `kern/fs/sfs` | device registers, vnode table | I/O with interrupts, retries, reclaim | retry of a half-done write, reclaim against lookup |
| VFS | `kern/fs/vfs` | device list, reference counts | mount, lookup, decref | reference counts across unlocks |
| Console, serial, LAMEbus | `kern/dev` | one-character buffers | interrupts | characters lost between interrupts |
| Traps, start-up, userland | `kern/arch`, `kern/main`, `bin`, `testbin` | | | mostly sequential |

The parts interact through the primitives: everything that blocks does so in
`thread_sleep`, and everything at `splhigh` is atomic on the one processor until
it switches. This gives the models their grain: a section at `splhigh` is one
step, cut at `mi_switch`; other code is cut at each access to shared state.

## Modules

* **SynchContract** is what `kern/include/synch.h` promises: atomic semaphores
  and locks, and condition variables with Mesa semantics.
* **Synch** is `synch.c` with its sleep-and-retry loops over a sleep queue seen
  only as the address each thread sleeps on. `op` and `arg` record the call a
  thread is blocked in.
* **Threads** is `thread.c`, `scheduler.c` and `hardclock.c` with their lists. A
  step that leaves the processor sets `curthread` to NULL; `scheduler` picks the
  next thread and runs `exorcise` when that thread has run before.
* **SynchThreads** composes the two. `V` may also come from an interrupt.
* **ThreadSpace** keeps only the sizes of the lists, the kind of each thread
  (new threads start without `exorcise`) and failing allocations.
* **Stoplight**: the three turn functions differ only in the number of regions,
  so one set of actions stands for all twelve ways. Locks are atomic, which the
  refinement of SynchContract justifies.
* **CatMouse**: `catsem` and `mousesem` with the extended semaphores.
* **Process**: `fork`, `waitpid`, `_exit`, the table filled by `thread_create`,
  and the menu. `pc` names the statement each process is about to execute. When
  `sys_fork` reads a thread structure that has been freed, the pid it finds is
  any pid.
* ***Proofs** modules hold the theorems, **MC*** modules the instances.

Operators with a suffix (`P_TestedOnce`, `Leave_KeepsRegion`) are faulty variants
of the definition they precede; no specification uses them. Putting one in place
of its original makes the property it is paired with in PROJECT.json fail.

## Runs that pass

| Run | Checks | Bounds |
|---|---|---|
| `synch` | types; no lost wakeup; SynchContract is implemented | 3 threads, 2 locks, 1 semaphore (count to 2), 1 cv |
| `synch_threads` | every live thread on exactly one list; `numthreads` is right; Synch is implemented; a runnable thread runs; `clocksleep` returns | boot thread and 2 more, 1 lock, 1 semaphore (count to 1), 1 cv, 2 ticks a second, sleeps of up to 2 seconds |
| `stoplight` | exclusion, two cars inside, entrance locks uncontended, no gridlock, all cars leave | 3 cars, any directions and turns |
| `catmouse` | cats and mice apart, one animal at a bowl, some animal finishes | 2 cats, 2 mice |
| `process` | no `waitpid` ends early, no lock is held asleep, the menu's arguments stay, `_exit` completes | menu and 3 processes |
| `thread_space` | going to sleep never allocates; preallocated space is kept | up to 6 threads, 4 zombies, ring of 4, arrays freed above 5 |

Why these sizes: a lost wakeup needs a holder, a sleeper and a barger (three
threads); a third car is the first the gates must keep out; an early end of
`waitpid` needs a waiter, its target and a third process; three processes also fill the
table. In `thread_space` the constants 32 and 16 of the code are made small so
that growth and freeing happen. Deadlock checking is off where the system may
really stop: in `synch` all threads may wait on each other's locks, animals
finish or are stranded, processes may wait for ever, and a failed kernel
assertion ends `thread_space`.

**Fairness.** The timer holds its interrupt line until served, so a tick is
taken if interrupts are enabled again and again: strong fairness of `hardclock`.
Code at `splhigh` and `scheduler` run on: weak fairness. From `RunnableRuns` the
higher modules take weak fairness of each thread's kernel steps. Nothing is
assumed of user programs or of the user at the menu.

## Where code and documentation disagree

Each of these runs checks one sentence of the documentation and TLC finds the
code doing otherwise; PROJECT.json quotes the lines.

* `catmouse_stranded`: an animal that sleeps on its bowl because of a foe at the
  other bowl is not woken when the foe leaves that bowl.
* `process_wait`: `waitpid` tests `exited`, then waits unconditionally; the
  broadcast can fall in between.
* `process_status`: the exit code is stored after the waiters are woken.
* `process_menu`: the menu waits for a program that has already ended.
* `process_fork`: `sys_fork` reads the child's thread structure after the child
  may have been freed.
* `thread_space_zombies`: a chain of new threads that fork and exit outgrows the
  zombies array, as only resumed threads empty it.

Noted from reading the code, without a run:

* `lock_release`'s comment says it "wakes up one" sleeper
  (`thread/synch.c:239`), but `thread_wakeup` wakes all.
* The entrance locks, meant to let "the first car in the S entrance" go first
  (`kern/asst1/stoplight.c:133`), are never contended (`EntranceUncontended`), so
  they order nothing.
* An animal has four meals, not the three of `kern/asst1/catsem.c:135`, as the
  limit is tested after every two.
* A ring of n elements holds n - 1 (`kern/lib/queue.c:98`), so with n threads
  `make_runnable` must allocate, against `thread/scheduler.c:36`.
* No statement gives a process-table entry back
  (`kern/arch/mips/mips/syscall.c:391` says one should), and two children of one
  parent can wait for each other.

## Proofs

All for every value of the constants, from the named ASSUMEs (objects have
distinct addresses, NULL is none of them; the table has at least two entries).

* **SynchProofs.** `NoLostWakeup` is not inductive: it needs that a thread sleeps
  only inside a call on that call's object (`SleepInCall`) and does not own the
  lock it waits for (`WaiterNotOwner`). From the invariant, each step maps to a
  step or a stutter of SynchContract (`SynchImplementsContract`).
* **StoplightProofs.** The strengthening `OwnersAgree` says that each lock's owner
  is the car whose position entails it. Exclusion follows at once. Gridlock is
  excluded because all cars go round the four regions the same way and only two
  are inside, so they cannot each be one region ahead of the other.
* **CatMouseProofs.** `BowlsAgree`: counts and flags agree with who is eating.
* **ProcessProofs.** The invariant adds who waits for whom, that each fork has an
  embryo of its own, that the `exited` flag comes after the broadcast, and that
  the menu's program is the one it last started. One lemma per action.

Only model-checked: all liveness; the refinement of Synch by SynchThreads and the
list invariants (they speak of sequences and cardinalities); ThreadSpace (its size
functions are recursive operators).

## Abstractions and what is left out

* Creation and destruction of primitives, panic shutdown, and the error codes of
  failing calls (`fork` fails with -1 rather than an error number).
* `menuth` is compared by identity; that a later thread structure may be
  allocated at the freed address of an earlier program's is not modelled.
* A second `stoplight` command replaces the locks while cars of the first hold
  them; the model has one generation of cars.
* A fatal trap in user mode panics the kernel, so no process ends that way.
* `catlock.c` has empty thread bodies. `runprogram`, `uio` and libc are not in
  the repository's kernel sources and count as external.

## Plan

1. Ring buffer and array contents (`queue.c`, `array.c`) refining a sequence,
   with proofs; bitmap.
2. **Coremap**: `getppages`, freeing, `vm_fault`, `as_copy`, interrupt levels.
3. **Disk**: `lhd_io` with its interrupt handler over Synch, `sfs_rwblock`
   retries. **Console**: input and output buffers.
4. **VnodeRef**: `vnode_decref`, `sfs_reclaim`, `sfs_loadvnode`, emufs; then SFS
   block allocation and link counts, the VFS device list.
5. Kernel heap, LAMEbus interrupt dispatch, two generations of cars.
6. Proofs: OnOneList for Threads, the ring's refinement, the coremap's and the
   reference counts' invariants.

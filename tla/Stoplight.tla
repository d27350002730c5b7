----------------------------- MODULE Stoplight -----------------------------
(***************************************************************************)
(* The stoplight problem (kern/asst1/stoplight.c): cars cross an           *)
(* intersection of four regions.  A car takes one of two gate locks (car1  *)
(* for north and south, car2 for east and west), the lock of its entrance, *)
(* and then the lock of each region on its way before it gives up the      *)
(* lock behind it.  A lock is what module SynchContract says it is.        *)
(***************************************************************************)
EXTENDS Naturals

CONSTANTS
    Car,    \* the NCARS threads started by createcars
    NULL    \* no owner

ASSUME CarAssumption == NULL \notin Car

Dir == {"N", "E", "S", "W"}

\* What turnright, gostraight and turnleft have in common: the number of
\* regions the car passes through.
Turn == 1..3

RegionLock == {"NW", "SW", "SE", "NE"}
GateLock == {"car1", "car2"}
Lock == RegionLock \cup GateLock \cup Dir

\* The lock each direction takes to enter the intersection.
Gate(d) == IF d \in {"N", "S"} THEN "car1" ELSE "car2"

\* The regions on the way from each direction, in order.
Region(d, k) ==
    LET way == [N |-> <<"NW", "SW", "SE">>, W |-> <<"SW", "SE", "NE">>,
                S |-> <<"SE", "NE", "NW">>, E |-> <<"NE", "NW", "SW">>]
    IN  way[d][k]

VARIABLES
    owner,  \* the owner of each lock
    pc,     \* what each car does next
    dir,    \* the direction it comes from
    turn,   \* the number of regions it passes through
    at      \* how many regions it has entered so far

vars == <<owner, pc, dir, turn, at>>

\* start: the thread has been forked.  gate, entrance, region: to take that
\* lock.  behind: in a new region, to release the lock behind it.  leave: to
\* release the last region.  out: to release the gate.  done: thread_exit.
PC == {"start", "gate", "entrance", "region", "behind", "leave", "out", "done"}

\* initialize and createcars
Init ==
    /\ owner = [l \in Lock |-> NULL]
    /\ pc = [c \in Car |-> "start"]
    /\ dir \in [Car -> Dir]
    /\ turn \in [Car -> Turn]
    /\ at = [c \in Car |-> 0]

lock_acquire(c, l) == owner[l] = NULL /\ owner' = [owner EXCEPT ![l] = c]
lock_release(c, l) == owner[l] = c /\ owner' = [owner EXCEPT ![l] = NULL]

Goto(c, next) == pc' = [pc EXCEPT ![c] = next]

-----------------------------------------------------------------------------
\* approachintersection: random() gives a direction and a turn.  Nothing reads
\* them before this step, so they are chosen in Init.
approachintersection(c) ==
    /\ pc[c] = "start"
    /\ Goto(c, "gate")
    /\ UNCHANGED <<owner, dir, turn, at>>

TakeGate(c) ==
    /\ pc[c] = "gate"
    /\ lock_acquire(c, Gate(dir[c]))
    /\ Goto(c, "entrance")
    /\ UNCHANGED <<dir, turn, at>>

\* Faulty variant: the gate is given up as soon as the entrance is reached.
TakeEntrance_FreesGate(c) ==
    /\ pc[c] = "entrance"
    /\ owner[dir[c]] = NULL
    /\ owner' = [owner EXCEPT ![dir[c]] = c, ![Gate(dir[c])] = NULL]
    /\ Goto(c, "region")
    /\ UNCHANGED <<dir, turn, at>>

TakeEntrance(c) ==
    /\ pc[c] = "entrance"
    /\ lock_acquire(c, dir[c])
    /\ Goto(c, "region")
    /\ UNCHANGED <<dir, turn, at>>

\* Faulty variant: a car turning right does not take the lock.
EnterRegion_RightUnlocked(c) ==
    /\ pc[c] = "region"
    /\ \/ lock_acquire(c, Region(dir[c], at[c] + 1))
       \/ turn[c] = 1 /\ UNCHANGED owner
    /\ at' = [at EXCEPT ![c] = @ + 1]
    /\ Goto(c, "behind")
    /\ UNCHANGED <<dir, turn>>

EnterRegion(c) ==
    /\ pc[c] = "region"
    /\ lock_acquire(c, Region(dir[c], at[c] + 1))
    /\ at' = [at EXCEPT ![c] = @ + 1]
    /\ Goto(c, "behind")
    /\ UNCHANGED <<dir, turn>>

\* Faulty variant: the entrance is not released.
ReleaseBehind_KeepsEntrance(c) ==
    /\ pc[c] = "behind"
    /\ IF at[c] = 1 THEN UNCHANGED owner
                    ELSE lock_release(c, Region(dir[c], at[c] - 1))
    /\ Goto(c, IF at[c] < turn[c] THEN "region" ELSE "leave")
    /\ UNCHANGED <<dir, turn, at>>

\* Faulty variant: one region too many.
ReleaseBehind_TooFar(c) ==
    /\ pc[c] = "behind"
    /\ lock_release(c, IF at[c] = 1 THEN dir[c] ELSE Region(dir[c], at[c] - 1))
    /\ Goto(c, IF at[c] <= turn[c] THEN "region" ELSE "leave")
    /\ UNCHANGED <<dir, turn, at>>

ReleaseBehind(c) ==
    /\ pc[c] = "behind"
    /\ lock_release(c, IF at[c] = 1 THEN dir[c] ELSE Region(dir[c], at[c] - 1))
    /\ Goto(c, IF at[c] < turn[c] THEN "region" ELSE "leave")
    /\ UNCHANGED <<dir, turn, at>>

\* Faulty variant: the last region is not released.
Leave_KeepsRegion(c) ==
    /\ pc[c] = "leave"
    /\ Goto(c, "out")
    /\ UNCHANGED <<owner, dir, turn, at>>

Leave(c) ==
    /\ pc[c] = "leave"
    /\ lock_release(c, Region(dir[c], at[c]))
    /\ Goto(c, "out")
    /\ UNCHANGED <<dir, turn, at>>

ReleaseGate(c) ==
    /\ pc[c] = "out"
    /\ lock_release(c, Gate(dir[c]))
    /\ Goto(c, "done")
    /\ UNCHANGED <<dir, turn, at>>

\* gostraight, turnleft and turnright, which differ in the number of regions.
Drive(c) ==
    \/ approachintersection(c)
    \/ TakeGate(c) \/ TakeEntrance(c) \/ EnterRegion(c)
    \/ ReleaseBehind(c) \/ Leave(c) \/ ReleaseGate(c)

AllDone == \A c \in Car : pc[c] = "done"

Next == (\E c \in Car : Drive(c)) \/ (AllDone /\ UNCHANGED vars)

Spec == Init /\ [][Next]_vars

\* A car whose lock stays free gets it: no wakeup is lost (module Synch) and
\* every runnable thread runs (module SynchThreads).
FairSpec == Spec /\ \A c \in Car : WF_vars(Drive(c))

-----------------------------------------------------------------------------
(***************************************************************************)
(* Properties                                                              *)
(***************************************************************************)
\* The type of the state; a car enters as many regions as its turn has and no
\* more.
TypeOK ==
    /\ owner \in [Lock -> Car \cup {NULL}]
    /\ pc \in [Car -> PC]
    /\ dir \in [Car -> Dir]
    /\ turn \in [Car -> Turn]
    /\ at \in [Car -> 0..3]
    /\ \A c \in Car :
          /\ pc[c] \in {"start", "gate", "entrance"} => at[c] = 0
          /\ pc[c] = "region" => at[c] < turn[c]
          /\ pc[c] = "behind" => at[c] \in 1..turn[c]
          /\ pc[c] \in {"leave", "out", "done"} => at[c] = turn[c]

\* A car is between its gate lock's acquisition and its release.
Inside(c) == pc[c] \in {"entrance", "region", "behind", "leave", "out"}

\* The regions a car is in: the one it entered last, until it leaves, and the
\* one behind it until it releases that.
In(c, r) ==
    \/ pc[c] \in {"region", "behind", "leave"} /\ at[c] > 0 /\ r = Region(dir[c], at[c])
    \/ pc[c] = "behind" /\ at[c] > 1 /\ r = Region(dir[c], at[c] - 1)

\* No two cars are ever in the same region, whatever their directions, turns
\* and speed.
RegionExclusion ==
    \A c, d \in Car, r \in RegionLock : In(c, r) /\ In(d, r) => c = d

\* At most two cars are inside ("trying to enter the intersection, restricted
\* to 2 cars"): of any three, two are the same.
AtMostTwoInside ==
    \A a, b, c \in Car : Inside(a) /\ Inside(b) /\ Inside(c) => a = b \/ b = c \/ a = c

\* The entrance locks never make a car wait: the gate lock above them already
\* admits one car from each pair of directions.
EntranceUncontended ==
    \A c \in Car : pc[c] = "entrance" => owner[dir[c]] = NULL

\* The lock a car needs for its next step, if any, is free.
CanMove(c) ==
    /\ pc[c] # "done"
    /\ pc[c] = "gate" => owner[Gate(dir[c])] = NULL
    /\ pc[c] = "entrance" => owner[dir[c]] = NULL
    /\ pc[c] = "region" => owner[Region(dir[c], at[c] + 1)] = NULL

\* Cars holding a region and waiting for the next never wait in a circle:
\* until all have gone, some car can move.
NoGridlock == AllDone \/ \E c \in Car : CanMove(c)

\* Every car leaves the intersection.
AllLeave == <>AllDone

=============================================================================

-------------------------- MODULE StoplightProofs --------------------------
(***************************************************************************)
(* For any number of cars, the locking order of stoplight.c keeps cars out *)
(* of each other's regions, admits two cars and cannot gridlock.           *)
(***************************************************************************)
EXTENDS Stoplight, TLAPS

\* The regions in the order every car passes through them.
Succ(r) == IF r = "NW" THEN "SW" ELSE IF r = "SW" THEN "SE"
           ELSE IF r = "SE" THEN "NE" ELSE "NW"

\* Every way follows the same circle of regions (the literals of gostraight,
\* turnleft and turnright).
LEMMA RegionFacts ==
    \A d \in Dir : /\ \A k \in 1..3 : Region(d, k) \in RegionLock
                   /\ Region(d, 2) = Succ(Region(d, 1))
                   /\ Region(d, 3) = Succ(Region(d, 2))
BY DEF Dir, Region, RegionLock, Succ

\* Two cars that follow the circle cannot each be one region ahead of the
\* other: the circle has four regions.
LEMMA NoTwoCycle ==
    \A r \in RegionLock : Succ(r) \in RegionLock /\ Succ(r) # r /\ Succ(Succ(r)) # r
BY DEF RegionLock, Succ

\* A car's locks, as its position in the program determines them.
Holds(c, l) ==
    \/ l = Gate(dir[c]) /\ Inside(c)
    \/ /\ l = dir[c]
       /\ (pc[c] = "region" /\ at[c] = 0) \/ (pc[c] = "behind" /\ at[c] = 1)
    \/ l \in RegionLock /\ In(c, l)

\* The owner field of every lock agrees with the positions of the cars.
OwnersAgree == \A c \in Car, l \in Lock : owner[l] = c <=> Holds(c, l)

IndInv == TypeOK /\ OwnersAgree

\* Initially no car is inside and every lock is free (initialize, createcars).
LEMMA InitIndInv == Init => IndInv
BY CarAssumption DEF Init, IndInv, TypeOK, OwnersAgree, Holds, Inside, In,
   Lock, RegionLock, GateLock, Dir, Turn, PC, Gate

\* Kinds of locks, so that no leaf needs the literals.
LEMMA LockFacts ==
    /\ \A d \in Dir : /\ Gate(d) \in Lock /\ d \in Lock /\ Gate(d) # d
                      /\ d \notin RegionLock /\ Gate(d) \notin RegionLock
                      /\ \A e \in Dir : Gate(d) # e
    /\ RegionLock \subseteq Lock
BY DEF Lock, RegionLock, GateLock, Dir, Gate

\* A step of car c moves no other car, so it changes what no other car holds.
LEMMA OthersUnmoved ==
    ASSUME TypeOK, NEW c \in Car, NEW b \in Car, b # c, NEW next,
           Goto(c, next), UNCHANGED <<dir, turn>>,
           at' = at \/ at' = [at EXCEPT ![c] = @ + 1]
    PROVE  \A l : Holds(b, l)' <=> Holds(b, l)
BY DEF TypeOK, Goto, Holds, Inside, In

\* Taking a free lock keeps the owners in agreement when the position of the
\* car says that it now holds that lock and nothing else changed for it.
LEMMA AcquireAgrees ==
    ASSUME IndInv, NEW c \in Car, NEW l \in Lock, lock_acquire(c, l),
           \A b \in Car \ {c}, m \in Lock : Holds(b, m)' <=> Holds(b, m),
           \A m \in Lock : Holds(c, m)' <=> Holds(c, m) \/ m = l
    PROVE  OwnersAgree'
BY CarAssumption DEF IndInv, TypeOK, OwnersAgree, lock_acquire

\* The same for releasing a lock the car holds.
LEMMA ReleaseAgrees ==
    ASSUME IndInv, NEW c \in Car, NEW l \in Lock, lock_release(c, l),
           \A b \in Car \ {c}, m \in Lock : Holds(b, m)' <=> Holds(b, m),
           \A m \in Lock : Holds(c, m)' <=> Holds(c, m) /\ m # l
    PROVE  OwnersAgree'
BY CarAssumption DEF IndInv, TypeOK, OwnersAgree, lock_release

\* Every step of every car preserves the invariant.
LEMMA NextIndInv == IndInv /\ [Next]_vars => IndInv'
<1> SUFFICES ASSUME IndInv, [Next]_vars PROVE IndInv'
  OBVIOUS
<1>0. TypeOK /\ OwnersAgree
  BY DEF IndInv
<1>1. ASSUME NEW c \in Car, approachintersection(c) PROVE IndInv'
  <2>1. TypeOK'
    BY <1>0, <1>1 DEF TypeOK, PC, Turn, Goto, approachintersection
  <2>2. OwnersAgree'
    BY <1>0, <1>1 DEF TypeOK, OwnersAgree, Holds, Inside, In, Goto, approachintersection
  <2> QED BY <2>1, <2>2 DEF IndInv
<1>2. ASSUME NEW c \in Car, TakeGate(c) PROVE IndInv'
  <2> DEFINE l == Gate(dir[c])
  <2>1. l \in Lock
    BY <1>0, <1>2, LockFacts, RegionFacts DEF TypeOK, Turn, TakeGate
  <2>2. lock_acquire(c, l)
    BY <1>2 DEF TakeGate
  <2>3. TypeOK'
    <3>1. owner' \in [Lock -> Car \cup {NULL}]
      BY <1>0, <2>1, <2>2 DEF TypeOK, lock_acquire
    <3> QED BY <1>0, <1>2, <3>1 DEF TypeOK, PC, Turn, Goto, TakeGate
  <2>4. \A b \in Car \ {c}, m \in Lock : Holds(b, m)' <=> Holds(b, m)
    BY <1>0, <1>2, OthersUnmoved DEF TakeGate
  <2>5. \A m \in Lock : Holds(c, m)' <=> Holds(c, m) \/ m = l
    BY <1>0, <1>2, LockFacts, RegionFacts, NoTwoCycle
       DEF TypeOK, PC, Turn, Goto, Holds, Inside, In, TakeGate
  <2> HIDE DEF l
  <2>6. OwnersAgree'
    BY <2>1, <2>2, <2>4, <2>5, AcquireAgrees
  <2> QED BY <2>3, <2>6 DEF IndInv
<1>3. ASSUME NEW c \in Car, TakeEntrance(c) PROVE IndInv'
  <2> DEFINE l == dir[c]
  <2>1. l \in Lock
    BY <1>0, <1>3, LockFacts, RegionFacts DEF TypeOK, Turn, TakeEntrance
  <2>2. lock_acquire(c, l)
    BY <1>3 DEF TakeEntrance
  <2>3. TypeOK'
    <3>1. owner' \in [Lock -> Car \cup {NULL}]
      BY <1>0, <2>1, <2>2 DEF TypeOK, lock_acquire
    <3> QED BY <1>0, <1>3, <3>1 DEF TypeOK, PC, Turn, Goto, TakeEntrance
  <2>4. \A b \in Car \ {c}, m \in Lock : Holds(b, m)' <=> Holds(b, m)
    BY <1>0, <1>3, OthersUnmoved DEF TakeEntrance
  <2>5. \A m \in Lock : Holds(c, m)' <=> Holds(c, m) \/ m = l
    BY <1>0, <1>3, LockFacts, RegionFacts, NoTwoCycle
       DEF TypeOK, PC, Turn, Goto, Holds, Inside, In, TakeEntrance
  <2> HIDE DEF l
  <2>6. OwnersAgree'
    BY <2>1, <2>2, <2>4, <2>5, AcquireAgrees
  <2> QED BY <2>3, <2>6 DEF IndInv
<1>4. ASSUME NEW c \in Car, EnterRegion(c) PROVE IndInv'
  <2> DEFINE l == Region(dir[c], at[c] + 1)
  <2>1. l \in Lock
    BY <1>0, <1>4, LockFacts, RegionFacts DEF TypeOK, Turn, EnterRegion
  <2>2. lock_acquire(c, l)
    BY <1>4 DEF EnterRegion
  <2>3. TypeOK'
    <3>1. owner' \in [Lock -> Car \cup {NULL}]
      BY <1>0, <2>1, <2>2 DEF TypeOK, lock_acquire
    <3> QED BY <1>0, <1>4, <3>1 DEF TypeOK, PC, Turn, Goto, EnterRegion
  <2>4. \A b \in Car \ {c}, m \in Lock : Holds(b, m)' <=> Holds(b, m)
    BY <1>0, <1>4, OthersUnmoved DEF EnterRegion
  <2>5. \A m \in Lock : Holds(c, m)' <=> Holds(c, m) \/ m = l
    BY <1>0, <1>4, LockFacts, RegionFacts, NoTwoCycle
       DEF TypeOK, PC, Turn, Goto, Holds, Inside, In, EnterRegion
  <2> HIDE DEF l
  <2>6. OwnersAgree'
    BY <2>1, <2>2, <2>4, <2>5, AcquireAgrees
  <2> QED BY <2>3, <2>6 DEF IndInv
<1>5. ASSUME NEW c \in Car, ReleaseBehind(c) PROVE IndInv'
  <2> DEFINE l == (IF at[c] = 1 THEN dir[c] ELSE Region(dir[c], at[c] - 1))
  <2>1. l \in Lock
    BY <1>0, <1>5, LockFacts, RegionFacts DEF TypeOK, Turn, ReleaseBehind
  <2>2. lock_release(c, l)
    BY <1>5 DEF ReleaseBehind
  <2>3. TypeOK'
    <3>1. owner' \in [Lock -> Car \cup {NULL}]
      BY <1>0, <2>1, <2>2 DEF TypeOK, lock_release
    <3> QED BY <1>0, <1>5, <3>1 DEF TypeOK, PC, Turn, Goto, ReleaseBehind
  <2>4. \A b \in Car \ {c}, m \in Lock : Holds(b, m)' <=> Holds(b, m)
    BY <1>0, <1>5, OthersUnmoved DEF ReleaseBehind
  <2>5. \A m \in Lock : Holds(c, m)' <=> Holds(c, m) /\ m # l
    BY <1>0, <1>5, LockFacts, RegionFacts, NoTwoCycle
       DEF TypeOK, PC, Turn, Goto, Holds, Inside, In, ReleaseBehind
  <2> HIDE DEF l
  <2>6. OwnersAgree'
    BY <2>1, <2>2, <2>4, <2>5, ReleaseAgrees
  <2> QED BY <2>3, <2>6 DEF IndInv
<1>6. ASSUME NEW c \in Car, Leave(c) PROVE IndInv'
  <2> DEFINE l == Region(dir[c], at[c])
  <2>1. l \in Lock
    BY <1>0, <1>6, LockFacts, RegionFacts DEF TypeOK, Turn, Leave
  <2>2. lock_release(c, l)
    BY <1>6 DEF Leave
  <2>3. TypeOK'
    <3>1. owner' \in [Lock -> Car \cup {NULL}]
      BY <1>0, <2>1, <2>2 DEF TypeOK, lock_release
    <3> QED BY <1>0, <1>6, <3>1 DEF TypeOK, PC, Turn, Goto, Leave
  <2>4. \A b \in Car \ {c}, m \in Lock : Holds(b, m)' <=> Holds(b, m)
    BY <1>0, <1>6, OthersUnmoved DEF Leave
  <2>5. \A m \in Lock : Holds(c, m)' <=> Holds(c, m) /\ m # l
    BY <1>0, <1>6, LockFacts, RegionFacts, NoTwoCycle
       DEF TypeOK, PC, Turn, Goto, Holds, Inside, In, Leave
  <2> HIDE DEF l
  <2>6. OwnersAgree'
    BY <2>1, <2>2, <2>4, <2>5, ReleaseAgrees
  <2> QED BY <2>3, <2>6 DEF IndInv
<1>7. ASSUME NEW c \in Car, ReleaseGate(c) PROVE IndInv'
  <2> DEFINE l == Gate(dir[c])
  <2>1. l \in Lock
    BY <1>0, <1>7, LockFacts, RegionFacts DEF TypeOK, Turn, ReleaseGate
  <2>2. lock_release(c, l)
    BY <1>7 DEF ReleaseGate
  <2>3. TypeOK'
    <3>1. owner' \in [Lock -> Car \cup {NULL}]
      BY <1>0, <2>1, <2>2 DEF TypeOK, lock_release
    <3> QED BY <1>0, <1>7, <3>1 DEF TypeOK, PC, Turn, Goto, ReleaseGate
  <2>4. \A b \in Car \ {c}, m \in Lock : Holds(b, m)' <=> Holds(b, m)
    BY <1>0, <1>7, OthersUnmoved DEF ReleaseGate
  <2>5. \A m \in Lock : Holds(c, m)' <=> Holds(c, m) /\ m # l
    BY <1>0, <1>7, LockFacts, RegionFacts, NoTwoCycle
       DEF TypeOK, PC, Turn, Goto, Holds, Inside, In, ReleaseGate
  <2> HIDE DEF l
  <2>6. OwnersAgree'
    BY <2>1, <2>2, <2>4, <2>5, ReleaseAgrees
  <2> QED BY <2>3, <2>6 DEF IndInv
<1>8. CASE UNCHANGED vars
  BY <1>0, <1>8 DEF vars, IndInv, TypeOK, OwnersAgree, Holds, Inside, In
<1> QED BY <1>1, <1>2, <1>3, <1>4, <1>5, <1>6, <1>7, <1>8 DEF Next, Drive

\* Whatever the cars do, each lock's owner is a car that is where it needs it.
THEOREM Invariance == Spec => []IndInv
BY InitIndInv, NextIndInv, PTL DEF Spec

\* The type invariant of the intersection, for any number of cars.
THEOREM TypeCorrect == Spec => []TypeOK
BY Invariance, PTL DEF IndInv

\* No two cars are in the same region: what a car is in, it owns the lock of.
THEOREM CarsExcludeEachOther == Spec => []RegionExclusion
<1>1. IndInv => RegionExclusion
  BY LockFacts DEF IndInv, OwnersAgree, Holds, RegionExclusion
<1> QED BY <1>1, Invariance, PTL

\* At most two cars are inside: each owns one of the two gate locks.
THEOREM TwoCarsInside == Spec => []AtMostTwoInside
<1>1. ASSUME IndInv PROVE AtMostTwoInside
  <2>1. \A c \in Car : Inside(c) => owner["car1"] = c \/ owner["car2"] = c
    BY <1>1, LockFacts DEF IndInv, TypeOK, OwnersAgree, Holds, Gate, Lock, GateLock
  <2> QED BY <2>1 DEF AtMostTwoInside
<1> QED BY <1>1, Invariance, PTL

\* No car ever waits for an entrance lock: its owner would own the same gate.
THEOREM EntranceNeverWaits == Spec => []EntranceUncontended
<1>1. ASSUME IndInv PROVE EntranceUncontended
  <2> SUFFICES ASSUME NEW c \in Car, pc[c] = "entrance", NEW b \in Car,
                      owner[dir[c]] = b
               PROVE  FALSE
    BY <1>1, LockFacts DEF EntranceUncontended, IndInv, TypeOK
  <2>0. TypeOK /\ OwnersAgree /\ dir[c] \in Dir /\ dir[b] \in Dir
    BY <1>1 DEF IndInv, TypeOK
  <2>1. Holds(b, dir[c])
    BY <2>0, LockFacts DEF OwnersAgree
  <2>2. dir[b] = dir[c] /\ pc[b] \in {"region", "behind"}
    BY <2>0, <2>1, LockFacts DEF Holds
  <2>3. Holds(b, Gate(dir[c])) /\ Holds(c, Gate(dir[c]))
    BY <2>2 DEF Holds, Inside
  <2>4. b = c
    BY <2>0, <2>3, LockFacts DEF OwnersAgree
  <2> QED BY <2>2, <2>4
<1> QED BY <1>1, Invariance, PTL

\* A car that cannot move although it is inside waits for its next region,
\* and another car inside owns that region.
LEMMA StuckInside ==
    ASSUME IndInv, EntranceUncontended, NEW c \in Car, Inside(c), ~CanMove(c)
    PROVE  /\ pc[c] = "region"
           /\ \E b \in Car : b # c /\ Inside(b) /\ In(b, Region(dir[c], at[c] + 1))
<1> DEFINE r == Region(dir[c], at[c] + 1)
<1>0. TypeOK /\ OwnersAgree
  BY DEF IndInv
<1>1. pc[c] = "region" /\ owner[r] # NULL
  BY <1>0 DEF TypeOK, Inside, CanMove, EntranceUncontended
<1>2. dir[c] \in Dir /\ at[c] \in 0..2 /\ at[c] + 1 \in 1..3
  BY <1>0, <1>1 DEF TypeOK, Turn
<1>3. r \in RegionLock /\ r \in Lock
  BY <1>2, RegionFacts, LockFacts
<1>4. PICK b \in Car : owner[r] = b
  BY <1>0, <1>1, <1>3 DEF TypeOK
<1>5. In(b, r)
  BY <1>0, <1>3, <1>4, LockFacts DEF TypeOK, OwnersAgree, Holds
<1>6. ~In(c, r)
  BY <1>1, <1>2, RegionFacts, NoTwoCycle DEF In
<1>7. Inside(b)
  BY <1>5 DEF In, Inside
<1> QED BY <1>1, <1>5, <1>6, <1>7

\* Two cars that each wait for the region the other is in would be two apart
\* on a circle of four in both directions.
LEMMA NotFacing ==
    ASSUME IndInv, NEW b \in Car, NEW c \in Car, pc[b] = "region", pc[c] = "region",
           In(b, Region(dir[c], at[c] + 1)), In(c, Region(dir[b], at[b] + 1))
    PROVE  FALSE
<1>1. /\ dir[b] \in Dir /\ dir[c] \in Dir
      /\ at[b] \in 1..2 /\ at[c] \in 1..2
  BY DEF IndInv, TypeOK, Turn, In
<1>2. /\ Region(dir[c], at[c] + 1) = Succ(Region(dir[c], at[c]))
      /\ Region(dir[b], at[b] + 1) = Succ(Region(dir[b], at[b]))
      /\ Region(dir[c], at[c]) \in RegionLock
  BY <1>1, RegionFacts
<1>3. /\ Region(dir[b], at[b]) = Succ(Region(dir[c], at[c]))
      /\ Region(dir[c], at[c]) = Succ(Region(dir[b], at[b]))
  BY <1>1, <1>2 DEF In
<1> QED BY <1>2, <1>3, NoTwoCycle

\* Until every car has gone, some car can move: whatever a car waits for
\* belongs to a car inside, at most two are inside, and two cannot wait for
\* each other.
THEOREM NeverGridlocked == Spec => []NoGridlock
<1>1. ASSUME IndInv, EntranceUncontended, AtMostTwoInside, ~NoGridlock PROVE FALSE
  <2>1. \A c \in Car : ~CanMove(c)
    BY <1>1 DEF NoGridlock
  <2>2. PICK c \in Car : pc[c] # "done"
    BY <1>1 DEF NoGridlock, AllDone
  <2>3. PICK a \in Car : Inside(a)
    <3>1. CASE Inside(c)
      BY <3>1
    <3>2. CASE ~Inside(c)
      <4>1. pc[c] = "gate" /\ owner[Gate(dir[c])] # NULL
        BY <1>1, <2>1, <2>2, <3>2 DEF IndInv, TypeOK, PC, Inside, CanMove
      <4>2. dir[c] \in Dir /\ Gate(dir[c]) \in Lock
        BY <1>1, LockFacts DEF IndInv, TypeOK
      <4>3. PICK b \in Car : owner[Gate(dir[c])] = b
        BY <1>1, <4>1, <4>2 DEF IndInv, TypeOK
      <4>4. Holds(b, Gate(dir[c]))
        BY <1>1, <4>2, <4>3 DEF IndInv, OwnersAgree
      <4>5. Inside(b)
        BY <1>1, <4>2, <4>4, LockFacts DEF IndInv, TypeOK, Holds
      <4> QED BY <4>5
    <3> QED BY <3>1, <3>2
  <2>4. pc[a] = "region"
    BY <1>1, <2>1, <2>3, StuckInside
  <2>5. PICK b \in Car : b # a /\ Inside(b) /\ In(b, Region(dir[a], at[a] + 1))
    BY <1>1, <2>1, <2>3, StuckInside
  <2>6. pc[b] = "region"
    BY <1>1, <2>1, <2>5, StuckInside
  <2>7. PICK d \in Car : d # b /\ Inside(d) /\ In(d, Region(dir[b], at[b] + 1))
    BY <1>1, <2>1, <2>5, StuckInside
  <2>8. d = a
    BY <1>1, <2>3, <2>5, <2>7 DEF AtMostTwoInside
  <2> QED BY <1>1, <2>4, <2>5, <2>6, <2>7, <2>8, NotFacing
<1>2. IndInv /\ EntranceUncontended /\ AtMostTwoInside => NoGridlock
  BY <1>1
<1> QED BY <1>2, Invariance, EntranceNeverWaits, TwoCarsInside, PTL

=============================================================================

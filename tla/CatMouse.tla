------------------------------ MODULE CatMouse ------------------------------
(***************************************************************************)
(* The cat and mouse problem (kern/asst1/catsem.c) on the extended         *)
(* semaphores of synch.c.  Cats and mice eat from two bowls; a cat must    *)
(* not eat while a mouse eats.  Pcat and Pmouse wait for their own bowl's  *)
(* count and for a flag of the other bowl, but they sleep on their own     *)
(* bowl only, and Vcat and Vmouse wake the sleepers of their own bowl.     *)
(***************************************************************************)
EXTENDS Naturals

CONSTANTS
    Cat, Mouse,     \* the NCATS catsem threads and the NMICE mousesem threads
    MealLimit       \* the 3 of "while (curthread->iteration < 3)"

ASSUME AnimalAssumption == Cat \cap Mouse = {}
ASSUME MealAssumption == MealLimit \in Nat

Animal == Cat \cup Mouse
Bowl == {1, 2}
Another(b) == 3 - b

VARIABLES
    count,      \* the count of each bowl's semaphore
    occupied,   \* the flags isOccupiedByCat and isOccupiedByMice that are set
    iteration,  \* t->iteration: the meals a thread has had
    pc          \* "hungry", "asleep", "eating" or "done"

vars == <<count, occupied, iteration, pc>>

\* catmousesem
Init ==
    /\ count = [b \in Bowl |-> 1]
    /\ occupied = [b \in Bowl |-> {}]
    /\ iteration = [a \in Animal |-> 0]
    /\ pc = [a \in Animal |-> "hungry"]

Even(n) == n % 2 = 0

\* The bowl of an animal's next meal: a cat starts with bowl 2, a mouse with
\* bowl 1, and both then alternate.
BowlOf(a) == IF Even(iteration[a]) <=> a \in Cat THEN 2 ELSE 1

Goto(a, next) == pc' = [pc EXCEPT ![a] = next]

\* The body of Pcat and Pmouse on the bowl b: sleep while the bowl is taken or
\* the other bowl is occupied by a foe, then occupy it.
Take(a, me, foe) ==
    LET b == BowlOf(a)
    IN  /\ pc[a] = "hungry"
        /\ IF count[b] = 0 \/ foe \in occupied[Another(b)]
           THEN Goto(a, "asleep") /\ UNCHANGED <<count, occupied>>
           ELSE /\ occupied' = [occupied EXCEPT ![b] = @ \cup {me}]
                /\ count' = [count EXCEPT ![b] = @ - 1]
                /\ Goto(a, "eating")
        /\ UNCHANGED iteration

\* Faulty variant: the flag of the wanted bowl is tested, not the other's.
Pcat_SameBowl(a) ==
    LET b == BowlOf(a)
    IN  /\ a \in Cat
        /\ pc[a] = "hungry"
        /\ IF count[b] = 0 \/ "mouse" \in occupied[b]
           THEN Goto(a, "asleep") /\ UNCHANGED <<count, occupied>>
           ELSE /\ occupied' = [occupied EXCEPT ![b] = @ \cup {"cat"}]
                /\ count' = [count EXCEPT ![b] = @ - 1]
                /\ Goto(a, "eating")
        /\ UNCHANGED iteration

\* Faulty variant: the count is not taken down.
Pcat_Uncounted(a) ==
    LET b == BowlOf(a)
    IN  /\ a \in Cat
        /\ pc[a] = "hungry"
        /\ IF count[b] = 0 \/ "mouse" \in occupied[Another(b)]
           THEN Goto(a, "asleep") /\ UNCHANGED <<count, occupied>>
           ELSE /\ occupied' = [occupied EXCEPT ![b] = @ \cup {"cat"}]
                /\ Goto(a, "eating")
                /\ UNCHANGED count
        /\ UNCHANGED iteration

Pcat(a) == a \in Cat /\ Take(a, "cat", "mouse")

Pmouse(a) == a \in Mouse /\ Take(a, "mouse", "cat")

\* After a meal the loop goes round if it was at the first bowl of a pair or
\* if fewer than MealLimit meals have been had.
Finished(n) == Even(n) /\ n >= MealLimit

\* The body of Vcat and Vmouse, the waking of the bowl's sleepers, and
\* iteration++.
Leave(a, me) ==
    LET b == BowlOf(a)
    IN  /\ pc[a] = "eating"
        /\ count' = [count EXCEPT ![b] = @ + 1]
        /\ occupied' = [occupied EXCEPT ![b] = @ \ {me}]
        /\ iteration' = [iteration EXCEPT ![a] = @ + 1]
        /\ pc' = [x \in Animal |->
                     IF x = a THEN IF Finished(iteration[a] + 1) THEN "done" ELSE "hungry"
                     ELSE IF pc[x] = "asleep" /\ BowlOf(x) = b THEN "hungry"
                     ELSE pc[x]]

\* Faulty variant: the count is not put back up.
Vcat_Uncounted(a) ==
    LET b == BowlOf(a)
    IN  /\ a \in Cat
        /\ pc[a] = "eating"
        /\ occupied' = [occupied EXCEPT ![b] = @ \ {"cat"}]
        /\ iteration' = [iteration EXCEPT ![a] = @ + 1]
        /\ pc' = [x \in Animal |->
                     IF x = a THEN IF Finished(iteration[a] + 1) THEN "done" ELSE "hungry"
                     ELSE IF pc[x] = "asleep" /\ BowlOf(x) = b THEN "hungry"
                     ELSE pc[x]]
        /\ UNCHANGED count

Vcat(a) == a \in Cat /\ Leave(a, "cat")

Vmouse(a) == a \in Mouse /\ Leave(a, "mouse")

\* One thread: catsem with catEatBowl, or mousesem with mouseEatBowl.
Eat(a) == Pcat(a) \/ Pmouse(a) \/ Vcat(a) \/ Vmouse(a)

AllDone == \A a \in Animal : pc[a] = "done"

Next == \E a \in Animal : Eat(a)

Spec == Init /\ [][Next]_vars

\* A runnable thread runs, and clocksleep, which is how an animal eats,
\* returns (module SynchThreads).
FairSpec == Spec /\ \A a \in Animal : WF_vars(Eat(a))

-----------------------------------------------------------------------------
(***************************************************************************)
(* Properties                                                              *)
(***************************************************************************)
\* The type of the state.
TypeOK ==
    /\ count \in [Bowl -> 0..1]
    /\ occupied \in [Bowl -> SUBSET {"cat", "mouse"}]
    /\ iteration \in [Animal -> Nat]
    /\ pc \in [Animal -> {"hungry", "asleep", "eating", "done"}]

EatsAt(a, b) == pc[a] = "eating" /\ BowlOf(a) = b

\* A cat and a mouse never eat at the same time, at the same bowl or at
\* different ones.
CatMouseExclusion ==
    \A c \in Cat, m \in Mouse : ~(pc[c] = "eating" /\ pc[m] = "eating")

\* Two animals never eat from the same bowl.
OneAtABowl ==
    \A b \in Bowl : \A x, y \in Animal : EatsAt(x, b) /\ EatsAt(y, b) => x = y

\* The animals never all fall asleep on each other: one at least gets all its
\* meals, since whoever leaves a bowl last finds nobody in its way.
SomeLeave == <>(\E a \in Animal : pc[a] = "done")

\* "Eat 3 times and leave" (catsem): every animal gets its meals and leaves.
AllLeave == <>AllDone

=============================================================================

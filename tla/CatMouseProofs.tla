--------------------------- MODULE CatMouseProofs ---------------------------
(***************************************************************************)
(* For any number of cats and mice, the flags and counts of Pcat, Pmouse,  *)
(* Vcat and Vmouse keep cats and mice apart and one animal at a bowl.      *)
(***************************************************************************)
EXTENDS CatMouse, TLAPS

\* A bowl's semaphore agrees with who eats there: count is zero exactly while
\* somebody does, and a flag is set exactly while one of its kind does.
BowlsAgree ==
    \A b \in Bowl :
        /\ count[b] = 0 <=> \E a \in Animal : EatsAt(a, b)
        /\ "cat" \in occupied[b] <=> \E a \in Cat : EatsAt(a, b)
        /\ "mouse" \in occupied[b] <=> \E a \in Mouse : EatsAt(a, b)

\* CatMouseExclusion is not inductive alone: that Pcat sees every eating mouse
\* needs the flag of the other bowl and the count of its own (BowlsAgree), and
\* that Vcat may clear the flag needs OneAtABowl.
IndInv == TypeOK /\ BowlsAgree /\ OneAtABowl /\ CatMouseExclusion

\* The invariant holds when nobody has eaten.
LEMMA InitIndInv == Init => IndInv
BY AnimalAssumption DEF Init, IndInv, TypeOK, BowlsAgree, OneAtABowl,
   CatMouseExclusion, EatsAt, Animal, Bowl

\* The two bowls, and the bowl of every animal.
LEMMA BowlFacts ==
    /\ \A b \in Bowl : Another(b) \in Bowl /\ Another(b) # b
    /\ \A b \in Bowl, d \in Bowl : d # b => d = Another(b)
    /\ \A a : BowlOf(a) \in Bowl
BY DEF Bowl, Another, BowlOf

\* Occupying a free bowl next to a bowl without a foe preserves the invariant
\* (the body of Pcat and of Pmouse).
LEMMA TakeKeepsInv ==
    ASSUME IndInv, NEW a \in Animal, NEW me, NEW foe, Take(a, me, foe),
           \/ a \in Cat /\ me = "cat" /\ foe = "mouse"
           \/ a \in Mouse /\ me = "mouse" /\ foe = "cat"
    PROVE  IndInv'
<1> DEFINE b == BowlOf(a)
<1>0. TypeOK /\ BowlsAgree /\ OneAtABowl /\ CatMouseExclusion /\ b \in Bowl
  BY BowlFacts DEF IndInv
<1>1. \A x : BowlOf(x)' = BowlOf(x)
  BY DEF Take, BowlOf
<1>2. CASE count[b] = 0 \/ foe \in occupied[Another(b)]
  <2>1. Goto(a, "asleep") /\ UNCHANGED <<count, occupied, iteration>> /\ pc[a] = "hungry"
    BY <1>2 DEF Take
  <2>2. \A x \in Animal : pc'[x] = "eating" <=> pc[x] = "eating"
    BY <1>0, <2>1 DEF TypeOK, Goto
  <2>3. \A x \in Animal, d \in Bowl : EatsAt(x, d)' <=> EatsAt(x, d)
    BY <1>1, <2>2 DEF EatsAt
  <2>4. TypeOK'
    BY <1>0, <2>1 DEF TypeOK, Goto
  <2>5. BowlsAgree' /\ OneAtABowl' /\ CatMouseExclusion'
    BY <1>0, <2>1, <2>2, <2>3 DEF BowlsAgree, OneAtABowl, CatMouseExclusion, Animal
  <2> QED BY <2>4, <2>5 DEF IndInv
<1>3. CASE ~(count[b] = 0 \/ foe \in occupied[Another(b)])
  <2>1. /\ pc[a] = "hungry" /\ Goto(a, "eating") /\ UNCHANGED iteration
        /\ occupied' = [occupied EXCEPT ![b] = @ \cup {me}]
        /\ count' = [count EXCEPT ![b] = @ - 1]
    BY <1>3 DEF Take
  <2>2. \A x \in Animal : pc'[x] = "eating" <=> pc[x] = "eating" \/ x = a
    BY <1>0, <2>1 DEF TypeOK, Goto
  <2>3. \A x \in Animal, d \in Bowl :
           EatsAt(x, d)' <=> EatsAt(x, d) \/ (x = a /\ d = b)
    BY <1>1, <2>2 DEF EatsAt
  <2>4. count[b] = 1 /\ \A x \in Animal : ~EatsAt(x, b)
    BY <1>0, <1>3 DEF TypeOK, BowlsAgree
  <2>5. TypeOK'
    BY <1>0, <2>1, <2>4 DEF TypeOK, Goto
  <2>6. OneAtABowl'
    BY <1>0, <2>3, <2>4 DEF OneAtABowl
  <2>7. BowlsAgree'
    <3>1. \A d \in Bowl : count'[d] = 0 <=> count[d] = 0 \/ d = b
      BY <1>0, <2>1, <2>4 DEF TypeOK
    <3>2. \A d \in Bowl : \A k : k \in occupied'[d] <=> k \in occupied[d] \/ (d = b /\ k = me)
      BY <1>0, <2>1 DEF TypeOK
    <3> QED BY <1>0, <2>3, <3>1, <3>2, AnimalAssumption DEF BowlsAgree, Animal
  <2>8. CatMouseExclusion'
    <3>1. \A x \in Animal : pc[x] = "eating" => EatsAt(x, Another(b))
      BY <1>0, <2>4, BowlFacts DEF EatsAt
    <3>2. foe = "mouse" => \A x \in Mouse : pc[x] # "eating"
      BY <1>0, <1>3, <3>1, BowlFacts DEF BowlsAgree, Animal
    <3>3. foe = "cat" => \A x \in Cat : pc[x] # "eating"
      BY <1>0, <1>3, <3>1, BowlFacts DEF BowlsAgree, Animal
    <3> QED BY <1>0, <2>2, <3>2, <3>3, AnimalAssumption DEF CatMouseExclusion, Animal
  <2> QED BY <2>5, <2>6, <2>7, <2>8 DEF IndInv
<1> QED BY <1>2, <1>3

\* Leaving a bowl preserves the invariant (the body of Vcat and of Vmouse).
LEMMA LeaveKeepsInv ==
    ASSUME IndInv, NEW a \in Animal, NEW me, Leave(a, me),
           (a \in Cat /\ me = "cat") \/ (a \in Mouse /\ me = "mouse")
    PROVE  IndInv'
<1> DEFINE b == BowlOf(a)
<1>0. TypeOK /\ BowlsAgree /\ OneAtABowl /\ CatMouseExclusion /\ b \in Bowl
  BY BowlFacts DEF IndInv
<1>1. \A x \in Animal : x # a => BowlOf(x)' = BowlOf(x)
  BY <1>0 DEF Leave, BowlOf, TypeOK
<1>2. \A x \in Animal : pc'[x] = "eating" <=> pc[x] = "eating" /\ x # a
  BY <1>0 DEF Leave, TypeOK
<1>3. \A x \in Animal, d \in Bowl : EatsAt(x, d)' <=> EatsAt(x, d) /\ x # a
  BY <1>1, <1>2 DEF EatsAt
<1>4. EatsAt(a, b) /\ count[b] = 0 /\ \A x \in Animal : EatsAt(x, b) => x = a
  BY <1>0 DEF Leave, EatsAt, BowlsAgree, OneAtABowl
<1>5. TypeOK'
  <2>1. count' \in [Bowl -> 0..1] /\ occupied' \in [Bowl -> SUBSET {"cat", "mouse"}]
    BY <1>0, <1>4 DEF Leave, TypeOK
  <2>2. iteration' \in [Animal -> Nat]
    BY <1>0 DEF Leave, TypeOK
  <2>3. pc' \in [Animal -> {"hungry", "asleep", "eating", "done"}]
    BY <1>0 DEF Leave, TypeOK
  <2> QED BY <2>1, <2>2, <2>3 DEF TypeOK
<1>6. OneAtABowl' /\ CatMouseExclusion'
  BY <1>0, <1>2, <1>3 DEF OneAtABowl, CatMouseExclusion, Animal
<1>7. BowlsAgree'
  <2>1. \A d \in Bowl : count'[d] = 0 <=> count[d] = 0 /\ d # b
    BY <1>0, <1>4 DEF Leave, TypeOK
  <2>2. \A d \in Bowl : \A k : k \in occupied'[d] <=> k \in occupied[d] /\ ~(d = b /\ k = me)
    BY <1>0 DEF Leave, TypeOK
  <2>3. \A d \in Bowl : d # b => ~EatsAt(a, d)
    BY DEF EatsAt
  <2> QED BY <1>0, <1>3, <1>4, <2>1, <2>2, <2>3, AnimalAssumption DEF BowlsAgree, Animal
<1> QED BY <1>5, <1>6, <1>7 DEF IndInv

\* Every step of every animal preserves the invariant.
LEMMA NextIndInv == IndInv /\ [Next]_vars => IndInv'
<1> SUFFICES ASSUME IndInv, [Next]_vars PROVE IndInv'
  OBVIOUS
<1>1. ASSUME NEW a \in Animal, Pcat(a) \/ Pmouse(a) PROVE IndInv'
  BY <1>1, TakeKeepsInv DEF Pcat, Pmouse
<1>2. ASSUME NEW a \in Animal, Vcat(a) \/ Vmouse(a) PROVE IndInv'
  BY <1>2, LeaveKeepsInv DEF Vcat, Vmouse
<1>3. CASE UNCHANGED vars
  BY <1>3 DEF vars, IndInv, TypeOK, BowlsAgree, OneAtABowl, CatMouseExclusion, EatsAt, BowlOf
<1> QED BY <1>1, <1>2, <1>3 DEF Next, Eat

\* The invariant holds in every reachable state.
THEOREM Invariance == Spec => []IndInv
BY InitIndInv, NextIndInv, PTL DEF Spec

\* A cat and a mouse never eat at the same time (Pcat and Pmouse test the flag
\* of the other bowl and the count of their own).
THEOREM CatsAndMiceApart == Spec => []CatMouseExclusion
BY Invariance, PTL DEF IndInv

\* Two animals never eat from one bowl.
THEOREM OneAnimalPerBowl == Spec => []OneAtABowl
BY Invariance, PTL DEF IndInv

=============================================================================

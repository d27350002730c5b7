\* Two cats and two mice; the run ends when all have gone or are stranded.
SPECIFICATION FairSpec
CONSTANTS
    Cat = {c1, c2}
    Mouse = {m1, m2}
    MealLimit = 3
INVARIANTS
    TypeOK
    CatMouseExclusion
    OneAtABowl
PROPERTY
    SomeLeave
CHECK_DEADLOCK FALSE

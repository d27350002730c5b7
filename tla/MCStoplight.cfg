\* Three cars: one more than may be inside.  No symmetry, for liveness.
SPECIFICATION FairSpec
CONSTANTS
    Car = {c1, c2, c3}
    NULL = NULL
INVARIANTS
    TypeOK
    RegionExclusion
    AtMostTwoInside
    EntranceUncontended
    NoGridlock
PROPERTY
    AllLeave

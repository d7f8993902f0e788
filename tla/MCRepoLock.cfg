SPECIFICATION FairSpec
CONSTANTS
    Proc = {p1, p2, p3}
    Db = {d1, d2}
    Nobody = Nobody
INVARIANTS
    TypeOK
    MutualExclusion
    OwnRowSurvives
    RowsAreHeldOrAbandoned
PROPERTIES
    RefusedOnlyForVisibleRemains
    TurnsSpec
    FlockIsFreedAgain
CHECK_DEADLOCK FALSE

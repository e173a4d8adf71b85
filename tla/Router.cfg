SPECIFICATION MCSpec
CONSTANTS
    Routes <- Fleet
    DeploymentsOf <- FleetOf
    Context <- Contexts
    MaxU32 = 64
    Chain <- Lists
    Kinds <- AllKinds
    Budgeted = TRUE
    k1 = k1
    k2 = k2
    k3 = k3
    d1 = d1
    d2 = d2
    d3 = d3
    h1 = h1
    h2 = h2
    n1 = n1
    n2 = n2
    m1 = m1
    m2 = m2
INVARIANTS
    AccountedOnce
    EndsAreEarned
    NothingIsTorn
    SpreadIsFair
    BookIsFresh
PROPERTIES
    NothingMovesLate
    RequestsAreDecided
    BookConverges
CHECK_DEADLOCK FALSE

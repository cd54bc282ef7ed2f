\* Two clients with two creates between them, outstanding at once or not, and two pins.
CONSTANTS
    Files = {f1, f2}
    Endpoints = {e1, e2}
    Workers = {w1, w2}
    h1 = h1
    p1 = p1
    p2 = p2
    Filters <- MCFilters
    Pins <- MCTwoPins
    ParentOf <- MCTwoPinsParent
    Overlapped = TRUE
    Null = Null
    Garbage = Garbage
SPECIFICATION FairSpec
CHECK_DEADLOCK FALSE
INVARIANTS
    TypeOK
    ContextRefsExact
    EndpointRefsExact
    NoDanglingReference
    OwnerOutlivesEndpoint
    CreateCompletedOnce
PROPERTIES
    CreateAnswered
    OrphanReclaimed

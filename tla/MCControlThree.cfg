\* One client with three creates outstanding at once.
CONSTANTS
    Files = {f1}
    Endpoints = {e1, e2, e3}
    Workers = {w1, w2}
    h1 = h1
    p1 = p1
    p2 = p2
    Filters <- MCFilters
    Pins <- MCOnePin
    ParentOf <- MCOnePinParent
    Overlapped = TRUE
    Null = Null
    Garbage = Garbage
SPECIFICATION Spec
CHECK_DEADLOCK FALSE
INVARIANTS
    CreateCompletedOnce

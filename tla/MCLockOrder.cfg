\* Can two operations wait for each other?
CONSTANTS
    Threads = {t1, t2}
    NoThread = none
SPECIFICATION Spec
INVARIANT NoCircularWait
CHECK_DEADLOCK FALSE

\* Does the handle that is kept stay open?
CONSTANTS
    Handles = {h1, h2}
    Waits = {w1, w2, w3}
    MaxResponses = 2
    Null = null
SPECIFICATION Spec
INVARIANT KeptHandleIsOpen
CHECK_DEADLOCK FALSE

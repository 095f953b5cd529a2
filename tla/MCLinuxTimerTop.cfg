\* Two periodic timers and one that runs once.
CONSTANTS
    Event = {e1, e2, e3}
    NULL = NULL
    MaxTime = 2
    Periodics = 2
SPECIFICATION Spec
INVARIANT TopHasExpired
CHECK_DEADLOCK FALSE   \* the program may exit

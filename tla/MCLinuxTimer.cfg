\* Four events, two of them periodic, times of up to two units.
CONSTANTS
    Event = {e1, e2, e3, e4}
    NULL = NULL
    MaxTime = 2
    Periodics = 2
SPECIFICATION FairSpec
INVARIANTS OnePlaceUnlessLost TimerForTop NeverEarlyUnlessDisturbed
PROPERTIES EveryTimerGoesOff
CHECK_DEADLOCK FALSE   \* the program may exit

\* Two handlers that share a descriptor, loops nested three deep.
CONSTANTS
    Handler = {h1, h2}
    Fd = {0}
    IoFlags = {"READABLE"}
    Free = Free
    MaxTime = 1
    MaxNest = 3
SPECIFICATION FairSpec
INVARIANTS EventTypeOK NoWalkOnFreed TimersFireOnce NothingLeftPending MeetsOwnSelect
PROPERTIES DeletedNeverCalled DueTimerCalled
CHECK_DEADLOCK FALSE   \* after the selector is destroyed

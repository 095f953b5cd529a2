\* A peer that only we call, by name, with maxfail 2; fair timers.
CONSTANTS
    Tid = {t1, t2}
    Sid = {s1, s2}
    Pid = {p1, p2}
    None = None
    Persist = TRUE
    MaxFail = 2
    Retain = FALSE
    Ops = {"lac"}
    ByName = TRUE
    Incoming = FALSE
    MayRefuse = TRUE
    PeerObeys = TRUE
    MaxStarts = 2
    MaxRedial = 9
SPECIFICATION FairSpec
INVARIANT NoExtraCall
PROPERTIES ShutdownEndsUnlessReopened GivesUp
CHECK_DEADLOCK FALSE   \* after exit

\* persist without maxfail: the call that has been up.
CONSTANTS
    Tid = {t1, t2}
    Sid = {s1, s2}
    Pid = {p1, p2}
    None = None
    Persist = TRUE
    MaxFail = 0
    Retain = FALSE
    Ops = {"lac"}
    ByName = FALSE
    Incoming = FALSE
    MayRefuse = FALSE
    PeerObeys = TRUE
    MaxStarts = 1
    MaxRedial = 9
SPECIFICATION Spec
INVARIANTS PersistentCallKept
CHECK_DEADLOCK FALSE   \* after exit

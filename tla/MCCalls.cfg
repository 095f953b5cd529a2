\* Both roles: calls in both directions, all failures, redialling.
CONSTANTS
    Tid = {t1, t2}
    Sid = {s1, s2}
    Pid = {p1, p2}
    None = None
    Persist = TRUE
    MaxFail = 0
    Retain = FALSE
    Ops = {"lac", "lns"}
    ByName = FALSE
    Incoming = TRUE
    MayRefuse = TRUE
    PeerObeys = FALSE
    MaxStarts = 1
    MaxRedial = 1
SPECIFICATION Spec
CONSTRAINT RedialBound
SYMMETRY Symmetry
INVARIANTS CallsTypeOK PppdAttached SessionsServed TunnelsWatched TornDownWithLastSession
CHECK_DEADLOCK FALSE   \* after exit

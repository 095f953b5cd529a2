\* Liveness: no constraint, a network that does not duplicate.
CONSTANTS
    SeqMod = 6
    MaxRetransmissions = 2
    SendMayFail = FALSE
    Payload = {m}
    Rws = 2
    Duplicating = FALSE
    MaxSent <- TwoEach
    MaxNet = 3
SPECIFICATION FairSpec
PROPERTIES EveryMessageSettled StoppedIsFreed
CHECK_DEADLOCK FALSE   \* both tunnels freed and the network empty: the end

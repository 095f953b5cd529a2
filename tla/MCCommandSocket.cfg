\* Two clients, two descriptors, one tunnel; calls that fail; exit inside exit.
CONSTANTS
    Conn = {c1, c2}
    NoConn = NoConn
    Fd = {1, 2}
    State = {1, 2, 3, 4}
    Free = Free
    Tunnels = 1
    MayFail = TRUE
    MaxExits = 2
SPECIFICATION FairSpec
INVARIANTS OneStatePerDescriptor
PROPERTIES EveryConnectionClosed ExitEndsProgram
CHECK_DEADLOCK FALSE   \* after exit, and when no client is left

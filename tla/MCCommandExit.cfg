\* One client sends exit while a tunnel is up; nothing fails.
CONSTANTS
    Conn = {c1}
    NoConn = NoConn
    Fd = {1}
    State = {1, 2, 3}
    Free = Free
    Tunnels = 1
    MayFail = FALSE
    MaxExits = 1
SPECIFICATION Spec
INVARIANTS ExitWaitsForTunnels
CHECK_DEADLOCK FALSE   \* after exit, and when no client is left

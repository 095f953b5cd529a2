\* A network that loses, duplicates and reorders, a socket that may refuse a
\* datagram, sequence numbers that wrap (SeqMod = 6, seven messages).
CONSTANTS
    SeqMod = 6
    MaxRetransmissions = 2
    SendMayFail = TRUE
    Payload = {m}
    Rws = 2
    Duplicating = TRUE
    MaxSent <- LacSends7
    MaxNet = 2
SPECIFICATION Spec
CONSTRAINT NetBound
INVARIANTS TypeOK InOrderDelivery NoEarlyDequeue TimerIffUnacked FlowControl TransportInv
PROPERTY ImplementsChannel
CHECK_DEADLOCK FALSE   \* both tunnels freed and the network empty: the end

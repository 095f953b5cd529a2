------------------------------ MODULE Transport ------------------------------
(***************************************************************************)
(* One L2TP control connection between the tunnel of the LAC that opens it *)
(* (tunnel_establish) and the tunnel the LNS creates for it                *)
(* (tunnel_handle_SCCRQ), both running src/rp-l2tp/tunnel.c, over a        *)
(* network that loses, duplicates, delays and reorders datagrams.          *)
(*                                                                         *)
(* The state machines above the transport (SCCCN, the sessions, HELLO) are *)
(* abstracted to what they do to it: at any time, and in answer to a       *)
(* message, they queue messages of Payload.  The messages that change the  *)
(* transport itself (SCCRQ, SCCRP and StopCCN) are kept.                   *)
(***************************************************************************)
EXTENDS ControlChannel

CONSTANTS Payload,     \* the other control messages: HELLO, SCCCN, ICRQ, ...
          Rws,         \* the receive window both ends announce (8 in the code)
          Duplicating, \* whether the network may deliver a datagram twice
          MaxSent      \* bound: messages each end queues in a connection

ASSUME PayloadAssumption ==
    Payload \cap {"SCCRQ", "SCCRP", "StopCCN", "ZLB"} = {}
ASSUME RwsAssumption == Rws \in Nat /\ 0 < Rws /\ Rws < SeqHalf
ASSUME DuplicatingAssumption == Duplicating \in BOOLEAN
ASSUME MaxSentAssumption == MaxSent \in [{"lac", "lns"} -> Nat]

VARIABLES tunnel,      \* the two l2tp_tunnel structures
          net,         \* datagrams on their way
          sent,        \* history: the messages each end has queued
          delivered    \* history: the messages each end has processed

vars == <<tunnel, net, sent, delivered>>

End == {"lac", "lns"}
Peer(e) == IF e = "lac" THEN "lns" ELSE "lac"

Request == Payload \cup {"StopCCN"}        \* what the layer above may queue
Message == Request \cup {"SCCRQ", "SCCRP"}

(***************************************************************************)
(* Tunnel states as the transport tells them apart.  "idle": the LNS has   *)
(* not seen the SCCRQ yet; "open": WAIT_CTL_REPLY, WAIT_CTL_CONN or        *)
(* ESTABLISHED; "freed": tunnel_free has run and the tunnel ID is unknown. *)
(***************************************************************************)
TunnelState == {"idle", "open", "received_stop_ccn", "sent_stop_ccn", "freed"}

To(e, ds) == {[to |-> Peer(e), Ns |-> d.Ns, Nr |-> d.Nr, msg |-> d.msg] : d \in ds}

(* what tunnel_free leaves: the queue, the timers and the ID are gone *)
tunnel_free == tunnel_new("freed")

(***************************************************************************)
(* Init: tunnel_establish has queued the SCCRQ and run the queue.          *)
(***************************************************************************)
Init ==
    LET t == tunnel_enqueue_dgram(tunnel_new("open"), "SCCRQ")
    IN  /\ \E n \in XmitCounts(t) :
              /\ tunnel = [e \in End |->
                              IF e = "lac" THEN tunnel_xmit_queued_messages(t, n)
                              ELSE tunnel_new("idle")]
              /\ net = To("lac", Transmitted(t, n))
        /\ sent = [e \in End |-> IF e = "lac" THEN <<"SCCRQ">> ELSE <<>>]
        /\ delivered = [e \in End |-> <<>>]

(***************************************************************************)
(* The upper layer queues a message.  Two bounds: MaxSent messages in all, *)
(* and at most half the sequence space waiting for an acknowledgement.     *)
(***************************************************************************)
MayQueue(e, t) ==
    /\ Len(sent[e]) < MaxSent[e]
    /\ Len(t.xmit_queue) < SeqHalf

(* A message of the state machine; a StopCCN also changes the state *)
Queue(t, m) ==
    tunnel_enqueue_dgram(
        IF m = "StopCCN" THEN [t EXCEPT !.state = "sent_stop_ccn"] ELSE t, m)

(* l2tp_tunnel_xmit_control_message, and tunnel_send_StopCCN for a shutdown *)
(* or because the last session closed.  The session code calls them while   *)
(* a StopCCN of ours is still unacknowledged too.                           *)
XmitControlMessage(e, m) ==
    /\ tunnel[e].state \in {"open", "sent_stop_ccn"}
    /\ MayQueue(e, tunnel[e])
    /\ LET t == Queue(tunnel[e], m)
       IN  \E n \in XmitCounts(t) :
              /\ tunnel' = [tunnel EXCEPT ![e] = tunnel_xmit_queued_messages(t, n)]
              /\ net' = net \cup To(e, Transmitted(t, n))
    /\ sent' = [sent EXCEPT ![e] = Append(@, m)]
    /\ UNCHANGED delivered

(***************************************************************************)
(* Receiving.  On a duplicating network a datagram stays in net, to be     *)
(* delivered again, until it is lost.  No network keeps a datagram for     *)
(* half a turn of the sequence numbers: Fresh.                             *)
(***************************************************************************)
Fresh(t, d) ==
    /\ d.Ns - t.Nr < SeqHalf /\ t.Nr - d.Ns < SeqHalf
    /\ d.Nr - t.peer_Nr < SeqHalf /\ t.peer_Nr - d.Nr < SeqHalf

Consume(d, out) == net' = (IF Duplicating THEN net ELSE net \ {d}) \cup out

(* tunnel_set_params: the peer's receive window, from SCCRQ or SCCRP *)
tunnel_set_params(t) == [t EXCEPT !.peer_rws = Rws, !.ssthresh = Rws]

(* The tunnel tunnel_handle_SCCRQ makes, about to queue m: an SCCRP, or a  *)
(* StopCCN when tunnel_set_params finds no peer entry for the sender (it   *)
(* returns before it reads the window).                                    *)
TunnelForSCCRQ(m) ==
    [IF m = "SCCRP" THEN tunnel_set_params(tunnel_new("open"))
                    ELSE tunnel_new("open") EXCEPT !.Nr = 1]

(* tunnel_handle_SCCRQ.  A repeated SCCRQ makes another tunnel and does    *)
(* nothing to this one.                                                    *)
HandleSCCRQ(d) ==
    /\ d \in net /\ d.to = "lns" /\ d.msg = "SCCRQ"
    /\ \/ /\ tunnel["lns"].state = "idle"
          /\ \E m \in {"SCCRP", "StopCCN"} :
                LET t == Queue(TunnelForSCCRQ(m), m)
                IN  /\ \E n \in XmitCounts(t) :
                          /\ tunnel' = [tunnel EXCEPT !["lns"] =
                                           tunnel_xmit_queued_messages(t, n)]
                          /\ Consume(d, To("lns", Transmitted(t, n)))
                    /\ sent' = [sent EXCEPT !["lns"] = <<m>>]
          /\ delivered' = [delivered EXCEPT !["lns"] = <<"SCCRQ">>]
       \/ /\ tunnel["lns"].state # "idle"
          /\ net' = net \ {d}
          /\ UNCHANGED <<tunnel, sent, delivered>>

(* an old or an early datagram *)
ReceiveOutOfSequence(e, d) ==
    /\ d \in net /\ d.to = e /\ d.msg # "SCCRQ"
    /\ tunnel[e].state \notin {"idle", "freed"}
    /\ Fresh(tunnel[e], d)
    /\ ~InSequence(tunnel[e], d)
    /\ tunnel' = [tunnel EXCEPT ![e] = DropOutOfSequence(@, d)]
    /\ Consume(d, {})
    /\ UNCHANGED <<sent, delivered>>

(* tunnel_handle_SCCRP reads the window of the peer, unless the tunnel no  *)
(* longer waits for its answer or the peer is refused                      *)
Params(t, d) ==
    IF d.msg = "SCCRP" /\ t.state = "open" THEN {t, tunnel_set_params(t)} ELSE {t}

(* The message the state machine queues in answer to d.  A handler that    *)
(* queues several is this step followed by XmitControlMessage steps.       *)
Answers(e, t, d) ==
    IF d.msg # "ZLB" /\ t.state \in {"open", "sent_stop_ccn"} /\ MayQueue(e, t)
    THEN {<<>>} \cup {<<m>> : m \in Request}
    ELSE {<<>>}

(* mutant: an acknowledged StopCCN does not free the tunnel *)
FinishWithoutFree(t) == StopTimerIfDrained(t)

(* mutant: a tunnel that receives StopCCN does not stay to acknowledge it *)
FreedWhenStopped(t) ==
    IF t.xmit_queue = <<>> /\ t.state \in {"sent_stop_ccn", "received_stop_ccn"}
    THEN tunnel_free
    ELSE StopTimerIfDrained(t)

(* the end of handle_received_control_datagram; a tunnel that received     *)
(* StopCCN is scheduled for destruction (tunnel_finally_cleanup)           *)
FinishReceive(t) ==
    IF t.xmit_queue = <<>> /\ t.state = "sent_stop_ccn"
    THEN tunnel_free
    ELSE StopTimerIfDrained(t)

ReceiveInSequence(e, d) ==
    /\ d \in net /\ d.to = e /\ d.msg \notin {"SCCRQ", "StopCCN"}
    /\ tunnel[e].state \notin {"idle", "freed"}
    /\ Fresh(tunnel[e], d)
    /\ InSequence(tunnel[e], d)
    /\ \E p \in Params(AcceptInSequence(tunnel[e], d), d) :
          \E r \in Answers(e, p, d) :
             LET q == IF r = <<>> THEN p ELSE Queue(p, r[1])
             IN  \E n \in XmitCounts(q) :
                    /\ tunnel' = [tunnel EXCEPT ![e] =
                           FinishReceive(tunnel_xmit_queued_messages(q, n))]
                    /\ Consume(d, To(e, Transmitted(q, n)))
                    /\ sent' = [sent EXCEPT ![e] = @ \o r]
    /\ delivered' = IF d.msg = "ZLB" THEN delivered
                    ELSE [delivered EXCEPT ![e] = Append(@, d.msg)]

(* tunnel_handle_StopCCN: the queue is discarded, Ns goes back to what the *)
(* peer has acknowledged and a ZLB leaves at once                          *)
tunnel_handle_StopCCN(t) ==
    [DequeueHeads(t, Len(t.xmit_queue)) EXCEPT
        !.state = "received_stop_ccn",
        !.Ns = IF t.xmit_queue = <<>> THEN @ ELSE t.peer_Nr,
        !.ack_handler = FALSE]

ReceiveStopCCN(e, d) ==
    /\ d \in net /\ d.to = e /\ d.msg = "StopCCN"
    /\ tunnel[e].state \notin {"idle", "freed"}
    /\ Fresh(tunnel[e], d)
    /\ InSequence(tunnel[e], d)
    /\ LET t == tunnel_handle_StopCCN(AcceptInSequence(tunnel[e], d))
       IN  /\ tunnel' = [tunnel EXCEPT ![e] = FinishReceive(t)]
           /\ Consume(d, To(e, {tunnel_send_ZLB(t)}))
    /\ delivered' = [delivered EXCEPT ![e] = Append(@, d.msg)]
    /\ UNCHANGED sent

(***************************************************************************)
(* Timer handlers.                                                         *)
(***************************************************************************)
tunnel_do_ack(e) ==
    /\ tunnel[e].ack_handler
    /\ LET t == [tunnel[e] EXCEPT !.ack_handler = FALSE]
       IN  IF NothingNew(t) \/ WindowClosed(t)
           THEN /\ tunnel' = [tunnel EXCEPT ![e] = t]
                /\ net' = net \cup To(e, {tunnel_send_ZLB(t)})
           ELSE \E n \in XmitCounts(t) :
                   /\ tunnel' = [tunnel EXCEPT ![e] = tunnel_xmit_queued_messages(t, n)]
                   /\ net' = net \cup To(e, Transmitted(t, n))
    /\ UNCHANGED <<sent, delivered>>

tunnel_handle_timeout(e) ==
    /\ tunnel[e].timeout_handler
    /\ LET t == BackToSlowStart(tunnel[e])
       IN  IF TooManyRetransmissions(t)
           THEN /\ tunnel' = [tunnel EXCEPT ![e] = tunnel_free]
                /\ UNCHANGED net
           ELSE \E n \in XmitCounts(t) :
                   /\ tunnel' = [tunnel EXCEPT ![e] =
                          tunnel_xmit_queued_messages(DoubleTimeout(t), n)]
                   /\ net' = net \cup To(e, Transmitted(t, n))
    /\ UNCHANGED <<sent, delivered>>

(* tunnel_finally_cleanup, 31 seconds after StopCCN was received *)
tunnel_finally_cleanup(e) ==
    /\ tunnel[e].state = "received_stop_ccn"
    /\ tunnel' = [tunnel EXCEPT ![e] = tunnel_free]
    /\ UNCHANGED <<net, sent, delivered>>

Lose(d) ==
    /\ d \in net
    /\ net' = net \ {d}
    /\ UNCHANGED <<tunnel, sent, delivered>>

Next ==
    \/ \E e \in End : \/ \E m \in Request : XmitControlMessage(e, m)
                      \/ \E d \in net : \/ ReceiveOutOfSequence(e, d)
                                        \/ ReceiveInSequence(e, d)
                                        \/ ReceiveStopCCN(e, d)
                      \/ tunnel_do_ack(e)
                      \/ tunnel_handle_timeout(e)
                      \/ tunnel_finally_cleanup(e)
    \/ \E d \in net : HandleSCCRQ(d) \/ Lose(d)

Spec == Init /\ [][Next]_vars

-----------------------------------------------------------------------------
Dgram == [Ns : Nat, msg : Message]

(* Type correctness of the two tunnels, the network and the histories. *)
Tunnel ==
    [state : TunnelState, Ns : Nat, Ns_on_wire : Nat, Nr : Nat, peer_Nr : Nat,
     ssthresh : 1 .. Rws, cwnd : 1 .. Rws, cwnd_counter : 0 .. Rws - 1,
     peer_rws : {1, Rws}, timeout : {1, 2, 4, 8},
     retransmissions : 0 .. MaxRetransmissions,
     xmit_queue : Seq(Dgram), xmit_new : Nat \ {0},
     timeout_handler : BOOLEAN, ack_handler : BOOLEAN]

Datagram == [to : End, Ns : Nat, Nr : Nat, msg : Message \cup {"ZLB"}]

TypeOK ==
    /\ tunnel \in [End -> Tunnel]
    /\ net \subseteq Datagram
    /\ sent \in [End -> Seq(Message)]
    /\ delivered \in [End -> Seq(Message)]

Active(e) == tunnel[e].state \in {"open", "sent_stop_ccn"}

(* Reliable delivery: whatever the network does, the messages an end has   *)
(* processed are the first messages its peer queued, each once and in      *)
(* order (the Ns check of l2tp_tunnel_handle_received_control_datagram).   *)
InOrderDelivery ==
    \A e \in End :
        /\ Len(delivered[e]) <= Len(sent[Peer(e)])
        /\ \A i \in 1 .. Len(delivered[e]) : delivered[e][i] = sent[Peer(e)][i]

(* A message leaves the transmit queue as acknowledged only after the peer *)
(* has processed it (tunnel_dequeue_acked_packets).                        *)
NoEarlyDequeue ==
    \A e \in End :
        Active(e) =>
            Len(sent[e]) - Len(tunnel[e].xmit_queue) <= Len(delivered[Peer(e)])

(* The retransmission timer runs exactly while something waits for an      *)
(* acknowledgement, so no message can be forgotten and no timer counts     *)
(* against an idle tunnel.                                                 *)
TimerIffUnacked ==
    \A e \in End :
        tunnel[e].timeout_handler <=> tunnel[e].xmit_queue # <<>>

(* Flow control: nothing on the wire lies beyond the receive window the    *)
(* peer announced, counted from what it has acknowledged.                  *)
FlowControl ==
    \A d \in net :
        d.msg # "ZLB" /\ Active(Peer(d.to)) =>
            d.Ns < tunnel[Peer(d.to)].peer_Nr + tunnel[Peer(d.to)].peer_rws

(***************************************************************************)
(* The inductive invariant.  s is what the end has queued and k how many   *)
(* of those messages the peer has processed.                               *)
(***************************************************************************)
(* the queue holds exactly what the peer has not acknowledged *)
QueueOK(t, s) ==
    /\ t.Ns = Len(s)
    /\ t.peer_Nr + Len(t.xmit_queue) = t.Ns
    /\ Len(t.xmit_queue) <= SeqHalf
    /\ \A i \in 1 .. Len(t.xmit_queue) :
           /\ t.xmit_queue[i].Ns = t.peer_Nr + i - 1
           /\ t.xmit_queue[i].msg = s[t.peer_Nr + i]

(* Ns_on_wire follows the last frame transmitted, or an acknowledgement    *)
(* that came after a timeout has overtaken it                              *)
WireOK(t) ==
    /\ t.xmit_new <= Len(t.xmit_queue) + 1
    /\ t.xmit_new <= t.peer_rws + 1
    /\ \/ t.Ns_on_wire = t.peer_Nr + t.xmit_new - 1
       \/ t.xmit_new = 1 /\ t.Ns_on_wire < t.peer_Nr

(* the congestion window is within the peer's receive window *)
WindowOK(t) == t.cwnd <= t.peer_rws /\ t.cwnd_counter < t.peer_rws

(* the number the peer's window is counted from *)
WindowBase(t) == IF t.Ns_on_wire < t.peer_Nr THEN t.Ns_on_wire ELSE t.peer_Nr

ChannelOK(t, s, k) ==
    /\ QueueOK(t, s)
    /\ WireOK(t)
    /\ t.peer_Nr <= k
    /\ k <= WindowBase(t) + t.peer_rws

EndOK(e) ==
    /\ WindowOK(tunnel[e])
    /\ tunnel[e].state = "idle" => /\ e = "lns"
                                   /\ tunnel[e] = tunnel_new("idle")
                                   /\ sent[e] = <<>>
                                   /\ delivered[e] = <<>>
    /\ tunnel[e].state = "freed" => tunnel[e] = tunnel_free
    /\ tunnel[e].state = "received_stop_ccn" => /\ tunnel[e].xmit_queue = <<>>
                                                /\ tunnel[e].xmit_new = 1
    /\ tunnel[e].state # "freed" => tunnel[e].Nr = Len(delivered[e])
    /\ Active(e) => ChannelOK(tunnel[e], sent[e], Len(delivered[Peer(e)]))

(* a datagram says nothing its sender did not know *)
DatagramOK(d) ==
    /\ d.Nr <= Len(delivered[Peer(d.to)])
    /\ d.msg # "ZLB" =>
           /\ d.Ns < Len(sent[Peer(d.to)])
           /\ d.msg = sent[Peer(d.to)][d.Ns + 1]
           /\ Active(Peer(d.to)) =>
                 d.Ns < WindowBase(tunnel[Peer(d.to)]) + tunnel[Peer(d.to)].peer_rws

(* only the first message of the LAC is an SCCRQ *)
SCCRQFirst ==
    /\ sent["lac"] # <<>>
    /\ sent["lac"][1] = "SCCRQ"
    /\ \A e \in End : \A i \in 1 .. Len(sent[e]) :
           sent[e][i] = "SCCRQ" => e = "lac" /\ i = 1

TransportInv ==
    /\ TypeOK
    /\ \A e \in End : EndOK(e)
    /\ \A d \in net : DatagramOK(d)
    /\ SCCRQFirst
    /\ InOrderDelivery
    /\ TimerIffUnacked

(***************************************************************************)
(* The abstract channel.  An end that sent StopCCN still counts as open.   *)
(***************************************************************************)
StatusOf(t) ==
    CASE t.state \in {"open", "sent_stop_ccn"} -> "open"
      [] t.state = "received_stop_ccn" -> "stopped"
      [] OTHER -> t.state

Abstract ==
    INSTANCE Channel WITH
        status <- [e \in End |-> StatusOf(tunnel[e])],
        acked <- [e \in End |-> IF Active(e) THEN tunnel[e].peer_Nr ELSE 0]

(* Behind its network, windows and timers the transport is that channel:   *)
(* each step of the two ends delivers at most one message, the next one,   *)
(* acknowledgements only grow, and an end that was stopped or freed sends  *)
(* nothing more.                                                           *)
ImplementsChannel == Abstract!Spec

(***************************************************************************)
(* Liveness.  The event loop runs every timer that has expired, so the     *)
(* three timer handlers are weakly fair.  Nothing is assumed of the        *)
(* network, nor that the layer above ever sends.                           *)
(***************************************************************************)
TimerFairness ==
    \A e \in End : /\ WF_vars(tunnel_do_ack(e))
                   /\ WF_vars(tunnel_handle_timeout(e))
                   /\ WF_vars(tunnel_finally_cleanup(e))

FairSpec == Spec /\ TimerFairness

(* No message waits for ever: each one queued is acknowledged, or the      *)
(* tunnel is torn down (MAX_RETRANSMISSIONS in tunnel_handle_timeout).     *)
Settled(e, i) == \/ tunnel[e].state \in {"freed", "received_stop_ccn"}
                 \/ Len(sent[e]) - Len(tunnel[e].xmit_queue) >= i

EveryMessageSettled ==
    \A e \in End : \A i \in 1 .. MaxSent[e] :
        Len(sent[e]) >= i ~> Settled(e, i)

(* A tunnel that has sent or received StopCCN is freed in the end.         *)
StoppedIsFreed ==
    \A e \in End :
        tunnel[e].state \in {"sent_stop_ccn", "received_stop_ccn"}
            ~> tunnel[e].state = "freed"
=============================================================================

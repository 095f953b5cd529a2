---------------------------- MODULE ChannelProofs ----------------------------
(***************************************************************************)
(* The control transport implements the channel it promises (Channel), for *)
(* every Rws, SeqMod, Payload and MaxSent.                                 *)
(*                                                                         *)
(* The mapping keeps two things of a tunnel: its status, and while it is   *)
(* up its peer_Nr.  The first lemmas say what the operations of the tunnel *)
(* do to these; one lemma per action then names the step of the channel it *)
(* is, and the bounds that step needs come from TransportInv before and    *)
(* after it.  What a step of the channel may do then holds of every step   *)
(* of the transport.                                                       *)
(***************************************************************************)
EXTENDS TransportProofs

(* what the operations need to know of a tunnel: that it has its fields *)
Fields == {"state", "Ns", "Ns_on_wire", "Nr", "peer_Nr", "ssthresh", "cwnd",
           "cwnd_counter", "peer_rws", "timeout", "retransmissions",
           "xmit_queue", "xmit_new", "timeout_handler", "ack_handler"}
Shaped(t) == t = [f \in Fields |-> t[f]]

(* u is t as far as the channel can see *)
SameView(t, u) == Shaped(u) /\ u.state = t.state /\ u.peer_Nr = t.peer_Nr

(* A tunnel has its fields. *)
LEMMA TunnelShaped == ASSUME NEW t \in Tunnel PROVE Shaped(t)
  BY DEF Tunnel, Shaped, Fields

(* Queueing a message is not seen in the tunnel. *)
LEMMA EnqueueView ==
    ASSUME NEW t, Shaped(t), NEW m
    PROVE  SameView(t, tunnel_enqueue_dgram(t, m))
  BY DEF Shaped, Fields, SameView, tunnel_enqueue_dgram

(* Running the queue is not seen. *)
LEMMA XmitView ==
    ASSUME NEW t, Shaped(t), NEW n
    PROVE  SameView(t, tunnel_xmit_queued_messages(t, n))
  BY DEF Shaped, Fields, SameView, tunnel_xmit_queued_messages

(* Nor is dequeueing. *)
LEMMA DequeueView ==
    ASSUME NEW t, Shaped(t)
    PROVE  /\ SameView(t, tunnel_dequeue_acked_packets(t))
           /\ \A n : SameView(t, DequeueHeads(t, n))
  BY ZenonT(40) DEF Shaped, Fields, SameView, tunnel_dequeue_acked_packets, DequeueHeads

(* A message of the state machine leaves a tunnel that is up, up. *)
LEMMA QueueView ==
    ASSUME NEW t, Shaped(t), Up(t), NEW m
    PROVE  Shaped(Queue(t, m)) /\ Up(Queue(t, m)) /\ Queue(t, m).peer_Nr = t.peer_Nr
  <1> DEFINE v == IF m = "StopCCN" THEN [t EXCEPT !.state = "sent_stop_ccn"] ELSE t
  <1>1. Shaped(v) /\ Up(v) /\ v.peer_Nr = t.peer_Nr
    BY DEF Shaped, Fields, Up
  <1> HIDE DEF v
  <1>2. SameView(v, tunnel_enqueue_dgram(v, m))
    BY <1>1, EnqueueView
  <1>3. Queue(t, m) = tunnel_enqueue_dgram(v, m)
    BY DEF Queue, v
  <1>. QED
    BY <1>1, <1>2, <1>3 DEF SameView, Up

(* The handlers of the two timers, up to the run of the queue. *)
LEMMA TimerView ==
    ASSUME NEW t, Shaped(t)
    PROVE  /\ SameView(t, [t EXCEPT !.ack_handler = FALSE])
           /\ SameView(t, DoubleTimeout(BackToSlowStart(t)))
  <1>1. SameView(t, BackToSlowStart(t))
    BY DEF Shaped, Fields, SameView, BackToSlowStart
  <1>2. \A v : Shaped(v) => SameView(v, DoubleTimeout(v))
    BY DEF Shaped, Fields, SameView, DoubleTimeout
  <1>3. SameView(t, [t EXCEPT !.ack_handler = FALSE])
    BY DEF Shaped, Fields, SameView
  <1>. QED
    BY <1>1, <1>2, <1>3 DEF SameView

(* An old or early datagram is not seen: its Nr is not read. *)
LEMMA DropView ==
    ASSUME NEW t, Shaped(t), NEW d
    PROVE  SameView(t, DropOutOfSequence(t, d))
  <1> DEFINE v == ScheduleAckFor(t, d)
  <1>1. SameView(t, v)
    BY DEF Shaped, Fields, SameView, ScheduleAckFor, tunnel_schedule_ack
  <1>2. SameView(v, tunnel_dequeue_acked_packets(v))
    BY <1>1, DequeueView DEF SameView
  <1> HIDE DEF v
  <1>. QED
    BY <1>1, <1>2 DEF DropOutOfSequence, SameView, v

(* A datagram in sequence moves peer_Nr, and never back. *)
LEMMA AcceptView ==
    ASSUME NEW t \in Tunnel, NEW d \in Datagram, Fresh(t, d),
           NEW u, u = AcceptInSequence(t, d)
    PROVE  /\ Shaped(u) /\ u.state = t.state
           /\ u.peer_Nr \in Nat /\ t.peer_Nr <= u.peer_Nr
  <1> DEFINE P == t.peer_Nr
             N == d.Nr
             V == IF SERIAL_GT(N, P) THEN N ELSE P
             nr == IF d.msg = "ZLB" THEN t.Nr ELSE t.Nr + 1
             v == Accepted(t, d, nr, V)
  <1>1. P \in Nat /\ N \in Nat /\ t.Nr \in Nat
    BY TunnelFields DEF Datagram
  <1>2. N - P < SeqHalf /\ P - N < SeqHalf
    BY DEF Fresh
  <1>3. SERIAL_GT(N, P) <=> N > P
    BY <1>1, <1>2, SerialOrder
  <1>4. u = tunnel_dequeue_acked_packets(v)
    <2>1. LET c == ScheduleAckFor(t, d) IN c.Nr = t.Nr /\ c.peer_Nr = P
      BY DEF ScheduleAckFor, tunnel_schedule_ack, Tunnel
    <2>. QED
      BY <2>1 DEF AcceptInSequence, Accepted
  <1> HIDE DEF P, N
  <1>5. V \in Nat /\ P <= V
    BY <1>1, <1>3
  <1>6. nr \in Nat
    BY <1>1
  <1> HIDE DEF V, nr
  <1>7. v \in Tunnel /\ v.peer_Nr = V /\ v.state = t.state
    BY <1>5, <1>6, AcceptedFields
  <1>8. SameView(v, u)
    BY <1>4, <1>7, TunnelShaped, DequeueView
  <1>. QED
    BY <1>5, <1>7, <1>8 DEF SameView, P

(* The end of the receive path frees the tunnel or is not seen. *)
LEMMA FinishView ==
    ASSUME NEW t, Shaped(t), NEW u, u = FinishReceive(t)
    PROVE  \/ SameView(t, u)
           \/ /\ t.state = "sent_stop_ccn" /\ t.xmit_queue = <<>>
              /\ u = tunnel_free
  BY DEF Shaped, Fields, SameView, FinishReceive, StopTimerIfDrained

-----------------------------------------------------------------------------
(* what the channel sees of a tunnel besides its status *)
AckOf(t) == IF Up(t) THEN t.peer_Nr ELSE 0

(* the two variables of the channel that are functions of the tunnels *)
Status == [x \in End |-> StatusOf(tunnel[x])]
Acked == [x \in End |-> IF Active(x) THEN tunnel[x].peer_Nr ELSE 0]

(* A step of one end changes what the channel sees at that end only. *)
LEMMA MapStep ==
    ASSUME TransportInv, NEW e \in End, NEW u, tunnel' = [tunnel EXCEPT ![e] = u]
    PROVE  /\ Status' = [Status EXCEPT ![e] = StatusOf(u)]
           /\ Acked' = [Acked EXCEPT ![e] = AckOf(u)]
           /\ Status[e] = StatusOf(tunnel[e])
           /\ Acked[e] = AckOf(tunnel[e])
           /\ StatusOf(u) = StatusOf(tunnel[e]) => Status' = Status
           /\ AckOf(u) = AckOf(tunnel[e]) => Acked' = Acked
  <1>1. tunnel \in [End -> Tunnel]
    BY Unfold
  <1>2. /\ Status' = [x \in End |-> StatusOf(tunnel'[x])]
        /\ Status = [x \in End |-> StatusOf(tunnel[x])]
    BY DEF Status
  <1>3. Acked' = [x \in End |-> AckOf(tunnel'[x])] /\ Acked = [x \in End |-> AckOf(tunnel[x])]
    BY DEF Acked, AckOf, Active, Up
  <1>4. \A x \in End : tunnel'[x] = IF x = e THEN u ELSE tunnel[x]
    BY <1>1
  <1>5. /\ Status' = [Status EXCEPT ![e] = StatusOf(u)]
        /\ Status[e] = StatusOf(tunnel[e])
        /\ StatusOf(u) = StatusOf(tunnel[e]) => Status' = Status
    BY <1>2, <1>4
  <1>6. /\ Acked' = [Acked EXCEPT ![e] = AckOf(u)]
        /\ Acked[e] = AckOf(tunnel[e])
        /\ AckOf(u) = AckOf(tunnel[e]) => Acked' = Acked
    BY <1>3, <1>4
  <1>. QED
    BY <1>5, <1>6

(* A step that shows the channel nothing is a stutter. *)
LEMMA Stutter ==
    ASSUME TransportInv, NEW e \in End, NEW u,
           StatusOf(u) = StatusOf(tunnel[e]), AckOf(u) = AckOf(tunnel[e]),
           tunnel' = [tunnel EXCEPT ![e] = u], sent' = sent, delivered' = delivered
    PROVE  UNCHANGED Abstract!vars
  <1>1. Status' = Status /\ Acked' = Acked
    BY MapStep
  <1>. QED
    BY <1>1 DEF Abstract!vars, Status, Acked

(* What the channel does not see in the fields, it does not see. *)
LEMMA SameStatus ==
    ASSUME NEW t, NEW u, SameView(t, u)
    PROVE  StatusOf(u) = StatusOf(t) /\ AckOf(u) = AckOf(t) /\ Up(u) = Up(t)
  BY DEF SameView, StatusOf, AckOf, Up

(* A tunnel that is gone. *)
LEMMA FreedView ==
    StatusOf(tunnel_free) = "freed" /\ AckOf(tunnel_free) = 0
  BY DEF tunnel_free, tunnel_new, StatusOf, AckOf, Up

(* A tunnel that is up counts as open. *)
LEMMA UpView ==
    ASSUME NEW t, Up(t) PROVE StatusOf(t) = "open" /\ AckOf(t) = t.peer_Nr
  BY DEF StatusOf, AckOf, Up

(* In sequence means the next message of the peer. *)
LEMMA DeliverNext ==
    ASSUME TransportInv, NEW e \in End, NEW d \in net, d.to = e, d.msg # "ZLB",
           tunnel[e].state \notin {"idle", "freed"},
           Fresh(tunnel[e], d), InSequence(tunnel[e], d),
           delivered' = [delivered EXCEPT ![e] = Append(@, d.msg)],
           NEW ms, d.msg \in ms
    PROVE  Abstract!Deliver(e, ms)
  <1>1. d.Ns = Len(delivered[e]) /\ d \in Datagram
    BY NextMessage
  <1>2. DatagramOK(d)
    BY Unfold
  <1>3. /\ Len(delivered[e]) < Len(sent[Peer(e)])
        /\ d.msg = sent[Peer(e)][Len(delivered[e]) + 1]
    BY <1>1, <1>2 DEF DatagramOK
  <1>4. Abstract!Peer(e) = Peer(e)
    BY DEF Abstract!Peer, Peer
  <1>. QED
    BY <1>3, <1>4 DEF Abstract!Deliver

(* XmitControlMessage is Send. *)
LEMMA SendMapped ==
    ASSUME TransportInv, NEW e \in End, NEW m \in Request, XmitControlMessage(e, m)
    PROVE  Abstract!Send(e, m)
  <1> DEFINE t == tunnel[e]
             q == Queue(t, m)
  <1>1. t \in Tunnel /\ Up(t)
    BY EndFacts DEF XmitControlMessage, Up
  <1>2. PICK n \in XmitCounts(q) :
            tunnel' = [tunnel EXCEPT ![e] = tunnel_xmit_queued_messages(q, n)]
    BY DEF XmitControlMessage
  <1> DEFINE u == tunnel_xmit_queued_messages(q, n)
  <1>3. Shaped(q) /\ Up(q) /\ q.peer_Nr = t.peer_Nr
    BY <1>1, TunnelShaped, QueueView
  <1>4. SameView(q, u)
    BY <1>3, XmitView
  <1>5. tunnel' = [tunnel EXCEPT ![e] = u]
    BY <1>2
  <1> HIDE DEF q, u
  <1>6. Up(u) /\ u.peer_Nr = t.peer_Nr
    BY <1>3, <1>4 DEF SameView, Up
  <1>7. StatusOf(u) = "open" /\ StatusOf(t) = "open" /\ AckOf(u) = AckOf(t)
    BY <1>1, <1>6, UpView
  <1>8. /\ Status' = Status /\ Acked' = Acked /\ Status[e] = "open"
    BY <1>5, <1>7, MapStep
  <1>9. sent' = [sent EXCEPT ![e] = Append(@, m)] /\ delivered' = delivered
    BY DEF XmitControlMessage
  <1>. QED
    BY <1>8, <1>9 DEF Abstract!Send, Status, Acked

(* A tunnel that was up or stopped is freed without a message. *)
LEMMA FreeMapped ==
    ASSUME TransportInv, NEW e \in End,
           Up(tunnel[e]) \/ tunnel[e].state = "received_stop_ccn",
           tunnel' = [tunnel EXCEPT ![e] = tunnel_free],
           sent' = sent, delivered' = delivered
    PROVE  Abstract!Free(e)
  <1>1. StatusOf(tunnel[e]) \in {"open", "stopped"}
    BY DEF StatusOf, Up
  <1>2. /\ Status' = [Status EXCEPT ![e] = "freed"]
        /\ Acked' = [Acked EXCEPT ![e] = 0]
        /\ Status[e] \in {"open", "stopped"}
    <2> DEFINE u == tunnel_free
    <2>1. StatusOf(u) = "freed" /\ AckOf(u) = 0 /\ tunnel' = [tunnel EXCEPT ![e] = u]
      BY FreedView
    <2> HIDE DEF u
    <2>2. /\ Status' = [Status EXCEPT ![e] = StatusOf(u)]
          /\ Acked' = [Acked EXCEPT ![e] = AckOf(u)]
          /\ Status[e] = StatusOf(tunnel[e])
      BY <2>1, MapStep
    <2>. QED
      BY <1>1, <2>1, <2>2
  <1>. QED
    BY <1>2 DEF Abstract!Free, Abstract!Forget, Status, Acked

(* tunnel_do_ack and the datagrams out of sequence are not seen. *)
LEMMA QuietSteps ==
    ASSUME TransportInv, NEW e \in End,
           tunnel_do_ack(e) \/ \E d \in net : ReceiveOutOfSequence(e, d)
    PROVE  UNCHANGED Abstract!vars
  <1>1. Shaped(tunnel[e])
    BY EndFacts, TunnelShaped
  <1>2. CASE tunnel_do_ack(e)
    <2> DEFINE t == [tunnel[e] EXCEPT !.ack_handler = FALSE]
    <2>1. SameView(tunnel[e], t)
      BY <1>1, TimerView
    <2> HIDE DEF t
    <2>2. \E u : /\ u = t \/ \E n : u = tunnel_xmit_queued_messages(t, n)
                 /\ tunnel' = [tunnel EXCEPT ![e] = u]
      BY <1>2 DEF tunnel_do_ack, t
    <2>3. PICK u : /\ u = t \/ \E n : u = tunnel_xmit_queued_messages(t, n)
                   /\ tunnel' = [tunnel EXCEPT ![e] = u]
      BY <2>2
    <2>4. SameView(tunnel[e], u)
      BY <2>1, <2>3, XmitView DEF SameView
    <2>5. sent' = sent /\ delivered' = delivered
      BY <1>2 DEF tunnel_do_ack
    <2>. QED
      BY <2>3, <2>4, <2>5, SameStatus, Stutter
  <1>3. ASSUME NEW d \in net, ReceiveOutOfSequence(e, d)
        PROVE  UNCHANGED Abstract!vars
    <2> DEFINE u == DropOutOfSequence(tunnel[e], d)
    <2>1. SameView(tunnel[e], u)
      BY <1>1, DropView
    <2>2. tunnel' = [tunnel EXCEPT ![e] = u] /\ sent' = sent /\ delivered' = delivered
      BY <1>3 DEF ReceiveOutOfSequence
    <2> HIDE DEF u
    <2>. QED
      BY <2>1, <2>2, SameStatus, Stutter
  <1>. QED
    BY <1>2, <1>3

(* The retransmission timer frees the tunnel or is not seen. *)
LEMMA TimeoutMapped ==
    ASSUME TransportInv, NEW e \in End, tunnel_handle_timeout(e)
    PROVE  Abstract!Free(e) \/ UNCHANGED Abstract!vars
  <1> DEFINE t == tunnel[e]
             c == DoubleTimeout(BackToSlowStart(t))
  <1>1. Shaped(t)
    BY EndFacts, TunnelShaped
  <1>2. Up(t) \/ t.state = "received_stop_ccn"
    <2>1. t.timeout_handler /\ t.xmit_queue # <<>>
      BY EndFacts DEF tunnel_handle_timeout
    <2>2. t.state \in TunnelState /\ t.state \notin {"idle", "freed"}
      BY <2>1, EndFacts
    <2>. QED
      BY <2>2 DEF TunnelState, Up
  <1>3. sent' = sent /\ delivered' = delivered
    BY DEF tunnel_handle_timeout
  <1>4. CASE tunnel' = [tunnel EXCEPT ![e] = tunnel_free]
    BY <1>2, <1>3, <1>4, FreeMapped
  <1>5. ASSUME NEW n, tunnel' = [tunnel EXCEPT ![e] = tunnel_xmit_queued_messages(c, n)]
        PROVE  UNCHANGED Abstract!vars
    <2> DEFINE u == tunnel_xmit_queued_messages(c, n)
    <2>1. SameView(t, c)
      BY <1>1, TimerView
    <2>2. SameView(c, u)
      BY <2>1, XmitView DEF SameView
    <2>3. SameView(t, u)
      BY <2>1, <2>2 DEF SameView
    <2>4. tunnel' = [tunnel EXCEPT ![e] = u]
      BY <1>5
    <2> HIDE DEF u, c
    <2>. QED
      BY <1>3, <2>3, <2>4, SameStatus, Stutter
  <1>6. \/ tunnel' = [tunnel EXCEPT ![e] = tunnel_free]
        \/ \E n : tunnel' = [tunnel EXCEPT ![e] = tunnel_xmit_queued_messages(c, n)]
    BY DEF tunnel_handle_timeout
  <1>. QED
    BY <1>4, <1>5, <1>6

(* tunnel_handle_StopCCN: the end is stopped. *)
LEMMA StopMapped ==
    ASSUME TransportInv, NEW e \in End, NEW d \in net, ReceiveStopCCN(e, d)
    PROVE  Abstract!Stop(e)
  <1> DEFINE t == tunnel[e]
             a == AcceptInSequence(t, d)
             h == tunnel_handle_StopCCN(a)
             u == FinishReceive(h)
  <1>1. /\ d.to = e /\ d.msg = "StopCCN" /\ t.state \notin {"idle", "freed"}
        /\ Fresh(t, d) /\ InSequence(t, d)
        /\ tunnel' = [tunnel EXCEPT ![e] = u] /\ sent' = sent
        /\ delivered' = [delivered EXCEPT ![e] = Append(@, d.msg)]
    BY DEF ReceiveStopCCN
  <1>2. t \in Tunnel /\ t.state \in TunnelState /\ d \in Datagram
    BY EndFacts, Unfold
  <1>3. Shaped(a)
    BY <1>1, <1>2, AcceptView
  <1> HIDE DEF a
  <1>4. Shaped(h) /\ h.state = "received_stop_ccn"
    <2> DEFINE v == DequeueHeads(a, Len(a.xmit_queue))
    <2>1. Shaped(v)
      BY <1>3, DequeueView DEF SameView
    <2> HIDE DEF v
    <2>2. h = [v EXCEPT !.state = "received_stop_ccn",
                        !.Ns = IF a.xmit_queue = <<>> THEN @ ELSE a.peer_Nr,
                        !.ack_handler = FALSE]
      BY DEF tunnel_handle_StopCCN, v
    <2>. QED
      BY <2>1, <2>2 DEF Shaped, Fields
  <1> HIDE DEF h
  <1>5. u.state = "received_stop_ccn"
    BY <1>4, FinishView DEF SameView
  <1> HIDE DEF u
  <1>6. StatusOf(u) = "stopped" /\ AckOf(u) = 0 /\ StatusOf(t) \in {"open", "stopped"}
    BY <1>1, <1>2, <1>5 DEF StatusOf, AckOf, Up, TunnelState
  <1>7. /\ Status' = [Status EXCEPT ![e] = "stopped"]
        /\ Acked' = [Acked EXCEPT ![e] = 0]
        /\ Status[e] \in {"open", "stopped"}
    <2>1. /\ Status' = [Status EXCEPT ![e] = StatusOf(u)]
          /\ Acked' = [Acked EXCEPT ![e] = AckOf(u)]
          /\ Status[e] = StatusOf(t)
      BY <1>1, MapStep
    <2>. QED
      BY <1>6, <2>1
  <1>8. Abstract!Deliver(e, {"StopCCN"})
    BY <1>1, DeliverNext
  <1>. QED
    BY <1>1, <1>7, <1>8 DEF Abstract!Stop, Abstract!Forget, Status, Acked

(* What an in-sequence message or ZLB does to the tunnel of e: the steps   *)
(* of ReceiveInSequence with its choices named.                            *)
Received(e, d, p, r, n) ==
    LET q == IF r = <<>> THEN p ELSE Queue(p, r[1])
    IN  FinishReceive(tunnel_xmit_queued_messages(q, n))

(* On a tunnel that is up: it stays up and has learned, or it is freed and *)
(* has queued nothing.                                                     *)
LEMMA ReceivedUp ==
    ASSUME TransportInv, NEW e \in End, NEW d \in net, d.to = e, Up(tunnel[e]),
           Fresh(tunnel[e], d), InSequence(tunnel[e], d),
           NEW p \in Params(AcceptInSequence(tunnel[e], d), d),
           NEW r \in Answers(e, p, d), NEW n, NEW u, u = Received(e, d, p, r, n)
    PROVE  \/ /\ Up(u) /\ u.peer_Nr \in Nat
              /\ tunnel[e].peer_Nr <= u.peer_Nr
           \/ u = tunnel_free /\ r = <<>>
  <1> DEFINE t == tunnel[e]
             a == AcceptInSequence(t, d)
             q == IF r = <<>> THEN p ELSE Queue(p, r[1])
             x == tunnel_xmit_queued_messages(q, n)
  <1>1. t \in Tunnel /\ d \in Datagram
    BY EndFacts, Unfold
  <1>2. /\ Shaped(a) /\ a.state = t.state
        /\ a.peer_Nr \in Nat /\ t.peer_Nr <= a.peer_Nr
    BY <1>1, AcceptView
  <1>3. a \in Tunnel
    BY AcceptEnd DEF ChanInv
  <1>4. p = a \/ p = tunnel_set_params(a)
    BY DEF Params
  <1>5. x = tunnel_xmit_queued_messages(q, n) /\ u = FinishReceive(x)
    BY DEF Received
  <1> HIDE DEF a, x
  <1>6. SameView(a, p) /\ p.xmit_queue = a.xmit_queue
    BY <1>2, <1>4 DEF SameView, Shaped, Fields, tunnel_set_params
  <1>7. Up(p) /\ Shaped(p)
    BY <1>2, <1>6 DEF SameView, Up
  <1>8. Shaped(q) /\ Up(q) /\ q.peer_Nr = p.peer_Nr
    BY <1>7, QueueView
  <1>9. r # <<>> => q.xmit_queue # <<>>
    <2> SUFFICES ASSUME r # <<>> PROVE q.xmit_queue # <<>>
      OBVIOUS
    <2> DEFINE v == IF r[1] = "StopCCN" THEN [p EXCEPT !.state = "sent_stop_ccn"] ELSE p
    <2>1. Shaped(v) /\ v.xmit_queue = p.xmit_queue
      BY <1>7 DEF Shaped, Fields
    <2>2. q = tunnel_enqueue_dgram(v, r[1])
      BY DEF Queue
    <2> HIDE DEF v, q
    <2>3. q.xmit_queue = Append(v.xmit_queue, [Ns |-> v.Ns, msg |-> r[1]])
      BY <2>1, <2>2 DEF tunnel_enqueue_dgram, Shaped, Fields
    <2>4. v.xmit_queue \in Seq(Dgram)
      BY <1>3, <1>6, <2>1, TunnelFields
    <2>. QED
      BY <2>3, <2>4
  <1> HIDE DEF q
  <1>10. SameView(q, x) /\ x.xmit_queue = q.xmit_queue
    <2>1. SameView(q, x)
      BY <1>5, <1>8, XmitView
    <2>. QED
      BY <1>5, <1>8, <2>1 DEF tunnel_xmit_queued_messages, Shaped, Fields
  <1>11. SameView(x, u) \/ (x.xmit_queue = <<>> /\ u = tunnel_free)
    BY <1>5, <1>10, FinishView DEF SameView
  <1>12. SameView(x, u) => Up(u) /\ u.peer_Nr = a.peer_Nr
    BY <1>6, <1>8, <1>10 DEF SameView, Up
  <1>. QED
    BY <1>2, <1>9, <1>10, <1>11, <1>12

(* On a tunnel that was stopped: it answers nothing and stays stopped. *)
LEMMA ReceivedStopped ==
    ASSUME TransportInv, NEW e \in End, NEW d \in net, d.to = e,
           tunnel[e].state = "received_stop_ccn",
           Fresh(tunnel[e], d), InSequence(tunnel[e], d),
           NEW p \in Params(AcceptInSequence(tunnel[e], d), d),
           NEW r \in Answers(e, p, d), NEW n, NEW u, u = Received(e, d, p, r, n)
    PROVE  u.state = "received_stop_ccn" /\ r = <<>>
  <1> DEFINE t == tunnel[e]
             a == AcceptInSequence(t, d)
             x == tunnel_xmit_queued_messages(p, n)
  <1>1. t \in Tunnel /\ d \in Datagram
    BY EndFacts, Unfold
  <1>2. Shaped(a) /\ a.state = t.state
    BY <1>1, AcceptView
  <1>3. p = a
    BY <1>2 DEF Params
  <1> HIDE DEF a
  <1>4. r = <<>>
    BY <1>2, <1>3 DEF Answers
  <1>5. SameView(p, x)
    BY <1>2, <1>3, XmitView
  <1>6. u = FinishReceive(x)
    BY <1>4 DEF Received
  <1> HIDE DEF x
  <1>. QED
    BY <1>2, <1>3, <1>4, <1>5, <1>6, FinishView DEF SameView

(* A message or ZLB in sequence is Receive, ReceiveStopped or Free. *)
LEMMA ReceiveMapped ==
    ASSUME TransportInv, TransportInv', NEW e \in End, NEW d \in net,
           ReceiveInSequence(e, d)
    PROVE  \/ Abstract!Receive(e) \/ Abstract!ReceiveStopped(e) \/ Abstract!Free(e)
           \/ UNCHANGED Abstract!vars
  <1> DEFINE t == tunnel[e]
             a == AcceptInSequence(t, d)
             Q(p, r) == IF r = <<>> THEN p ELSE Queue(p, r[1])
             Others == Payload \cup {"SCCRP"}
  <1>1. /\ d.to = e /\ d.msg \notin {"SCCRQ", "StopCCN"}
        /\ t.state \notin {"idle", "freed"} /\ Fresh(t, d) /\ InSequence(t, d)
        /\ delivered' = IF d.msg = "ZLB" THEN delivered
                        ELSE [delivered EXCEPT ![e] = Append(@, d.msg)]
    BY DEF ReceiveInSequence
  <1>2. /\ t \in Tunnel /\ t.state \in TunnelState /\ d \in Datagram
        /\ sent \in [End -> Seq(Message)]
    BY EndFacts, Unfold
  <1>3. PICK p \in Params(a, d) : \E r \in Answers(e, p, d) :
            \E n \in XmitCounts(Q(p, r)) :
               /\ tunnel' = [tunnel EXCEPT ![e] = Received(e, d, p, r, n)]
               /\ sent' = [sent EXCEPT ![e] = @ \o r]
    BY ZenonT(40) DEF ReceiveInSequence, Received
  <1>4. PICK r \in Answers(e, p, d) : \E n :
               /\ tunnel' = [tunnel EXCEPT ![e] = Received(e, d, p, r, n)]
               /\ sent' = [sent EXCEPT ![e] = @ \o r]
    BY <1>3
  <1>5. PICK n : /\ tunnel' = [tunnel EXCEPT ![e] = Received(e, d, p, r, n)]
                 /\ sent' = [sent EXCEPT ![e] = @ \o r]
    BY <1>4
  <1> DEFINE u == Received(e, d, p, r, n)
  <1>6. tunnel' = [tunnel EXCEPT ![e] = u]
    BY <1>5
  <1>7. d.msg # "ZLB" => d.msg \in Others /\ d.msg \in Request \cup {"SCCRP"}
    BY <1>1, <1>2 DEF Datagram, Message, Request
  <1>8. \/ r = <<>> /\ sent' = sent
        \/ /\ d.msg # "ZLB" /\ r # <<>>
           /\ \E m \in Request : sent' = [sent EXCEPT ![e] = Append(@, m)]
    <2>1. sent[e] \in Seq(Message)
      BY <1>2
    <2>2. CASE r = <<>>
      <3>1. sent[e] \o r = sent[e]
        BY <2>1, <2>2, ConcatEmptySeq
      <3>. QED
        BY <1>2, <1>5, <2>2, <3>1
    <2>3. CASE r # <<>>
      <3>1. d.msg # "ZLB" /\ \E m \in Request : r = <<m>>
        BY <2>3 DEF Answers
      <3>2. PICK m \in Request : r = <<m>>
        BY <3>1
      <3>3. sent[e] \o r = Append(sent[e], m)
        BY <2>1, <3>2 DEF Message
      <3>. QED
        BY <1>5, <2>3, <3>1, <3>3
    <2>. QED
      BY <2>2, <2>3
  <1>9. d.msg # "ZLB" => /\ Abstract!Deliver(e, Others)
                         /\ Abstract!Deliver(e, Request \cup {"SCCRP"})
    BY <1>1, <1>7, DeliverNext
  <1>10. u = Received(e, d, p, r, n)
    OBVIOUS
  <1> HIDE DEF u, Others
  <1>11. /\ Status' = [Status EXCEPT ![e] = StatusOf(u)]
         /\ Acked' = [Acked EXCEPT ![e] = AckOf(u)]
         /\ Status[e] = StatusOf(t) /\ Acked[e] = AckOf(t)
         /\ StatusOf(u) = StatusOf(t) => Status' = Status
         /\ AckOf(u) = AckOf(t) => Acked' = Acked
    BY <1>6, MapStep
  <1>12. CASE Up(t)
    <2>1. \/ Up(u) /\ u.peer_Nr \in Nat /\ t.peer_Nr <= u.peer_Nr
          \/ u = tunnel_free /\ r = <<>>
      BY <1>1, <1>10, <1>12, ReceivedUp
    <2>2. CASE Up(u) /\ u.peer_Nr \in Nat /\ t.peer_Nr <= u.peer_Nr
      <3>1. Status' = Status /\ Status[e] = "open"
        BY <1>11, <1>12, <2>2, UpView
      <3>2. Acked' = [Acked EXCEPT ![e] = u.peer_Nr] /\ Acked[e] = t.peer_Nr
        BY <1>11, <1>12, <2>2, UpView
      <3>3. u.peer_Nr <= Len(delivered'[Peer(e)])
        <4>1. \A x \in End : EndOK(x)'
          BY DEF TransportInv
        <4>2. EndOK(e)'
          BY <4>1
        <4>3. tunnel'[e] = u
          <5>1. tunnel \in [End -> Tunnel]
            BY Unfold
          <5>. QED
            BY <1>6, <5>1
        <4>4. Active(e)'
          BY <2>2, <4>3 DEF Active, Up
        <4>. QED
          BY <4>2, <4>3, <4>4 DEF EndOK, ChannelOK
      <3>4. delivered'[Peer(e)] = delivered[Peer(e)]
        <4>1. delivered \in [End -> Seq(Message)] /\ Peer(e) \in End /\ Peer(e) # e
          BY Unfold DEF Peer, End
        <4>. QED
          BY <1>1, <4>1
      <3>5. u.peer_Nr \in Acked[e] .. Len(delivered[Abstract!Peer(e)])
        <4>1. t.peer_Nr \in Nat /\ Len(delivered[Peer(e)]) \in Nat
          BY <1>2, EndFacts, TunnelFields
        <4>2. Abstract!Peer(e) = Peer(e)
          BY DEF Abstract!Peer, Peer
        <4>. QED
          BY <2>2, <3>2, <3>3, <3>4, <4>1, <4>2
      <3>6. Abstract!Learn(e)
        BY <3>2, <3>5 DEF Abstract!Learn, Acked
      <3>7. \/ delivered' = delivered /\ sent' = sent
            \/ /\ Abstract!Deliver(e, Request \cup {"SCCRP"})
               /\ \/ sent' = sent
                  \/ \E m \in Request : sent' = [sent EXCEPT ![e] = Append(@, m)]
        BY <1>1, <1>8, <1>9
      <3>8. Abstract!Request = Request
        BY DEF Abstract!Request, Request
      <3>. QED
        BY <3>1, <3>6, <3>7, <3>8 DEF Abstract!Receive, Status
    <2>3. CASE u = tunnel_free /\ r = <<>>
      <3>1. /\ Status' = [Status EXCEPT ![e] = "freed"]
            /\ Acked' = [Acked EXCEPT ![e] = 0]
        BY <1>11, <2>3, FreedView
      <3>2. Status[e] = "open"
        BY <1>11, <1>12, UpView
      <3>3. sent' = sent
        BY <1>8, <2>3
      <3>4. delivered' = delivered \/ Abstract!Deliver(e, Payload \cup {"SCCRP"})
        BY <1>1, <1>9 DEF Others
      <3>. QED
        BY <3>1, <3>2, <3>3, <3>4 DEF Abstract!Free, Abstract!Forget, Status, Acked
    <2>. QED
      BY <2>1, <2>2, <2>3
  <1>13. CASE t.state = "received_stop_ccn"
    <2>1. u.state = "received_stop_ccn" /\ r = <<>>
      BY <1>1, <1>10, <1>13, ReceivedStopped
    <2>2. /\ StatusOf(u) = "stopped" /\ StatusOf(t) = "stopped"
          /\ AckOf(u) = 0 /\ AckOf(t) = 0
      BY <1>13, <2>1 DEF StatusOf, AckOf, Up
    <2>3. Status' = Status /\ Acked' = Acked /\ Status[e] = "stopped" /\ sent' = sent
      BY <1>8, <1>11, <2>1, <2>2
    <2>4. CASE d.msg = "ZLB"
      BY <1>1, <2>3, <2>4 DEF Abstract!vars, Status, Acked
    <2>5. CASE d.msg # "ZLB"
      <3>1. Abstract!Deliver(e, Payload \cup {"SCCRP"})
        BY <1>9, <2>5 DEF Others
      <3>. QED
        BY <2>3, <3>1 DEF Abstract!ReceiveStopped, Status, Acked
    <2>. QED
      BY <2>4, <2>5
  <1>. QED
    BY <1>1, <1>2, <1>12, <1>13 DEF TunnelState, Up

(* A new tunnel has its fields, and has learned nothing. *)
LEMMA NewView ==
    ASSUME NEW st
    PROVE  /\ Shaped(tunnel_new(st)) /\ tunnel_new(st).state = st
           /\ tunnel_new(st).peer_Nr = 0
  BY DEF Shaped, Fields, tunnel_new

(* tunnel_handle_SCCRQ accepts the connection; a repeated SCCRQ is not seen. *)
LEMMA AcceptMapped ==
    ASSUME TransportInv, NEW d \in net, HandleSCCRQ(d)
    PROVE  Abstract!Accept \/ UNCHANGED Abstract!vars
  <1> DEFINE t == tunnel["lns"]
  <1>1. CASE t.state = "idle"
    <2>1. PICK m \in {"SCCRP", "StopCCN"} :
              \E n : /\ tunnel' = [tunnel EXCEPT !["lns"] =
                           tunnel_xmit_queued_messages(Queue(TunnelForSCCRQ(m), m), n)]
                     /\ sent' = [sent EXCEPT !["lns"] = <<m>>]
      BY <1>1 DEF HandleSCCRQ
    <2>2. PICK n : /\ tunnel' = [tunnel EXCEPT !["lns"] =
                         tunnel_xmit_queued_messages(Queue(TunnelForSCCRQ(m), m), n)]
                   /\ sent' = [sent EXCEPT !["lns"] = <<m>>]
      BY <2>1
    <2>3. delivered' = [delivered EXCEPT !["lns"] = <<"SCCRQ">>]
      BY <1>1 DEF HandleSCCRQ
    <2> DEFINE c == TunnelForSCCRQ(m)
               q == Queue(c, m)
               u == tunnel_xmit_queued_messages(q, n)
    <2>4. Shaped(c) /\ Up(c) /\ c.peer_Nr = 0
      BY NewView DEF TunnelForSCCRQ, tunnel_set_params, Shaped, Fields, Up
    <2> HIDE DEF c
    <2>5. Shaped(q) /\ Up(q) /\ q.peer_Nr = 0
      BY <2>4, QueueView
    <2>6. tunnel' = [tunnel EXCEPT !["lns"] = u]
      BY <2>2 DEF c
    <2> HIDE DEF q
    <2>7. Up(u) /\ u.peer_Nr = 0
      BY <2>5, XmitView DEF SameView, Up
    <2> HIDE DEF u
    <2>8. "lns" \in End
      BY DEF End
    <2>9. StatusOf(u) = "open" /\ AckOf(u) = 0 /\ AckOf(t) = 0 /\ StatusOf(t) = "idle"
      BY <1>1, <2>7 DEF StatusOf, AckOf, Up
    <2>10. /\ Status' = [Status EXCEPT !["lns"] = StatusOf(u)]
           /\ Status["lns"] = StatusOf(t)
           /\ AckOf(u) = AckOf(t) => Acked' = Acked
      BY <2>6, <2>8, MapStep
    <2>11. /\ Status' = [Status EXCEPT !["lns"] = "open"] /\ Status["lns"] = "idle"
           /\ Acked' = Acked
      BY <2>9, <2>10
    <2>12. sent["lac"] # <<>> /\ sent["lac"][1] = "SCCRQ"
      BY DEF TransportInv, SCCRQFirst
    <2>13. sent' = [sent EXCEPT !["lns"] = <<m>>]
      BY <2>2
    <2>. QED
      BY <2>3, <2>11, <2>12, <2>13 DEF Abstract!Accept, Status, Acked
  <1>2. CASE t.state # "idle"
    <2>1. tunnel' = tunnel /\ sent' = sent /\ delivered' = delivered
      BY <1>2 DEF HandleSCCRQ
    <2>. QED
      BY <2>1 DEF Abstract!vars, Active
  <1>. QED
    BY <1>1, <1>2

(* tunnel_establish leaves the LAC open, and the LNS idle. *)
LEMMA InitMapped == Init => Abstract!Init
  <1> SUFFICES ASSUME Init PROVE Abstract!Init
    OBVIOUS
  <1> DEFINE t == tunnel_enqueue_dgram(tunnel_new("open"), "SCCRQ")
  <1>1. PICK n \in XmitCounts(t) :
            tunnel = [e \in End |-> IF e = "lac" THEN tunnel_xmit_queued_messages(t, n)
                                    ELSE tunnel_new("idle")]
    BY DEF Init
  <1> DEFINE u == tunnel_xmit_queued_messages(t, n)
  <1>2. Shaped(t) /\ t.state = "open" /\ t.peer_Nr = 0
    BY NewView, EnqueueView DEF SameView
  <1> HIDE DEF t
  <1>3. u.state = "open" /\ u.peer_Nr = 0
    BY <1>2, XmitView DEF SameView
  <1>4. tunnel = [e \in End |-> IF e = "lac" THEN u ELSE tunnel_new("idle")]
    BY <1>1
  <1> HIDE DEF u
  <1>5. \A e \in End : StatusOf(tunnel[e]) = IF e = "lac" THEN "open" ELSE "idle"
    BY <1>3, <1>4, NewView DEF StatusOf
  <1>6. \A e \in End : (IF Active(e) THEN tunnel[e].peer_Nr ELSE 0) = 0
    BY <1>3, <1>4, NewView DEF Active
  <1>7. Abstract!End = End
    BY DEF Abstract!End, End
  <1>8. /\ sent = [e \in End |-> IF e = "lac" THEN <<"SCCRQ">> ELSE <<>>]
        /\ delivered = [e \in End |-> <<>>]
    BY DEF Init
  <1>. QED
    BY <1>5, <1>6, <1>7, <1>8 DEF Abstract!Init

(* Every step of the transport is a step of the channel or a stutter. *)
LEMMA NextMapped ==
    TransportInv /\ TransportInv' /\ [Next]_vars => [Abstract!Next]_(Abstract!vars)
  <1> SUFFICES ASSUME TransportInv, TransportInv', [Next]_vars
               PROVE  [Abstract!Next]_(Abstract!vars)
    OBVIOUS
  <1>e. Abstract!End = End /\ Abstract!Request = Request
    BY DEF Abstract!End, End, Abstract!Request, Request
  <1>1. ASSUME NEW e \in End, NEW m \in Request, XmitControlMessage(e, m)
        PROVE  Abstract!Next
    BY <1>e, <1>1, SendMapped DEF Abstract!Next
  <1>2. ASSUME NEW e \in End, NEW d \in net, ReceiveOutOfSequence(e, d)
        PROVE  UNCHANGED Abstract!vars
    BY <1>2, QuietSteps
  <1>3. ASSUME NEW e \in End, NEW d \in net, ReceiveInSequence(e, d)
        PROVE  Abstract!Next \/ UNCHANGED Abstract!vars
    BY <1>e, <1>3, ReceiveMapped DEF Abstract!Next
  <1>4. ASSUME NEW e \in End, NEW d \in net, ReceiveStopCCN(e, d)
        PROVE  Abstract!Next
    BY <1>e, <1>4, StopMapped DEF Abstract!Next
  <1>5. ASSUME NEW e \in End, tunnel_do_ack(e)
        PROVE  UNCHANGED Abstract!vars
    BY <1>5, QuietSteps
  <1>6. ASSUME NEW e \in End, tunnel_handle_timeout(e)
        PROVE  Abstract!Next \/ UNCHANGED Abstract!vars
    BY <1>e, <1>6, TimeoutMapped DEF Abstract!Next
  <1>7. ASSUME NEW e \in End, tunnel_finally_cleanup(e)
        PROVE  Abstract!Next
    BY <1>e, <1>7, FreeMapped DEF tunnel_finally_cleanup, Abstract!Next
  <1>8. ASSUME NEW d \in net, HandleSCCRQ(d)
        PROVE  Abstract!Next \/ UNCHANGED Abstract!vars
    BY <1>8, AcceptMapped DEF Abstract!Next
  <1>9. ASSUME tunnel' = tunnel, sent' = sent, delivered' = delivered
        PROVE  UNCHANGED Abstract!vars
    BY <1>9 DEF Abstract!vars, Active
  <1>10. ASSUME NEW d \in net, Lose(d) PROVE UNCHANGED Abstract!vars
    BY <1>9, <1>10 DEF Lose
  <1>11. CASE UNCHANGED vars
    BY <1>9, <1>11 DEF vars
  <1>. QED
    BY <1>1, <1>2, <1>3, <1>4, <1>5, <1>6, <1>7, <1>8, <1>10, <1>11 DEF Next

(* Behind its network, windows and timers the transport of tunnel.c is the *)
(* channel: each step of an end processes at most the next message, an end *)
(* learns only of what the peer has processed, and a stopped or freed end  *)
(* queues nothing more.                                                    *)
THEOREM TransportImplementsChannel == Spec => ImplementsChannel
  <1>1. Spec => [][Abstract!Next]_(Abstract!vars)
    BY NextMapped, TransportSafety, PTL DEF Spec
  <1>2. Spec => Abstract!Init
    BY InitMapped DEF Spec
  <1>. QED
    BY <1>1, <1>2, PTL DEF ImplementsChannel, Abstract!Spec

-----------------------------------------------------------------------------
(* What the layer above may count on at one end, step by step: it is       *)
(* handed the next message of the peer and no other, one at a time, and    *)
(* none once it is freed; only an end that is not stopped or freed sends;  *)
(* and while it is open, what was acknowledged stays acknowledged.         *)
Orderly(e) ==
    /\ \/ delivered'[e] = delivered[e]
       \/ /\ Status[e] # "freed"
          /\ Len(delivered[e]) < Len(sent[Peer(e)])
          /\ delivered'[e] = Append(delivered[e], sent[Peer(e)][Len(delivered[e]) + 1])
    /\ \/ sent'[e] = sent[e]
       \/ Status[e] \in {"idle", "open"} /\ \E m \in Message : sent'[e] = Append(sent[e], m)
    /\ Status'[e] = Status[e] \/ <<Status[e], Status'[e]>> \in
           {<<"idle", "open">>, <<"open", "stopped">>, <<"open", "freed">>,
            <<"stopped", "freed">>}
    /\ Status[e] = "open" /\ Status'[e] = "open" => Acked[e] <= Acked'[e]

(* What the mapping gives the channel has the channel's types.             *)
LEMMA MappedTypes ==
    ASSUME TransportInv
    PROVE  /\ DOMAIN Status = End /\ Acked \in [End -> Nat]
           /\ sent \in [End -> Seq(Message)] /\ delivered \in [End -> Seq(Message)]
           /\ Status["lns"] = "idle" => sent["lns"] = <<>> /\ delivered["lns"] = <<>>
           /\ \A e \in End : Peer(e) \in End /\ Peer(e) # e
  <1>1. tunnel \in [End -> Tunnel]
    BY Unfold
  <1>2. \A e \in End : tunnel[e].peer_Nr \in Nat /\ tunnel[e].state \in TunnelState
    BY <1>1 DEF Tunnel
  <1>3. Acked \in [End -> Nat] /\ DOMAIN Status = End
    BY <1>2 DEF Acked, Status
  <1>4. "lns" \in End
    BY DEF End
  <1>5. Status["lns"] = "idle" => tunnel["lns"].state = "idle"
    BY <1>2, <1>4 DEF Status, StatusOf, TunnelState
  <1>6. tunnel["lns"].state = "idle" => sent["lns"] = <<>> /\ delivered["lns"] = <<>>
    BY <1>4 DEF TransportInv, EndOK
  <1>7. sent \in [End -> Seq(Message)] /\ delivered \in [End -> Seq(Message)]
    BY DEF TransportInv, TypeOK
  <1>. QED
    BY <1>3, <1>5, <1>6, <1>7 DEF End, Peer

(* An end of which nothing is seen is in order. *)
LEMMA OrderlySame ==
    ASSUME TransportInv, NEW e \in End, delivered'[e] = delivered[e], sent'[e] = sent[e],
           Status'[e] = Status[e], Acked'[e] = Acked[e]
    PROVE  Orderly(e)
  <1>1. Acked[e] \in Nat
    BY MappedTypes
  <1>. QED
    BY <1>1 DEF Orderly

(* The deliveries and acknowledgements of the channel, at the end e.       *)
LEMMA ChannelDelivers ==
    ASSUME TransportInv, NEW e \in End, NEW ms, Abstract!Deliver(e, ms)
    PROVE  /\ Len(delivered[e]) < Len(sent[Peer(e)])
           /\ delivered'[e] = Append(delivered[e], sent[Peer(e)][Len(delivered[e]) + 1])
           /\ \A x \in End : x # e => delivered'[x] = delivered[x]
  <1>1. Abstract!Peer(e) = Peer(e)
    BY DEF Abstract!Peer, Peer
  <1>2. delivered \in [End -> Seq(Message)]
    BY MappedTypes
  <1>. QED
    BY <1>1, <1>2 DEF Abstract!Deliver

LEMMA ChannelLearns ==
    ASSUME TransportInv, NEW e \in End, Abstract!Learn(e)
    PROVE  /\ Acked[e] <= Acked'[e]
           /\ \A x \in End : x # e => Acked'[x] = Acked[x]
  <1>1. PICK k \in Acked[e] .. Len(delivered[Abstract!Peer(e)]) :
            Acked' = [Acked EXCEPT ![e] = k]
    BY Zenon DEF Abstract!Learn, Acked
  <1>2. Acked \in [End -> Nat]
    BY MappedTypes
  <1>3. delivered[Abstract!Peer(e)] \in Seq(Message)
    BY MappedTypes DEF Abstract!Peer, End
  <1>4. k >= Acked[e]
    BY <1>2, <1>3
  <1>. QED
    BY <1>1, <1>2, <1>4

(* An end stops, or is freed, perhaps with a last message.                 *)
LEMMA ChannelEnds ==
    ASSUME TransportInv, NEW e \in End, NEW w \in {"stopped", "freed"},
           Status[e] = "open" \/ Status[e] = "stopped",
           Status' = [Status EXCEPT ![e] = w], Acked' = [Acked EXCEPT ![e] = 0],
           sent' = sent, NEW ms, delivered' = delivered \/ Abstract!Deliver(e, ms)
    PROVE  \A x \in End : Orderly(x)
  <1>1. DOMAIN Status = End /\ Acked \in [End -> Nat]
    BY MappedTypes
  <1>2. /\ Status'[e] = w
        /\ \A x \in End : x # e => Status'[x] = Status[x] /\ Acked'[x] = Acked[x]
    BY <1>1
  <1>3. /\ \/ delivered'[e] = delivered[e]
           \/ /\ Len(delivered[e]) < Len(sent[Peer(e)])
              /\ delivered'[e] = Append(delivered[e], sent[Peer(e)][Len(delivered[e]) + 1])
        /\ \A x \in End : x # e => delivered'[x] = delivered[x]
    BY ChannelDelivers
  <1>4. Orderly(e)
    BY <1>2, <1>3 DEF Orderly
  <1>5. ASSUME NEW x \in End, x # e PROVE Orderly(x)
    BY <1>2, <1>3, <1>5, OrderlySame
  <1>. QED
    BY <1>4, <1>5

(* A step of the channel leaves both ends in order.                        *)
LEMMA ChannelOrderly ==
    ASSUME TransportInv, [Abstract!Next]_(Abstract!vars)
    PROVE  \A x \in End : Orderly(x)
  <1>t. /\ DOMAIN Status = End /\ Acked \in [End -> Nat]
        /\ sent \in [End -> Seq(Message)] /\ delivered \in [End -> Seq(Message)]
        /\ Status["lns"] = "idle" => sent["lns"] = <<>> /\ delivered["lns"] = <<>>
        /\ \A e \in End : Peer(e) \in End /\ Peer(e) # e
    BY MappedTypes
  <1>e. Abstract!End = End /\ Abstract!Request = Request /\ Request \subseteq Message
    BY DEF Abstract!End, End, Abstract!Request, Request, Message
  <1>1. ASSUME UNCHANGED Abstract!vars PROVE \A x \in End : Orderly(x)
    <2>1. delivered' = delivered /\ sent' = sent /\ Status' = Status /\ Acked' = Acked
      BY <1>1, Zenon DEF Abstract!vars, Status, Acked
    <2>. QED
      BY <2>1, OrderlySame
  <1>2. ASSUME Abstract!Accept PROVE \A x \in End : Orderly(x)
    <2>1. /\ Status["lns"] = "idle" /\ sent["lac"] # <<>>
          /\ Status' = [Status EXCEPT !["lns"] = "open"]
          /\ delivered' = [delivered EXCEPT !["lns"] = <<sent["lac"][1]>>]
          /\ \E m \in {"SCCRP", "StopCCN"} : sent' = [sent EXCEPT !["lns"] = <<m>>]
          /\ Acked' = Acked
      BY <1>2, Zenon DEF Abstract!Accept, Status, Acked
    <2>2. PICK m \in {"SCCRP", "StopCCN"} : sent' = [sent EXCEPT !["lns"] = <<m>>]
      BY <2>1
    <2>3. "lns" \in End /\ "lac" \in End /\ Peer("lns") = "lac" /\ m \in Message
      BY <2>2 DEF End, Peer, Message, Request
    <2>4. /\ Status'["lns"] = "open" /\ sent'["lns"] = <<m>>
          /\ delivered'["lns"] = <<sent["lac"][1]>>
      BY <1>t, <2>1, <2>2, <2>3
    <2>5. sent["lns"] = <<>> /\ delivered["lns"] = <<>>
      BY <1>t, <2>1
    <2>6. /\ sent'["lns"] = Append(sent["lns"], m)
          /\ Len(delivered["lns"]) = 0
          /\ delivered'["lns"] = Append(delivered["lns"], sent["lac"][1])
      BY <2>4, <2>5
    <2>7. Len(sent["lac"]) > 0
      BY <1>t, <2>1, <2>3
    <2>8. Orderly("lns")
      BY <2>1, <2>3, <2>4, <2>6, <2>7 DEF Orderly
    <2>9. /\ Status'["lac"] = Status["lac"] /\ sent'["lac"] = sent["lac"]
          /\ delivered'["lac"] = delivered["lac"] /\ Acked'["lac"] = Acked["lac"]
      BY <1>t, <2>1, <2>2, <2>3
    <2>10. Orderly("lac")
      BY <2>3, <2>9, OrderlySame
    <2>. QED
      BY <2>8, <2>10 DEF End
  <1>3. ASSUME NEW e \in End, NEW m \in Request, Abstract!Send(e, m)
        PROVE  \A x \in End : Orderly(x)
    <2>1. /\ Status[e] = "open" /\ sent' = [sent EXCEPT ![e] = Append(@, m)]
          /\ Status' = Status /\ delivered' = delivered /\ Acked' = Acked
      BY <1>3, Zenon DEF Abstract!Send, Status, Acked
    <2>2. /\ sent'[e] = Append(sent[e], m)
          /\ \A x \in End : x # e => sent'[x] = sent[x]
      BY <1>t, <2>1
    <2>3. Orderly(e)
      BY <1>t, <1>e, <2>1, <2>2 DEF Orderly
    <2>4. ASSUME NEW x \in End, x # e PROVE Orderly(x)
      BY <2>1, <2>2, <2>4, OrderlySame
    <2>. QED
      BY <2>3, <2>4
  <1>4. ASSUME NEW e \in End, Abstract!Receive(e) PROVE \A x \in End : Orderly(x)
    <2>1. /\ Status[e] = "open" /\ Abstract!Learn(e) /\ Status' = Status
          /\ \/ delivered' = delivered /\ sent' = sent
             \/ /\ Abstract!Deliver(e, Abstract!Request \cup {"SCCRP"})
                /\ \/ sent' = sent
                   \/ \E m \in Abstract!Request : sent' = [sent EXCEPT ![e] = Append(@, m)]
      BY <1>4, Zenon DEF Abstract!Receive, Status
    <2>2. /\ Acked[e] <= Acked'[e]
          /\ \A x \in End : x # e => Acked'[x] = Acked[x]
      BY <2>1, ChannelLearns
    <2>3. /\ \/ delivered'[e] = delivered[e]
             \/ /\ Len(delivered[e]) < Len(sent[Peer(e)])
                /\ delivered'[e] = Append(delivered[e], sent[Peer(e)][Len(delivered[e]) + 1])
          /\ \A x \in End : x # e => delivered'[x] = delivered[x]
      BY <2>1, ChannelDelivers
    <2>4. /\ sent'[e] = sent[e] \/ \E m \in Message : sent'[e] = Append(sent[e], m)
          /\ \A x \in End : x # e => sent'[x] = sent[x]
      BY <1>t, <1>e, <2>1
    <2>5. Orderly(e)
      BY <2>1, <2>2, <2>3, <2>4 DEF Orderly
    <2>6. ASSUME NEW x \in End, x # e PROVE Orderly(x)
      BY <2>1, <2>2, <2>3, <2>4, <2>6, OrderlySame
    <2>. QED
      BY <2>5, <2>6
  <1>5. ASSUME NEW e \in End, Abstract!Stop(e) PROVE \A x \in End : Orderly(x)
    <2>1. /\ Status[e] \in {"open", "stopped"} /\ Abstract!Deliver(e, {"StopCCN"})
          /\ Status' = [Status EXCEPT ![e] = "stopped"]
          /\ Acked' = [Acked EXCEPT ![e] = 0] /\ sent' = sent
      BY <1>5, Zenon DEF Abstract!Stop, Abstract!Forget, Status, Acked
    <2>. QED
      BY <2>1, ChannelEnds
  <1>6. ASSUME NEW e \in End, Abstract!ReceiveStopped(e)
        PROVE  \A x \in End : Orderly(x)
    <2>1. /\ Status[e] = "stopped" /\ Abstract!Deliver(e, Payload \cup {"SCCRP"})
          /\ Status' = Status /\ Acked' = Acked /\ sent' = sent
      BY <1>6, Zenon DEF Abstract!ReceiveStopped, Status, Acked
    <2>2. /\ Len(delivered[e]) < Len(sent[Peer(e)])
          /\ delivered'[e] = Append(delivered[e], sent[Peer(e)][Len(delivered[e]) + 1])
          /\ \A x \in End : x # e => delivered'[x] = delivered[x]
      BY <2>1, ChannelDelivers
    <2>3. Orderly(e)
      BY <2>1, <2>2 DEF Orderly
    <2>4. ASSUME NEW x \in End, x # e PROVE Orderly(x)
      BY <2>1, <2>2, <2>4, OrderlySame
    <2>. QED
      BY <2>3, <2>4
  <1>7. ASSUME NEW e \in End, Abstract!Free(e) PROVE \A x \in End : Orderly(x)
    <2>1. /\ Status[e] \in {"open", "stopped"}
          /\ Status' = [Status EXCEPT ![e] = "freed"]
          /\ Acked' = [Acked EXCEPT ![e] = 0] /\ sent' = sent
          /\ delivered' = delivered \/ Abstract!Deliver(e, Payload \cup {"SCCRP"})
      BY <1>7, Zenon DEF Abstract!Free, Abstract!Forget, Status, Acked
    <2>. QED
      BY <2>1, ChannelEnds
  <1>. QED
    BY <1>e, <1>1, <1>2, <1>3, <1>4, <1>5, <1>6, <1>7 DEF Abstract!Next

(* Whatever the network does, the layer above sees an orderly connection:  *)
(* no message twice, none out of turn, none sent by an end that has        *)
(* received StopCCN or is gone (tunnel_handle_StopCCN, tunnel_free), and   *)
(* no acknowledgement taken back.                                          *)
THEOREM ConnectionOrderly == Spec => [][\A e \in End : Orderly(e)]_vars
  <1>1. TransportInv /\ TransportInv' /\ [Next]_vars => \A e \in End : Orderly(e)
    BY NextMapped, ChannelOrderly
  <1>. QED
    BY <1>1, TransportSafety, PTL DEF Spec
=============================================================================

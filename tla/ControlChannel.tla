--------------------------- MODULE ControlChannel ---------------------------
(***************************************************************************)
(* The reliable control transport of rp-l2tp (src/rp-l2tp/tunnel.c): the   *)
(* queue, window and timers of one l2tp_tunnel, as operators on a record   *)
(* whose fields keep the names of the C structure.                         *)
(*                                                                         *)
(* Sequence numbers.  Ns, Ns_on_wire, Nr, peer_Nr and the numbers in a     *)
(* datagram are kept here as the unbounded counters whose low 16 bits the  *)
(* C program stores; every comparison the program makes is made on the     *)
(* stored bits, that is modulo SeqMod (65536 in the code).                 *)
(*                                                                         *)
(* xmit_queue is the list from xmit_queue_head to xmit_queue_tail, and     *)
(* xmit_new the position in it of the dgram xmit_new_dgrams points to:     *)
(* Len(xmit_queue) + 1 stands for NULL.  The handlers are one-shot timers, *)
(* so a handler is just armed (TRUE) or NULL (FALSE).                      *)
(***************************************************************************)
EXTENDS Integers, Sequences

CONSTANTS SeqMod,              \* 65536: the range of a 16-bit sequence number
          MaxRetransmissions,  \* MAX_RETRANSMISSIONS, 5 in the code
          SendMayFail          \* whether the socket may refuse a datagram

ASSUME SeqModAssumption == SeqMod \in Nat /\ SeqMod > 0 /\ SeqMod % 2 = 0
ASSUME MaxRetransmissionsAssumption ==
    MaxRetransmissions \in Nat /\ MaxRetransmissions > 0

ASSUME SendMayFailAssumption == SendMayFail \in BOOLEAN

SeqHalf == SeqMod \div 2

Bits(a) == a % SeqMod                    \* what a uint16_t keeps of a

(***************************************************************************)
(* Comparison of serial numbers (RFC 1982), on the stored bits.            *)
(***************************************************************************)
SERIAL_GT(a, b) ==
    LET x == Bits(a)
        y == Bits(b)
    IN  (x > y /\ x - y < SeqHalf) \/ (x < y /\ y - x > SeqHalf)

(* mutant: a plain comparison, blind to the wrap *)
PlainLess(a, b) == Bits(a) < Bits(b)

SERIAL_LT(a, b) ==
    LET x == Bits(a)
        y == Bits(b)
    IN  (x < y /\ y - x < SeqHalf) \/ (x > y /\ x - y > SeqHalf)

(***************************************************************************)
(* A tunnel as tunnel_new leaves it.                                       *)
(***************************************************************************)
tunnel_new(st) ==
    [state |-> st, Ns |-> 0, Ns_on_wire |-> 0, Nr |-> 0, peer_Nr |-> 0,
     ssthresh |-> 1, cwnd |-> 1, cwnd_counter |-> 0, peer_rws |-> 1,
     timeout |-> 1, retransmissions |-> 0,
     xmit_queue |-> <<>>, xmit_new |-> 1,
     timeout_handler |-> FALSE, ack_handler |-> FALSE]

tunnel_outstanding_frames(t) == Bits(t.Ns_on_wire - t.peer_Nr)

(***************************************************************************)
(* Queueing a message and running the queue.  tunnel_xmit_queued_messages  *)
(* transmits from xmit_new_dgrams on while fewer than cwnd frames are      *)
(* outstanding; it stops early when the socket refuses a datagram, so the  *)
(* caller chooses n in XmitCounts(t).  The retransmission timer is set     *)
(* whenever there was something new in the queue, sent or not.             *)
(***************************************************************************)
tunnel_enqueue_dgram(t, m) ==
    [t EXCEPT !.xmit_queue = Append(@, [Ns |-> t.Ns, msg |-> m]),
              !.Ns = @ + 1]

NothingNew(t) == t.xmit_new > Len(t.xmit_queue)

WindowClosed(t) == tunnel_outstanding_frames(t) >= t.cwnd

(* mutant: one frame more than the congestion window *)
WindowAllowsOneMore(t, n) ==
    /\ t.xmit_new + n <= Len(t.xmit_queue) + 1
    /\ n > 0 => tunnel_outstanding_frames(t) + n <= t.cwnd + 1

WindowAllows(t, n) ==
    /\ t.xmit_new + n <= Len(t.xmit_queue) + 1
    /\ n > 0 => tunnel_outstanding_frames(t) + n <= t.cwnd

XmitCounts(t) ==
    {n \in 0 .. Len(t.xmit_queue) :
        WindowAllows(t, n) /\ (SendMayFail \/ ~WindowAllows(t, n + 1))}

tunnel_xmit_queued_messages(t, n) ==
    IF NothingNew(t)
    THEN t
    ELSE [t EXCEPT !.xmit_new = @ + n,
                   !.Ns_on_wire = IF n = 0 THEN @
                                  ELSE t.xmit_queue[t.xmit_new + n - 1].Ns + 1,
                   !.ack_handler = IF n = 0 THEN @ ELSE FALSE,
                   !.timeout_handler = TRUE]

(* The datagrams that run put on the wire, in the order of the queue. *)
Transmitted(t, n) ==
    {[Ns |-> t.xmit_queue[i].Ns, Nr |-> t.Nr, msg |-> t.xmit_queue[i].msg] :
        i \in t.xmit_new .. t.xmit_new + n - 1}

tunnel_send_ZLB(t) == [Ns |-> t.Ns_on_wire, Nr |-> t.Nr, msg |-> "ZLB"]

(***************************************************************************)
(* Acknowledged messages leave the head of the queue one by one, and each  *)
(* one opens the congestion window: slow start below ssthresh, congestion  *)
(* avoidance above it, never beyond the peer's receive window.             *)
(***************************************************************************)
CapAtPeerRws(c, rws) == IF c > rws THEN rws ELSE c

OpenWindow(w, ssthresh, rws) ==
    IF w.cwnd < ssthresh
    THEN [w EXCEPT !.cwnd = CapAtPeerRws(@ + 1, rws)]
    ELSE IF w.cwnd_counter + 1 >= w.cwnd
         THEN [cwnd |-> CapAtPeerRws(w.cwnd + 1, rws), cwnd_counter |-> 0]
         ELSE [w EXCEPT !.cwnd_counter = @ + 1]

WindowAfter(t, n) ==
    LET w[i \in 0 .. n] ==
            IF i = 0 THEN [cwnd |-> t.cwnd, cwnd_counter |-> t.cwnd_counter]
            ELSE OpenWindow(w[i - 1], t.ssthresh, t.peer_rws)
    IN  w[n]

(* mutant: the message the peer expects next counts as acknowledged *)
AckedCountInclusive(t) ==
    CHOOSE k \in 0 .. Len(t.xmit_queue) :
        /\ \A i \in 1 .. k : ~SERIAL_GT(t.xmit_queue[i].Ns, t.peer_Nr)
        /\ k < Len(t.xmit_queue) => SERIAL_GT(t.xmit_queue[k + 1].Ns, t.peer_Nr)

AckedCount(t) ==
    CHOOSE k \in 0 .. Len(t.xmit_queue) :
        /\ \A i \in 1 .. k : SERIAL_LT(t.xmit_queue[i].Ns, t.peer_Nr)
        /\ k < Len(t.xmit_queue) =>
               ~SERIAL_LT(t.xmit_queue[k + 1].Ns, t.peer_Nr)

(* n turns of tunnel_dequeue_head *)
DequeueHeads(t, n) ==
    [t EXCEPT !.xmit_queue = SubSeq(@, n + 1, Len(@)),
              !.xmit_new = IF @ > n THEN @ - n ELSE 1]

tunnel_dequeue_acked_packets(t) ==
    LET n == AckedCount(t)
        w == WindowAfter(t, n)
    IN  [DequeueHeads(t, n) EXCEPT !.cwnd = w.cwnd,
                                   !.cwnd_counter = w.cwnd_counter]

(***************************************************************************)
(* Timers.                                                                 *)
(***************************************************************************)
tunnel_schedule_ack(t) == [t EXCEPT !.ack_handler = TRUE]

(* mutant: half of a window of one frame is no window *)
BackToZeroThreshold(t) ==
    [t EXCEPT !.timeout_handler = FALSE,
              !.xmit_new = 1,
              !.Ns_on_wire = IF t.xmit_queue = <<>> THEN @
                             ELSE t.xmit_queue[1].Ns,
              !.ssthresh = t.cwnd \div 2,
              !.cwnd = 1,
              !.cwnd_counter = 0,
              !.retransmissions = @ + 1]

(* mutant: the retransmission is not counted *)
BackUncounted(t) ==
    [t EXCEPT !.timeout_handler = FALSE,
              !.xmit_new = 1,
              !.Ns_on_wire = IF t.xmit_queue = <<>> THEN @
                             ELSE t.xmit_queue[1].Ns,
              !.ssthresh = IF t.cwnd \div 2 = 0 THEN 1 ELSE t.cwnd \div 2,
              !.cwnd = 1,
              !.cwnd_counter = 0]

(* tunnel_handle_timeout up to the decision whether to give up *)
BackToSlowStart(t) ==
    [t EXCEPT !.timeout_handler = FALSE,
              !.xmit_new = 1,
              !.Ns_on_wire = IF t.xmit_queue = <<>> THEN @
                             ELSE t.xmit_queue[1].Ns,
              !.ssthresh = IF t.cwnd \div 2 = 0 THEN 1 ELSE t.cwnd \div 2,
              !.cwnd = 1,
              !.cwnd_counter = 0,
              !.retransmissions = @ + 1]

TooManyRetransmissions(t) == t.retransmissions >= MaxRetransmissions

DoubleTimeout(t) ==
    [t EXCEPT !.timeout = IF @ < 8 THEN 2 * @ ELSE @]

(***************************************************************************)
(* l2tp_tunnel_handle_received_control_datagram, from the check of Ns to   *)
(* the point where the message is handed to the tunnel's state machine.    *)
(***************************************************************************)
(* mutant: a datagram from beyond a gap is accepted *)
NotOld(t, d) == ~SERIAL_LT(d.Ns, t.Nr)

InSequence(t, d) == Bits(d.Ns) = Bits(t.Nr)

ScheduleAckFor(t, d) ==
    IF d.msg = "ZLB" THEN t ELSE tunnel_schedule_ack(t)

DropOutOfSequence(t, d) ==
    IF SERIAL_LT(d.Ns, t.Nr)
    THEN tunnel_dequeue_acked_packets(ScheduleAckFor(t, d))
    ELSE ScheduleAckFor(t, d)

AcceptInSequence(t, d) ==
    tunnel_dequeue_acked_packets(
        [ScheduleAckFor(t, d) EXCEPT
            !.Nr = IF d.msg = "ZLB" THEN @ ELSE @ + 1,
            !.peer_Nr = IF SERIAL_GT(d.Nr, @) THEN d.Nr ELSE @,
            !.retransmissions = 0,
            !.timeout = 1])

(* mutant: the timer keeps running when the queue has drained *)
KeepTimer(t) == t

(* the end of the same function: an empty queue needs no timer *)
StopTimerIfDrained(t) ==
    IF t.xmit_queue = <<>> THEN [t EXCEPT !.timeout_handler = FALSE] ELSE t

=============================================================================

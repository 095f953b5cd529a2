------------------------------- MODULE Channel -------------------------------
(***************************************************************************)
(* What the control transport of src/rp-l2tp/tunnel.c promises to the      *)
(* tunnel and session code above it: a connection whose two ends each send *)
(* messages that the other processes in order, once, and one at a time;    *)
(* acknowledgements that only grow and never run ahead of the peer; an end *)
(* that has been told to stop sends no more, and one that is freed does    *)
(* nothing more.  There is no network here, no window and no timer.        *)
(***************************************************************************)
EXTENDS Integers, Sequences

CONSTANTS Payload      \* the control messages other than SCCRQ, SCCRP and StopCCN

VARIABLES status,      \* idle, open, stopped (by a StopCCN of the peer) or freed
          sent,        \* the messages each end has sent
          delivered,   \* the messages each end has processed
          acked        \* how many of its messages an open end knows delivered

vars == <<status, sent, delivered, acked>>

End == {"lac", "lns"}
Peer(e) == IF e = "lac" THEN "lns" ELSE "lac"
Request == Payload \cup {"StopCCN"}

Init ==
    /\ status = [e \in End |-> IF e = "lac" THEN "open" ELSE "idle"]
    /\ sent = [e \in End |-> IF e = "lac" THEN <<"SCCRQ">> ELSE <<>>]
    /\ delivered = [e \in End |-> <<>>]
    /\ acked = [e \in End |-> 0]

(* The LNS answers the SCCRQ, or refuses. *)
Accept ==
    /\ status["lns"] = "idle" /\ sent["lac"] # <<>>
    /\ status' = [status EXCEPT !["lns"] = "open"]
    /\ delivered' = [delivered EXCEPT !["lns"] = <<sent["lac"][1]>>]
    /\ \E m \in {"SCCRP", "StopCCN"} : sent' = [sent EXCEPT !["lns"] = <<m>>]
    /\ UNCHANGED acked

Send(e, m) ==
    /\ status[e] = "open"
    /\ sent' = [sent EXCEPT ![e] = Append(@, m)]
    /\ UNCHANGED <<status, delivered, acked>>

(* The next message of the peer, if it is in ms, and no other. *)
Deliver(e, ms) ==
    /\ Len(delivered[e]) < Len(sent[Peer(e)])
    /\ LET m == sent[Peer(e)][Len(delivered[e]) + 1]
       IN  m \in ms /\ delivered' = [delivered EXCEPT ![e] = Append(@, m)]

Learn(e) ==
    \E k \in acked[e] .. Len(delivered[Peer(e)]) : acked' = [acked EXCEPT ![e] = k]

Forget(e) == acked' = [acked EXCEPT ![e] = 0]

(* An open end hears from its peer: an acknowledgement, perhaps a message, *)
(* to which it may reply.                                                  *)
Receive(e) ==
    /\ status[e] = "open"
    /\ Learn(e)
    /\ \/ UNCHANGED <<delivered, sent>>
       \/ /\ Deliver(e, Request \cup {"SCCRP"})
          /\ \/ UNCHANGED sent
             \/ \E m \in Request : sent' = [sent EXCEPT ![e] = Append(@, m)]
    /\ UNCHANGED status

(* StopCCN of the peer. *)
Stop(e) ==
    /\ status[e] \in {"open", "stopped"}
    /\ Deliver(e, {"StopCCN"})
    /\ status' = [status EXCEPT ![e] = "stopped"]
    /\ Forget(e)
    /\ UNCHANGED sent

(* A stopped end still processes what comes, and answers nothing. *)
ReceiveStopped(e) ==
    /\ status[e] = "stopped"
    /\ Deliver(e, Payload \cup {"SCCRP"})
    /\ UNCHANGED <<status, sent, acked>>

(* An end is freed, for a timeout, or with a last message. *)
Free(e) ==
    /\ status[e] \in {"open", "stopped"}
    /\ status' = [status EXCEPT ![e] = "freed"]
    /\ Forget(e)
    /\ UNCHANGED sent
    /\ \/ UNCHANGED delivered
       \/ status[e] = "open" /\ Deliver(e, Payload \cup {"SCCRP"})

Next ==
    \/ Accept
    \/ \E e \in End :
        \/ \E m \in Request : Send(e, m)
        \/ Receive(e) \/ Stop(e) \/ ReceiveStopped(e) \/ Free(e)

Spec == Init /\ [][Next]_vars
=============================================================================

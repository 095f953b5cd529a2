-------------------------------- MODULE Calls --------------------------------
(***************************************************************************)
(* The tunnels, sessions and pppd processes of one l2tpd: how calls are    *)
(* set up, torn down, redialled and shut down.  It models the state        *)
(* machines of src/rp-l2tp/tunnel.c and session.c, the call handler        *)
(* handlers/sync-pppd.c and the commands of handlers/cmd.c for one peer    *)
(* entry of the configuration.                                             *)
(*                                                                         *)
(* Below it lies the transport (module Transport): messages of the peer    *)
(* are processed once and in order, and of a tunnel's transmit queue only  *)
(* whether it is empty matters (unacked).  The peer may send any           *)
(* well-formed message at any time or, if PeerObeys, the ones that answer  *)
(* the state of the tunnel or session.                                     *)
(***************************************************************************)
EXTENDS Integers, FiniteSets

CONSTANTS Tid, Sid, Pid,     \* tunnel IDs, session IDs, process IDs
          None,              \* NULL
          Persist, MaxFail,  \* persist, maxfail and retain-tunnel
          Retain,            \*   of the peer entry
          Ops,               \* the roles it has a handler for
          ByName,            \* a peer without address, resolved for each call
          Incoming,          \* whether the peer opens tunnels itself
          MayRefuse,         \* whether opening a tunnel or pppd may fail
          PeerObeys,         \* whether the peer keeps to the protocol
          MaxStarts          \* bound: start-session commands

ASSUME FiniteAssumption == IsFiniteSet(Sid)     \* session IDs have 16 bits
ASSUME NoneAssumption == None \notin Tid \cup Sid \cup Pid
ASSUME FlagsAssumption ==
    {Persist, Retain, ByName, Incoming, MayRefuse, PeerObeys} \subseteq BOOLEAN
ASSUME OpsAssumption == Ops \subseteq {"lac", "lns"}
ASSUME MaxFailAssumption == MaxFail \in Nat
ASSUME MaxStartsAssumption == MaxStarts \in Nat

VARIABLES tunnel,    \* tunnels_by_my_id
          session,   \* the sessions of all tunnels
          slave,     \* struct slave and the pppd process it stands for
          redial,    \* pending l2tp_tunnel_reestablish timers
          fail,      \* peer->fail
          phase,     \* "running", "stopping" (in tunnel_cleanup), "exited"
          starts,    \* start-session commands so far
          wanted,    \* history: outgoing calls started and not stopped
          up         \* history: an outgoing call has been established

vars == <<tunnel, session, slave, redial, fail, phase, starts, wanted, up>>

NoTunnel == [state |-> "none", unacked |-> FALSE, hello |-> "none", used |-> FALSE]
NoSession == [state |-> "none", tunnel |-> None, lac |-> FALSE, slave |-> None]
NoSlave == [state |-> "none", killed |-> FALSE, ses |-> None]

StateName == {"none", "wait_ctl_reply", "wait_ctl_conn", "established",
              "received_stop_ccn", "sent_stop_ccn"}

Live(t) == tunnel[t].state # "none"
Open(t) == tunnel[t].state \in {"wait_ctl_reply", "wait_ctl_conn", "established"}

(* The event loop runs; during a shutdown as long as there is a tunnel. *)
Running == phase = "running" \/ (phase = "stopping" /\ \E t \in Tid : Live(t))

Sessions(t) == {s \in Sid : session[s].state # "none" /\ session[s].tunnel = t}
WithSlave(S) == {s \in S : session[s].slave # None}

(***************************************************************************)
(* Init: the configuration is read and the event loop entered.             *)
(***************************************************************************)
Init ==
    /\ tunnel = [t \in Tid |-> NoTunnel]
    /\ session = [s \in Sid |-> NoSession]
    /\ slave = [p \in Pid |-> NoSlave]
    /\ redial = 0 /\ fail = 0 /\ phase = "running"
    /\ starts = 0 /\ wanted = 0 /\ up = FALSE

(***************************************************************************)
(* Redialling.  Of n calls that end one after the other, each one arms a   *)
(* timer while peer->fail++ < peer->maxfail (maxfail = 0: always); f is    *)
(* the count before.  It is kept up to maxfail + 1, where the test no      *)
(* longer changes.                                                         *)
(***************************************************************************)
Least(a, b) == IF a < b THEN a ELSE b

Redials(f, n) ==
    IF ~Persist THEN 0
    ELSE IF MaxFail = 0 THEN n
    ELSE IF f < MaxFail THEN Least(n, MaxFail - f) ELSE 0

(* mutants: failures are counted without maxfail too; they are not counted *)
FailsAlways(f, n) == f + n
FailsNever(f, n) == f

FailsAfter(f, n) ==
    IF Persist /\ MaxFail # 0 THEN Least(f + n, MaxFail + 1) ELSE f

MayRedial(f, n) == redial' = redial + Redials(f, n) /\ fail' = FailsAfter(f, n)

(***************************************************************************)
(* Building blocks on one tunnel and on sets of sessions.                  *)
(***************************************************************************)
Xmit(r) == [r EXCEPT !.unacked = TRUE]   \* l2tp_tunnel_xmit_control_message

tunnel_send_StopCCN(r) == [Xmit(r) EXCEPT !.state = "sent_stop_ccn"]

tunnel_setup_hello(r) == [r EXCEPT !.hello = "hello"]

(* l2tp_session_free for the sessions of S *)
session_free(S) ==
    session' = [s \in Sid |-> IF s \in S THEN NoSession ELSE session[s]]

(* mutant: the slave is not detached from its session *)
KillOnly(S) ==
    slave' = [p \in Pid |->
                 IF slave[p].ses \in S THEN [slave[p] EXCEPT !.killed = TRUE]
                                       ELSE slave[p]]

(* close_session for the sessions of S: pppd gets SIGTERM and the slave    *)
(* outlives its session until the process is reaped                        *)
close_session(S) ==
    slave' = [p \in Pid |->
                 IF slave[p].ses \in S
                 THEN [slave[p] EXCEPT !.ses = None, !.killed = TRUE]
                 ELSE slave[p]]

(* mutant: the sessions are counted before this one is removed *)
DeleteAfterCounting(s, r) ==
    IF Sessions(session[s].tunnel) = {} /\ ~Retain THEN tunnel_send_StopCCN(r) ELSE r

(* l2tp_tunnel_delete_session: r is the tunnel of s before the call; the   *)
(* last session takes the tunnel with it unless retain-tunnel is set       *)
delete_session(s, r) ==
    IF Sessions(session[s].tunnel) \subseteq {s} /\ ~Retain
    THEN tunnel_send_StopCCN(r)
    ELSE r

(* l2tp_session_send_CDN; never redials *)
session_send_CDN(s) ==
    /\ tunnel' = [tunnel EXCEPT ![session[s].tunnel] = delete_session(s, Xmit(@))]
    /\ session_free({s})

(* tunnel_free; n calls already count as failed *)
tunnel_free(t, n) ==
    /\ tunnel' = [tunnel EXCEPT ![t] = NoTunnel]
    /\ session_free(Sessions(t))
    /\ close_session(Sessions(t))
    /\ MayRedial(fail, n + Cardinality(WithSlave(Sessions(t))))

(***************************************************************************)
(* Outgoing calls.  l2tp_tunnel_find_for_peer looks at one of the tunnels  *)
(* to the peer (which one depends on the hash chains) and makes a new one  *)
(* when that one is being stopped.                                         *)
(***************************************************************************)
NeedsNewTunnel == (\A t \in Tid : ~Live(t)) \/ (\E t \in Tid : Live(t) /\ ~Open(t))

(* l2tp_session_call_lns up to the session: a new session s on tunnel t.   *)
(* It waits for the tunnel, or its ICRQ leaves at once.                    *)
AddSession(t, s, r) ==
    IF r.state = "established"
    THEN /\ session' = [session EXCEPT ![s] =
                           [state |-> "wait_reply", tunnel |-> t, lac |-> TRUE,
                            slave |-> None]]
         /\ tunnel' = [tunnel EXCEPT ![t] = [Xmit(r) EXCEPT !.used = TRUE]]
    ELSE /\ session' = [session EXCEPT ![s] =
                           [state |-> "wait_tunnel", tunnel |-> t, lac |-> TRUE,
                            slave |-> None]]
         /\ tunnel' = [tunnel EXCEPT ![t] = [r EXCEPT !.used = TRUE]]

(* a tunnel as tunnel_establish leaves it: the SCCRQ is queued *)
tunnel_establish ==
    [state |-> "wait_ctl_reply", unacked |-> TRUE, hello |-> "none", used |-> FALSE]

(* without a handler for the LAC role the tunnel is opened and left *)
CallOn(t, r) ==
    IF "lac" \in Ops
    THEN \E s \in Sid : session[s].state = "none" /\ AddSession(t, s, r)
    ELSE tunnel' = [tunnel EXCEPT ![t] = r] /\ UNCHANGED session

PlaceCall ==
    \E t \in Tid : \/ Open(t) /\ CallOn(t, tunnel[t])
                   \/ ~Live(t) /\ NeedsNewTunnel /\ CallOn(t, tunnel_establish)

(* gethostbyname fails in tunnel_establish *)
CannotResolve == ByName /\ NeedsNewTunnel /\ UNCHANGED <<tunnel, session>>

(* the operator starts no call during a shutdown *)
cmd_start_session ==
    /\ phase = "running" /\ starts < MaxStarts
    /\ starts' = starts + 1
    /\ \/ /\ PlaceCall
          /\ wanted' = IF "lac" \in Ops THEN wanted + 1 ELSE wanted
          /\ UNCHANGED <<redial, fail>>
       \/ /\ CannotResolve
          /\ MayRedial(fail, 1)
          /\ wanted' = wanted + Redials(fail, 1)
    /\ UNCHANGED <<slave, phase, up>>

(* a redial timer fires *)
l2tp_tunnel_reestablish ==
    /\ Running /\ redial > 0
    /\ \/ PlaceCall /\ redial' = redial - 1 /\ UNCHANGED fail
       \/ /\ CannotResolve
          /\ redial' = redial - 1 + Redials(fail, 1) /\ fail' = FailsAfter(fail, 1)
    /\ UNCHANGED <<slave, phase, starts, wanted, up>>

cmd_stop_session(s) ==
    /\ Running /\ session[s].state # "none"
    /\ session_send_CDN(s)
    /\ close_session({s})
    /\ wanted' = IF session[s].lac /\ wanted > 0 THEN wanted - 1 ELSE wanted
    /\ UNCHANGED <<redial, fail, phase, starts, up>>

(***************************************************************************)
(* Messages of the peer.  A message may also acknowledge all that is       *)
(* queued.  After it is processed, a drained queue ends a stopping tunnel: *)
(* EndReceive, for handlers that queue nothing themselves.  D are the      *)
(* sessions the handler removed and n the calls that it counted as ended.  *)
(***************************************************************************)
MayArrive(state, expected) == PeerObeys => state \in expected

Acked(r, all) == [r EXCEPT !.unacked = @ /\ ~all]

(* mutant: our StopCCN was acknowledged, but the tunnel is kept *)
NeverFreed(r) == FALSE

FreedNow(r) == ~r.unacked /\ r.state = "sent_stop_ccn"

(* mutant: a timer that is already there is left alone *)
ScheduleIfIdle(r) == [r EXCEPT !.hello = IF @ = "none" THEN "destroy" ELSE @]

tunnel_schedule_destruction(r) == [r EXCEPT !.hello = "destroy"]

EndReceive(t, r, D, n) ==
    LET gone == IF FreedNow(r) THEN Sessions(t) ELSE D
    IN  /\ tunnel' = [tunnel EXCEPT ![t] =
              IF FreedNow(r) THEN NoTunnel
              ELSE IF ~r.unacked /\ r.state = "received_stop_ccn"
                   THEN tunnel_schedule_destruction(r)
                   ELSE r]
        /\ session_free(gone)
        /\ close_session(gone)
        /\ MayRedial(fail, n + Cardinality(WithSlave(gone \ D)))

(* ZLB, HELLO, and what is ignored: a message for an unknown session, an   *)
(* ICRQ on a tunnel that is not established                                *)
ReceiveNothingToDo(t, all) ==
    /\ Running /\ Live(t)
    /\ \E r \in {tunnel[t], tunnel_setup_hello(tunnel[t])} :
          EndReceive(t, Acked(r, all), {}, 0)
    /\ UNCHANGED <<phase, starts, wanted, up>>

(* tunnel_handle_StopCCN: the sessions and the queue are discarded *)
ReceiveStopCCN(t) ==
    /\ Running /\ Live(t)
    /\ MayArrive(tunnel[t].state, StateName \ {"received_stop_ccn"})
    /\ EndReceive(t,
          [tunnel[t] EXCEPT !.state = "received_stop_ccn", !.unacked = FALSE],
          Sessions(t), Cardinality(WithSlave(Sessions(t))))
    /\ UNCHANGED <<phase, starts, wanted, up>>

(* mutant: l2tp_tunnel_delete_session counts every call *)
EndsTwice(s) == 1 + Cardinality(WithSlave({s}))

(* a call that was not yet up counts as failed in                          *)
(* l2tp_tunnel_delete_session, one that had a pppd in close_session        *)
EndedByCDN(s) ==
    (IF session[s].state = "established" THEN 0 ELSE 1) + Cardinality(WithSlave({s}))

(* l2tp_session_handle_CDN *)
ReceiveCDN(s, all) ==
    LET t == session[s].tunnel
    IN  /\ Running /\ session[s].state # "none"
        /\ MayArrive(session[s].state, {"wait_reply", "wait_connect", "established"})
        /\ EndReceive(t, delete_session(s, Acked(tunnel[t], all)), {s},
                      EndedByCDN(s))
        /\ UNCHANGED <<phase, starts, wanted, up>>

(* mutant: the sessions are not told *)
OpensSilently(t, all) ==
    /\ tunnel' = [tunnel EXCEPT ![t] =
          [tunnel_setup_hello(@) EXCEPT !.state = "established", !.unacked = TRUE]]
    /\ UNCHANGED session

(* tunnel_handle_SCCRP and tunnel_handle_SCCCN, in the state they expect:  *)
(* the waiting sessions send their ICRQs                                   *)
TunnelOpens(t, all) ==
    /\ tunnel' = [tunnel EXCEPT ![t] =
          [tunnel_setup_hello(@) EXCEPT
              !.state = "established",
              !.unacked = \/ tunnel[t].unacked /\ ~all
                          \/ tunnel[t].state = "wait_ctl_reply"
                          \/ \E s \in Sessions(t) : session[s].state = "wait_tunnel"]]
    /\ session' = [s \in Sid |->
          IF s \in Sessions(t) /\ session[s].state = "wait_tunnel"
          THEN [session[s] EXCEPT !.state = "wait_reply"]
          ELSE session[s]]

(* ... or refused, or not expected: a StopCCN, the sessions stay *)
TunnelRefused(t) ==
    /\ tunnel' = [tunnel EXCEPT ![t] = tunnel_send_StopCCN(@)]
    /\ UNCHANGED session

ReceiveOpening(t, expects, all) ==
    /\ Running /\ Live(t)
    /\ MayArrive(tunnel[t].state, {expects, "sent_stop_ccn"})
    /\ \/ tunnel[t].state = expects /\ TunnelOpens(t, all)
       \/ (tunnel[t].state # expects \/ MayRefuse) /\ TunnelRefused(t)
    /\ UNCHANGED <<slave, redial, fail, phase, starts, wanted, up>>

ReceiveSCCRP(t, all) == ReceiveOpening(t, "wait_ctl_reply", all)
ReceiveSCCCN(t, all) == ReceiveOpening(t, "wait_ctl_conn", all)

(* tunnel_handle_SCCRQ: a tunnel, or a StopCCN for a peer not admitted *)
HandleSCCRQ(t) ==
    /\ Running /\ Incoming /\ ~Live(t)
    /\ \/ tunnel' = [tunnel EXCEPT ![t] =
                        [Xmit(NoTunnel) EXCEPT !.state = "wait_ctl_conn"]]
       \/ MayRefuse /\ tunnel' = [tunnel EXCEPT ![t] = tunnel_send_StopCCN(NoTunnel)]
    /\ UNCHANGED <<session, slave, redial, fail, phase, starts, wanted, up>>

(* l2tp_session_lns_handle_incoming_call; without a handler for the LNS    *)
(* role the new session is deleted at once                                 *)
ReceiveICRQ(t) ==
    /\ Running /\ tunnel[t].state = "established"
    /\ IF "lns" \in Ops
       THEN \E s \in Sid :
               /\ session[s].state = "none"
               /\ session' = [session EXCEPT ![s] =
                     [state |-> "wait_connect", tunnel |-> t, lac |-> FALSE,
                      slave |-> None]]
               /\ tunnel' = [tunnel EXCEPT ![t] = [Xmit(@) EXCEPT !.used = TRUE]]
       ELSE /\ tunnel' = [tunnel EXCEPT ![t] =
                  IF Sessions(t) = {} /\ ~Retain THEN tunnel_send_StopCCN(@)
                                                ELSE Xmit(@)]
            /\ UNCHANGED session
    /\ UNCHANGED <<slave, redial, fail, phase, starts, wanted, up>>

(* establish_session: pppd is forked and hooked to the session *)
establish_session(s, p) ==
    /\ slave[p].state = "none"
    /\ slave' = [slave EXCEPT ![p] = [state |-> "running", killed |-> FALSE, ses |-> s]]
    /\ session' = [session EXCEPT ![s].state = "established", ![s].slave = p]

(* l2tp_session_handle_ICRP *)
ReceiveICRP(s) ==
    /\ Running /\ session[s].state # "none"
    /\ MayArrive(session[s].state, {"wait_reply"})
    /\ \/ /\ session[s].state = "wait_reply"
          /\ \E p \in Pid : establish_session(s, p)
          /\ tunnel' = [tunnel EXCEPT ![session[s].tunnel] = Xmit(@)]
          /\ fail' = 0 /\ up' = (up \/ session[s].lac)
       \/ /\ session[s].state # "wait_reply" \/ MayRefuse
          /\ session_send_CDN(s)
          /\ close_session({s})
          /\ UNCHANGED <<fail, up>>
    /\ UNCHANGED <<redial, phase, starts, wanted>>

(* l2tp_session_handle_ICCN, which sets peer->fail to 0 before it tries to *)
(* establish the session: not expected, refused, or accepted; if that      *)
(* drains the queue of a tunnel we are stopping, the tunnel goes and takes *)
(* the new pppd with it                                                    *)
ReceiveICCN(s, all) ==
    LET t == session[s].tunnel
        drained == tunnel[t].state = "sent_stop_ccn" /\ all
    IN  /\ Running /\ session[s].state # "none"
        /\ MayArrive(session[s].state, {"wait_connect"})
        /\ \/ /\ session[s].state # "wait_connect" \/ MayRefuse
              /\ session_send_CDN(s)
              /\ close_session({s})
              /\ fail' = IF session[s].state = "wait_connect" THEN 0 ELSE fail
              /\ UNCHANGED redial
           \/ /\ session[s].state = "wait_connect" /\ ~drained
              /\ \E p \in Pid : establish_session(s, p)
              /\ tunnel' = [tunnel EXCEPT ![t] = Acked(@, all)]
              /\ fail' = 0
              /\ UNCHANGED redial
           \/ /\ session[s].state = "wait_connect" /\ drained
              /\ tunnel' = [tunnel EXCEPT ![t] = NoTunnel]
              /\ session_free(Sessions(t))
              /\ \E p \in Pid :
                    /\ slave[p].state = "none"
                    /\ slave' = [q \in Pid |->
                          IF q = p \/ slave[q].ses \in Sessions(t)
                          THEN [state |-> IF q = p THEN "running" ELSE slave[q].state,
                                killed |-> TRUE, ses |-> None]
                          ELSE slave[q]]
              /\ MayRedial(0, Cardinality(WithSlave(Sessions(t))) + 1)
        /\ UNCHANGED <<phase, starts, wanted, up>>

(***************************************************************************)
(* Timers.                                                                 *)
(***************************************************************************)
(* tunnel_handle_timeout after MAX_RETRANSMISSIONS: a tunnel that was not  *)
(* yet established counts as one failed call                               *)
tunnel_handle_timeout(t) ==
    /\ Running /\ Live(t) /\ tunnel[t].unacked
    /\ tunnel_free(t, IF tunnel[t].state \in {"wait_ctl_reply", "wait_ctl_conn"}
                      THEN 1 ELSE 0)
    /\ UNCHANGED <<phase, starts, wanted, up>>

tunnel_do_hello(t) ==
    /\ Running /\ tunnel[t].hello = "hello"
    /\ tunnel' = [tunnel EXCEPT ![t] = Xmit(@)]
    /\ UNCHANGED <<session, slave, redial, fail, phase, starts, wanted, up>>

tunnel_finally_cleanup(t) ==
    /\ Running /\ tunnel[t].hello = "destroy"
    /\ tunnel_free(t, 0)
    /\ UNCHANGED <<phase, starts, wanted, up>>

(***************************************************************************)
(* pppd.  It exits on its own or on SIGTERM; slave_exited runs when the    *)
(* event loop has reaped it, and redials whatever peer->fail says.         *)
(***************************************************************************)
PppdExits(p) ==
    /\ slave[p].state = "running"
    /\ slave' = [slave EXCEPT ![p].state = "exited"]
    /\ UNCHANGED <<tunnel, session, redial, fail, phase, starts, wanted, up>>

slave_exited(p) ==
    /\ Running /\ slave[p].state = "exited"
    /\ slave' = [slave EXCEPT ![p] = NoSlave]
    /\ IF slave[p].ses # None
       THEN /\ session_send_CDN(slave[p].ses)
            /\ redial' = IF Persist THEN redial + 1 ELSE redial
       ELSE UNCHANGED <<tunnel, session, redial>>
    /\ UNCHANGED <<fail, phase, starts, wanted, up>>

(***************************************************************************)
(* Shutdown by the exit command.  l2tp_tunnel_stop_all stops every tunnel, *)
(* then tunnel_cleanup runs the event loop until no tunnel is left.  (What *)
(* a signal adds to this is in module Signals.)                            *)
(***************************************************************************)
tunnel_cleanup ==
    /\ phase = "running"
    /\ phase' = "stopping"
    /\ tunnel' = [t \in Tid |-> IF Open(t) THEN tunnel_send_StopCCN(tunnel[t])
                                ELSE tunnel[t]]
    /\ UNCHANGED <<session, slave, redial, fail, starts, wanted, up>>

Exit ==
    /\ phase = "stopping" /\ \A t \in Tid : ~Live(t)
    /\ phase' = "exited"
    /\ UNCHANGED <<tunnel, session, slave, redial, fail, starts, wanted, up>>

Next ==
    \/ cmd_start_session
    \/ l2tp_tunnel_reestablish
    \/ \E s \in Sid : cmd_stop_session(s) \/ ReceiveICRP(s)
    \/ \E all \in BOOLEAN :
          \/ \E t \in Tid : \/ ReceiveNothingToDo(t, all)
                            \/ ReceiveSCCRP(t, all)
                            \/ ReceiveSCCCN(t, all)
          \/ \E s \in Sid : ReceiveCDN(s, all) \/ ReceiveICCN(s, all)
    \/ \E t \in Tid : \/ ReceiveStopCCN(t)
                      \/ HandleSCCRQ(t)
                      \/ ReceiveICRQ(t)
                      \/ tunnel_handle_timeout(t)
                      \/ tunnel_do_hello(t)
                      \/ tunnel_finally_cleanup(t)
    \/ \E p \in Pid : PppdExits(p) \/ slave_exited(p)
    \/ tunnel_cleanup
    \/ Exit

Spec == Init /\ [][Next]_vars

-----------------------------------------------------------------------------
(* Type correctness of the tables and counters. *)
CallsTypeOK ==
    /\ tunnel \in [Tid -> [state : StateName,
                           unacked : BOOLEAN,
                           hello : {"none", "hello", "destroy"},
                           used : BOOLEAN]]
    /\ session \in [Sid -> [state : {"none", "wait_tunnel", "wait_reply",
                                     "wait_connect", "established"},
                            tunnel : Tid \cup {None},
                            lac : BOOLEAN,
                            slave : Pid \cup {None}]]
    /\ slave \in [Pid -> [state : {"none", "running", "exited"},
                          killed : BOOLEAN,
                          ses : Sid \cup {None}]]
    /\ redial \in Nat /\ fail \in 0 .. MaxFail + 1
    /\ phase \in {"running", "stopping", "exited"}
    /\ starts \in 0 .. MaxStarts /\ wanted \in Nat /\ up \in BOOLEAN

(* No orphans: a pppd that has not been told to stop belongs to a session, *)
(* which is established and knows it; and an established session has its   *)
(* pppd, until the event loop has heard of its exit (establish_session,    *)
(* close_session and slave_exited keep the two pointers in step, whichever *)
(* of the call, the tunnel and the process ends first).                    *)
PppdAttached ==
    /\ \A p \in Pid :
          slave[p].state # "none" /\ ~slave[p].killed =>
              slave[p].ses \in Sid /\ session[slave[p].ses].slave = p
    /\ \A s \in Sid :
          IF session[s].state = "established"
          THEN /\ session[s].slave \in Pid
               /\ slave[session[s].slave].state # "none"
               /\ slave[session[s].slave].ses = s
          ELSE session[s].slave = None

(* No session is left behind by its tunnel: it is on a tunnel that exists  *)
(* and has not received StopCCN; while it waits for the tunnel the tunnel  *)
(* has not opened, and once it has sent a request the tunnel is open or    *)
(* being stopped (l2tp_tunnel_add_session against                          *)
(* tunnel_tell_sessions_tunnel_open, and the three places that free        *)
(* sessions with their tunnel).                                            *)
SessionsServed ==
    \A s \in Sid :
        session[s].state # "none" =>
            /\ session[s].tunnel \in Tid
            /\ tunnel[session[s].tunnel].state \in
                  (IF session[s].state = "wait_tunnel"
                   THEN {"wait_ctl_reply", "wait_ctl_conn", "sent_stop_ccn"}
                   ELSE {"established", "sent_stop_ccn"})

(* A tunnel that is up or going down always has a timer that acts on it:   *)
(* HELLO while established, destruction after a StopCCN of the peer,       *)
(* retransmission after one of ours.  HELLO and destruction share          *)
(* hello_handler.                                                          *)
TunnelsWatched ==
    \A t \in Tid :
        CASE tunnel[t].state = "established" -> tunnel[t].hello = "hello"
          [] tunnel[t].state = "received_stop_ccn" -> tunnel[t].hello = "destroy"
          [] tunnel[t].state = "sent_stop_ccn" -> tunnel[t].unacked
          [] OTHER -> TRUE

(* Without retain-tunnel, a tunnel that has carried sessions is being torn *)
(* down once it has none (l2tp_tunnel_delete_session).                     *)
TornDownWithLastSession ==
    \A t \in Tid : Open(t) /\ tunnel[t].used /\ ~Retain => Sessions(t) # {}

(* A call is never redialled twice, and one that was stopped not at all:   *)
(* the outgoing sessions and the pending redials together are never more   *)
(* than the calls the operator started and has not stopped.  For a peer    *)
(* that only we call, without retain-tunnel.                               *)
Outgoing == {s \in Sid : session[s].state # "none" /\ session[s].lac}

NoExtraCall == Cardinality(Outgoing) + redial <= wanted

(* What the manual says of persist: a call that has been up, and that the  *)
(* operator has not stopped, is there or will be redialled.                *)
PersistentCallKept ==
    Persist /\ MaxFail = 0 /\ up /\ phase = "running" =>
        Cardinality(Outgoing) + redial >= wanted

(***************************************************************************)
(* Liveness.  Timers that have expired and children that have exited are   *)
(* handled by the event loop; a queue that nobody acknowledges runs into   *)
(* MAX_RETRANSMISSIONS (EveryMessageSettled of Transport), since the peer  *)
(* does not for ever send messages, which reset the count, without         *)
(* acknowledging ours.  Nothing else is assumed of the peer, nor of the    *)
(* operator or of pppd.                                                    *)
(***************************************************************************)
Fairness ==
    /\ WF_vars(l2tp_tunnel_reestablish)
    /\ WF_vars(Exit)
    /\ \A t \in Tid : /\ WF_vars(tunnel_handle_timeout(t))
                      /\ WF_vars(tunnel_do_hello(t))
                      /\ WF_vars(tunnel_finally_cleanup(t))
    /\ \A p \in Pid : WF_vars(slave_exited(p))

FairSpec == Spec /\ Fairness

(* Shutdown ends unless a tunnel is opened while it waits: nothing that    *)
(* was there when it began can hold it up.                                 *)
ShutdownEndsUnlessReopened ==
    phase = "stopping" ~> (phase = "exited" \/ \E t \in Tid : Open(t))

(* With maxfail set, redialling goes on for ever only if calls keep        *)
(* getting through (peer->fail is counted wherever a redial is armed but   *)
(* in slave_exited, and reset only when a call is established).            *)
GivesUp ==
    []<>(redial > 0 /\ Running) => []<>(\E s \in Sid : session[s].state = "established")
=============================================================================

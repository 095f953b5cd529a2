----------------------------- MODULE CallsProofs -----------------------------
(***************************************************************************)
(* The safety of tunnels, sessions and pppd processes, for every number of *)
(* them, every configuration and every behaviour of the peer.              *)
(*                                                                         *)
(* CallsInv adds two facts to the invariants the runs check: a slave's     *)
(* session knows the slave, also after the process has exited, and a       *)
(* tunnel that received StopCCN has nothing in its queue.  The first part  *)
(* has one lemma for each way in which the actions change a tunnel and its *)
(* sessions, or the sessions and their processes; the second one lemma for *)
(* each action.                                                            *)
(***************************************************************************)
EXTENDS Calls, FiniteSetTheorems, TLAPS

TunnelRec == [state : StateName, unacked : BOOLEAN,
              hello : {"none", "hello", "destroy"}, used : BOOLEAN]
SessionRec == [state : {"none", "wait_tunnel", "wait_reply", "wait_connect",
                        "established"},
               tunnel : Tid \cup {None}, lac : BOOLEAN, slave : Pid \cup {None}]
SlaveRec == [state : {"none", "running", "exited"}, killed : BOOLEAN,
             ses : Sid \cup {None}]

(* a slave's session has not been freed, and knows its slave *)
SlavesHooked ==
    \A p \in Pid : slave[p].ses # None =>
        slave[p].state # "none" /\ session[slave[p].ses].slave = p

(* TunnelsWatched for one tunnel, and: nothing follows the peer's StopCCN *)
Watched(r) ==
    /\ r.state = "established" => r.hello = "hello"
    /\ r.state = "received_stop_ccn" => r.hello = "destroy" /\ ~r.unacked
    /\ r.state = "sent_stop_ccn" => r.unacked

CallsInv ==
    /\ CallsTypeOK
    /\ PppdAttached
    /\ SlavesHooked
    /\ SessionsServed
    /\ \A t \in Tid : Watched(tunnel[t])
    /\ TornDownWithLastSession

(* the counters and flags of CallsTypeOK *)
Counters ==
    /\ redial \in Nat /\ fail \in 0 .. MaxFail + 1
    /\ phase \in {"running", "stopping", "exited"}
    /\ starts \in 0 .. MaxStarts /\ wanted \in Nat /\ up \in BOOLEAN

(* the states of a tunnel in which it may have a session in state st *)
Serving(st) == IF st = "wait_tunnel"
               THEN {"wait_ctl_reply", "wait_ctl_conn", "sent_stop_ccn"}
               ELSE {"established", "sent_stop_ccn"}

(* a tunnel that must have a session, see TornDownWithLastSession *)
MustCarry(r) ==
    /\ r.state \in {"wait_ctl_reply", "wait_ctl_conn", "established"}
    /\ r.used /\ ~Retain

(* CallsInv, taken apart. *)
LEMMA Unfold ==
    ASSUME CallsInv
    PROVE  /\ tunnel \in [Tid -> TunnelRec] /\ session \in [Sid -> SessionRec]
           /\ slave \in [Pid -> SlaveRec] /\ Counters
           /\ PppdAttached /\ SlavesHooked /\ SessionsServed
           /\ \A t \in Tid : Watched(tunnel[t])
           /\ TornDownWithLastSession
  BY DEF CallsInv, CallsTypeOK, TunnelRec, SessionRec, SlaveRec, Counters

(* And put together, after a step. *)
LEMMA Fold ==
    ASSUME tunnel' \in [Tid -> TunnelRec], session' \in [Sid -> SessionRec],
           slave' \in [Pid -> SlaveRec], Counters',
           PppdAttached', SlavesHooked', SessionsServed',
           \A t \in Tid : Watched(tunnel'[t]), TornDownWithLastSession'
    PROVE  CallsInv'
  BY DEF CallsInv, CallsTypeOK, TunnelRec, SessionRec, SlaveRec, Counters

(* What is known of one session and its tunnel. *)
LEMMA SessionFacts ==
    ASSUME CallsInv, NEW s \in Sid, session[s].state # "none"
    PROVE  /\ session[s].tunnel \in Tid
           /\ tunnel[session[s].tunnel] \in TunnelRec
           /\ Watched(tunnel[session[s].tunnel])
           /\ tunnel[session[s].tunnel].state \in Serving(session[s].state)
           /\ s \in Sessions(session[s].tunnel)
  BY Unfold DEF SessionsServed, Serving, Sessions

(***************************************************************************)
(* A tunnel and its sessions.                                              *)
(***************************************************************************)

(* A step changes tunnel t to r, and sessions that are on t or none.       *)
LEMMA TunnelStep ==
    ASSUME CallsInv, NEW t \in Tid, NEW r \in TunnelRec, Watched(r),
           tunnel' = [tunnel EXCEPT ![t] = r], session' \in [Sid -> SessionRec],
           \A s \in Sid : \/ session'[s] = session[s]
                          \/ /\ session[s].state = "none" \/ session[s].tunnel = t
                             /\ session'[s].state = "none" \/ session'[s].tunnel = t,
           \A s \in Sid : session'[s].state # "none" /\ session'[s].tunnel = t
                              => r.state \in Serving(session'[s].state),
           MustCarry(r) => \E s \in Sid : session'[s].state # "none" /\ session'[s].tunnel = t
    PROVE  /\ tunnel' \in [Tid -> TunnelRec] /\ SessionsServed'
           /\ \A x \in Tid : Watched(tunnel'[x])
           /\ TornDownWithLastSession'
  <1>1. tunnel \in [Tid -> TunnelRec] /\ session \in [Sid -> SessionRec]
    BY Unfold
  <1>2. tunnel' \in [Tid -> TunnelRec]
    BY <1>1
  <1>3. \A x \in Tid : tunnel'[x] = IF x = t THEN r ELSE tunnel[x]
    BY <1>1
  <1>4. \A x \in Tid : Watched(tunnel'[x])
    BY <1>3, Unfold
  <1>5. SessionsServed'
    <2> SUFFICES ASSUME NEW s \in Sid, session'[s].state # "none"
                 PROVE  /\ session'[s].tunnel \in Tid
                        /\ tunnel'[session'[s].tunnel].state
                              \in Serving(session'[s].state)
      BY DEF SessionsServed, Serving
    <2>1. CASE session'[s].tunnel = t
      BY <1>3, <2>1
    <2>2. CASE session'[s].tunnel # t
      <3>1. session'[s] = session[s]
        BY <2>2
      <3>. QED
        BY <1>3, <2>2, <3>1, SessionFacts
    <2>. QED
      BY <2>1, <2>2
  <1>6. TornDownWithLastSession'
    <2> SUFFICES ASSUME NEW x \in Tid, Open(x)', tunnel'[x].used, ~Retain
                 PROVE  \E s \in Sid : session'[s].state # "none" /\ session'[s].tunnel = x
      BY DEF TornDownWithLastSession, Sessions
    <2>1. CASE x = t
      BY <1>3, <2>1 DEF Open, MustCarry
    <2>2. CASE x # t
      <3>1. Open(x) /\ tunnel[x].used
        BY <1>3, <2>2 DEF Open
      <3>2. Sessions(x) # {}
        BY <3>1, Unfold DEF TornDownWithLastSession
      <3>3. PICK s \in Sid : session[s].state # "none" /\ session[s].tunnel = x
        BY <3>2 DEF Sessions
      <3>4. session'[s] = session[s]
        BY <2>2, <3>3
      <3>. QED
        BY <3>3, <3>4
    <2>. QED
      BY <2>1, <2>2
  <1>. QED
    BY <1>2, <1>4, <1>5, <1>6

(* The same when the sessions stay as they are: the tunnel keeps its       *)
(* state, is stopped by us, or is new.                                     *)
LEMMA TunnelOnly ==
    ASSUME CallsInv, NEW t \in Tid, NEW r \in TunnelRec, Watched(r),
           tunnel' = [tunnel EXCEPT ![t] = r], session' = session,
           \/ r.state = tunnel[t].state /\ r.used = tunnel[t].used
           \/ r.state = "sent_stop_ccn"
           \/ tunnel[t].state = "none" /\ ~r.used
    PROVE  /\ tunnel' \in [Tid -> TunnelRec] /\ SessionsServed'
           /\ \A x \in Tid : Watched(tunnel'[x])
           /\ TornDownWithLastSession'
  <1>1. session \in [Sid -> SessionRec]
    BY Unfold
  <1>2. \A s \in Sid : session[s].state # "none" /\ session[s].tunnel = t
                           => r.state \in Serving(session[s].state)
    BY SessionFacts DEF Serving
  <1>3. MustCarry(r) => \E s \in Sid : session[s].state # "none" /\ session[s].tunnel = t
    BY Unfold DEF TornDownWithLastSession, Open, Sessions, MustCarry
  <1>4. /\ session' \in [Sid -> SessionRec]
        /\ \A s \in Sid : session'[s] = session[s]
        /\ \A s \in Sid : session'[s].state # "none" /\ session'[s].tunnel = t
                              => r.state \in Serving(session'[s].state)
        /\ MustCarry(r) => \E s \in Sid : session'[s].state # "none"
                                          /\ session'[s].tunnel = t
    BY <1>1, <1>2, <1>3
  <1>. QED
    BY <1>4, TunnelStep

(* The same when sessions of t are freed: with them goes a tunnel that was *)
(* told to stop, one that had no other session, or none.                   *)
LEMMA SessionsFreed ==
    ASSUME CallsInv, NEW t \in Tid, NEW r \in TunnelRec, Watched(r),
           tunnel' = [tunnel EXCEPT ![t] = r],
           NEW S \in SUBSET Sessions(t), session_free(S),
           \/ /\ r.state = tunnel[t].state /\ r.used = tunnel[t].used
              /\ S = {} \/ Retain \/ Sessions(t) \ S # {}
           \/ r.state = "sent_stop_ccn"
           \/ r.state \in {"none", "received_stop_ccn"} /\ S = Sessions(t)
    PROVE  /\ tunnel' \in [Tid -> TunnelRec] /\ SessionsServed'
           /\ \A x \in Tid : Watched(tunnel'[x])
           /\ TornDownWithLastSession'
           /\ session' \in [Sid -> SessionRec]
  <1>1. session \in [Sid -> SessionRec]
    BY Unfold
  <1>2. NoSession \in SessionRec
    BY DEF NoSession, SessionRec
  <1>3. session' = [s \in Sid |-> IF s \in S THEN NoSession ELSE session[s]]
    BY DEF session_free
  <1>4. session' \in [Sid -> SessionRec]
    BY <1>1, <1>2, <1>3
  <1>5. \A s \in S : session[s].tunnel = t /\ session'[s].state = "none"
    BY <1>3 DEF Sessions, NoSession
  <1>6. \A s \in Sid \ S : session'[s] = session[s]
    BY <1>3
  <1>7. \A s \in Sid : session'[s].state # "none" /\ session'[s].tunnel = t
                           => r.state \in Serving(session'[s].state)
    <2> SUFFICES ASSUME NEW s \in Sid, session'[s].state # "none",
                        session'[s].tunnel = t
                 PROVE  r.state \in Serving(session'[s].state)
      OBVIOUS
    <2>1. s \notin S /\ session'[s] = session[s]
      BY <1>5, <1>6
    <2>2. s \in Sessions(t) /\ tunnel[t].state \in Serving(session[s].state)
      BY <2>1, SessionFacts
    <2>. QED
      BY <2>1, <2>2 DEF Serving
  <1>8. MustCarry(r) => \E s \in Sid : session'[s].state # "none" /\ session'[s].tunnel = t
    <2> SUFFICES ASSUME MustCarry(r)
                 PROVE  \E s \in Sid : session'[s].state # "none" /\ session'[s].tunnel = t
      OBVIOUS
    <2>1. Sessions(t) \ S # {}
      <3>1. S = {} => Sessions(t) # {}
        BY Unfold DEF TornDownWithLastSession, Open, MustCarry
      <3>. QED
        BY <3>1 DEF MustCarry
    <2>. QED
      BY <1>6, <2>1 DEF Sessions
  <1>9. \A s \in Sid : \/ session'[s] = session[s]
                       \/ /\ session[s].state = "none" \/ session[s].tunnel = t
                          /\ session'[s].state = "none" \/ session'[s].tunnel = t
    BY <1>5, <1>6
  <1>. QED
    BY <1>4, <1>7, <1>8, <1>9, TunnelStep

(***************************************************************************)
(* The sessions and their pppd processes.                                  *)
(***************************************************************************)

(* close_session for sessions that are freed. *)
LEMMA SlavesClosed ==
    ASSUME CallsInv, NEW S \in SUBSET Sid, session_free(S), close_session(S)
    PROVE  slave' \in [Pid -> SlaveRec] /\ PppdAttached' /\ SlavesHooked'
  <1>1. /\ session \in [Sid -> SessionRec] /\ slave \in [Pid -> SlaveRec]
        /\ PppdAttached /\ SlavesHooked
    BY Unfold
  <1>2. /\ \A s \in Sid : session'[s] = IF s \in S THEN NoSession ELSE session[s]
        /\ \A p \in Pid : slave'[p] = IF slave[p].ses \in S
                                      THEN [slave[p] EXCEPT !.ses = None, !.killed = TRUE]
                                      ELSE slave[p]
    BY DEF session_free, close_session
  <1>3. slave' \in [Pid -> SlaveRec]
    <2>1. \A p \in Pid : [slave[p] EXCEPT !.ses = None, !.killed = TRUE] \in SlaveRec
      BY <1>1 DEF SlaveRec
    <2>. QED
      BY <1>1, <2>1 DEF close_session
  <1>4. ASSUME NEW p \in Pid, slave[p].ses \in S
        PROVE  slave'[p].ses = None /\ slave'[p].killed
    BY <1>1, <1>2, <1>4 DEF SlaveRec
  <1>5. ASSUME NEW p \in Pid, slave[p].ses \notin S
        PROVE  slave'[p] = slave[p]
    BY <1>2, <1>5
  <1>6. ASSUME NEW s \in S
        PROVE  session'[s].state = "none" /\ session'[s].slave = None
    <2>1. s \in Sid /\ session'[s] = NoSession
      BY <1>2
    <2>. QED
      BY <2>1 DEF NoSession
  <1>7. \A s \in Sid \ S : session'[s] = session[s]
    BY <1>2
  <1>8. SlavesHooked'
    <2> SUFFICES ASSUME NEW p \in Pid, slave'[p].ses # None
                 PROVE  slave'[p].state # "none" /\ session'[slave'[p].ses].slave = p
      BY DEF SlavesHooked
    <2>1. slave[p].ses \notin S /\ slave'[p] = slave[p] /\ slave[p].ses \in Sid
      BY <1>1, <1>4, <1>5 DEF SlaveRec
    <2>. QED
      BY <1>1, <1>7, <2>1 DEF SlavesHooked
  <1>9. ASSUME NEW p \in Pid, slave'[p].state # "none", ~slave'[p].killed
        PROVE  slave'[p].ses \in Sid /\ session'[slave'[p].ses].slave = p
    <2>1. slave[p].ses \notin S /\ slave'[p] = slave[p]
      BY <1>4, <1>5, <1>9
    <2>2. slave[p].ses \in Sid /\ session[slave[p].ses].slave = p
      BY <1>1, <1>9, <2>1 DEF PppdAttached
    <2>. QED
      BY <1>7, <2>1, <2>2
  <1>10. ASSUME NEW s \in Sid
         PROVE  IF session'[s].state = "established"
                THEN /\ session'[s].slave \in Pid
                     /\ slave'[session'[s].slave].state # "none"
                     /\ slave'[session'[s].slave].ses = s
                ELSE session'[s].slave = None
    <2>1. CASE s \in S
      BY <1>6, <2>1
    <2>2. CASE s \notin S
      <3>1. session'[s] = session[s]
        BY <1>7, <2>2
      <3>2. CASE session[s].state = "established"
        <4>1. /\ session[s].slave \in Pid
              /\ slave[session[s].slave].state # "none"
              /\ slave[session[s].slave].ses = s
          BY <1>1, <3>2 DEF PppdAttached
        <4>2. slave'[session[s].slave] = slave[session[s].slave]
          BY <1>5, <2>2, <4>1
        <4>. QED
          BY <3>1, <3>2, <4>1, <4>2
      <3>3. CASE session[s].state # "established"
        BY <1>1, <3>1, <3>3 DEF PppdAttached
      <3>. QED
        BY <3>2, <3>3
    <2>. QED
      BY <2>1, <2>2
  <1>. QED
    BY <1>3, <1>8, <1>9, <1>10 DEF PppdAttached

(* Sessions come and change, but none is established or ends. *)
LEMMA SlavesSame ==
    ASSUME CallsInv, slave' = slave,
           \A s \in Sid : /\ session'[s].slave = session[s].slave
                          /\ session'[s].state = "established"
                                <=> session[s].state = "established"
    PROVE  slave' \in [Pid -> SlaveRec] /\ PppdAttached' /\ SlavesHooked'
  <1>1. slave \in [Pid -> SlaveRec] /\ PppdAttached /\ SlavesHooked
    BY Unfold
  <1>2. SlavesHooked'
    BY <1>1 DEF SlavesHooked, SlaveRec
  <1>. QED
    BY <1>1, <1>2 DEF PppdAttached

(* establish_session of a session that has no pppd yet. *)
LEMMA SlaveStarted ==
    ASSUME CallsInv, NEW s \in Sid, NEW p \in Pid, establish_session(s, p),
           session[s].state # "established"
    PROVE  /\ slave' \in [Pid -> SlaveRec] /\ PppdAttached' /\ SlavesHooked'
           /\ session' \in [Sid -> SessionRec]
           /\ session'[s].state = "established"
           /\ session'[s].tunnel = session[s].tunnel
           /\ \A x \in Sid \ {s} : session'[x] = session[x]
  <1>1. /\ session \in [Sid -> SessionRec] /\ slave \in [Pid -> SlaveRec]
        /\ PppdAttached /\ SlavesHooked
    BY Unfold
  <1>2. /\ slave[p].state = "none" /\ slave[p].ses = None
        /\ slave'[p] = [state |-> "running", killed |-> FALSE, ses |-> s]
        /\ \A q \in Pid \ {p} : slave'[q] = slave[q]
    BY <1>1 DEF establish_session, SlavesHooked
  <1>3. /\ session'[s].state = "established" /\ session'[s].slave = p
        /\ session'[s].tunnel = session[s].tunnel
        /\ \A x \in Sid \ {s} : session'[x] = session[x]
    BY <1>1 DEF establish_session, SessionRec
  <1>4. slave' \in [Pid -> SlaveRec]
    BY <1>1 DEF establish_session, SlaveRec
  <1>5. session' \in [Sid -> SessionRec]
    BY <1>1 DEF establish_session, SessionRec
  <1>6. session[s].slave = None
    BY <1>1 DEF PppdAttached
  <1>7. \A q \in Pid \ {p} : slave[q].ses # s
    BY <1>1, <1>6, NoneAssumption DEF SlavesHooked
  <1>8. SlavesHooked'
    <2> SUFFICES ASSUME NEW q \in Pid, slave'[q].ses # None
                 PROVE  slave'[q].state # "none" /\ session'[slave'[q].ses].slave = q
      BY DEF SlavesHooked
    <2>1. CASE q = p
      BY <1>2, <1>3, <2>1
    <2>2. CASE q # p
      <3>1. slave'[q] = slave[q] /\ slave[q].ses \in Sid \ {s}
        BY <1>1, <1>2, <1>7, <2>2 DEF SlaveRec
      <3>. QED
        BY <1>1, <1>3, <3>1 DEF SlavesHooked
    <2>. QED
      BY <2>1, <2>2
  <1>9. ASSUME NEW q \in Pid, slave'[q].state # "none", ~slave'[q].killed
        PROVE  slave'[q].ses \in Sid /\ session'[slave'[q].ses].slave = q
    <2>1. CASE q = p
      BY <1>2, <1>3, <2>1
    <2>2. CASE q # p
      BY <1>1, <1>2, <1>3, <1>7, <1>9, <2>2 DEF PppdAttached
    <2>. QED
      BY <2>1, <2>2
  <1>10. ASSUME NEW x \in Sid
         PROVE  IF session'[x].state = "established"
                THEN /\ session'[x].slave \in Pid
                     /\ slave'[session'[x].slave].state # "none"
                     /\ slave'[session'[x].slave].ses = x
                ELSE session'[x].slave = None
    <2>1. CASE x = s
      BY <1>2, <1>3, <2>1
    <2>2. CASE x # s
      <3>1. session'[x] = session[x]
        BY <1>3, <2>2
      <3>2. session[x].state = "established" => session[x].slave # p
        BY <1>1, <1>2 DEF PppdAttached
      <3>. QED
        BY <1>1, <1>2, <3>1, <3>2 DEF PppdAttached
    <2>. QED
      BY <2>1, <2>2
  <1>. QED
    BY <1>3, <1>4, <1>5, <1>8, <1>9, <1>10 DEF PppdAttached

(* The entry of a process that has exited goes, and its session with it. *)
LEMMA SlaveReaped ==
    ASSUME CallsInv, NEW p \in Pid, slave' = [slave EXCEPT ![p] = NoSlave],
           \/ slave[p].ses = None /\ session' = session
           \/ slave[p].ses # None /\ session_free({slave[p].ses})
    PROVE  slave' \in [Pid -> SlaveRec] /\ PppdAttached' /\ SlavesHooked'
  <1>1. /\ session \in [Sid -> SessionRec] /\ slave \in [Pid -> SlaveRec]
        /\ PppdAttached /\ SlavesHooked
    BY Unfold
  <1> DEFINE z == slave[p].ses
  <1>2. /\ slave'[p].state = "none" /\ slave'[p].ses = None
        /\ \A q \in Pid \ {p} : slave'[q] = slave[q]
    BY <1>1 DEF NoSlave
  <1>3. slave' \in [Pid -> SlaveRec]
    BY <1>1 DEF NoSlave, SlaveRec
  <1>4. /\ \A s \in Sid : s # z => session'[s] = session[s]
        /\ \A s \in Sid : s = z => session'[s].state = "none" /\ session'[s].slave = None
    BY <1>1, NoneAssumption DEF session_free, NoSession
  <1>5. \A q \in Pid \ {p} : slave[q].ses # None => slave[q].ses # z
    BY <1>1 DEF SlavesHooked
  <1>6. \A s \in Sid : session[s].state = "established" /\ s # z => session[s].slave # p
    BY <1>1 DEF PppdAttached
  <1> HIDE DEF z
  <1>7. SlavesHooked'
    <2> SUFFICES ASSUME NEW q \in Pid, slave'[q].ses # None
                 PROVE  slave'[q].state # "none" /\ session'[slave'[q].ses].slave = q
      BY DEF SlavesHooked
    <2>1. q # p /\ slave'[q] = slave[q] /\ slave[q].ses \in Sid /\ slave[q].ses # z
      BY <1>1, <1>2, <1>5 DEF SlaveRec
    <2>. QED
      BY <1>1, <1>4, <2>1 DEF SlavesHooked
  <1>8. ASSUME NEW q \in Pid, slave'[q].state # "none", ~slave'[q].killed
        PROVE  slave'[q].ses \in Sid /\ session'[slave'[q].ses].slave = q
    <2>1. q # p /\ slave'[q] = slave[q] /\ slave[q].ses \in Sid
          /\ session[slave[q].ses].slave = q
      BY <1>1, <1>2, <1>8 DEF PppdAttached
    <2>. QED
      BY <1>4, <1>5, <2>1, NoneAssumption
  <1>9. ASSUME NEW x \in Sid
        PROVE  IF session'[x].state = "established"
               THEN /\ session'[x].slave \in Pid
                    /\ slave'[session'[x].slave].state # "none"
                    /\ slave'[session'[x].slave].ses = x
               ELSE session'[x].slave = None
    <2>1. CASE x = z
      BY <1>4, <2>1
    <2>2. CASE x # z
      BY <1>1, <1>2, <1>4, <1>6, <2>2 DEF PppdAttached
    <2>. QED
      BY <2>1, <2>2
  <1>. QED
    BY <1>3, <1>7, <1>8, <1>9 DEF PppdAttached

(***************************************************************************)
(* Counting calls.                                                         *)
(***************************************************************************)

(* The number of calls that a step ends. *)
LEMMA EndedCount ==
    ASSUME NEW S \in SUBSET Sid
    PROVE  Cardinality(WithSlave(S)) \in Nat
  <1>1. WithSlave(S) \subseteq Sid
    BY DEF WithSlave
  <1>2. IsFiniteSet(WithSlave(S))
    BY <1>1, FiniteAssumption, FS_Subset
  <1>. QED
    BY <1>2, FS_CardinalityType

(* The redials and the failures after n calls have ended. *)
LEMMA RedialCount ==
    ASSUME NEW f \in 0 .. MaxFail + 1, NEW n \in Nat
    PROVE  Redials(f, n) \in Nat /\ FailsAfter(f, n) \in 0 .. MaxFail + 1
  BY MaxFailAssumption DEF Redials, FailsAfter, Least

(* The counters after a step in which n calls end. *)
LEMMA CountersKept ==
    ASSUME CallsInv, NEW f \in 0 .. MaxFail + 1, NEW n \in Nat, MayRedial(f, n),
           UNCHANGED <<phase, starts, wanted, up>>
    PROVE  Counters'
  <1>1. Counters
    BY Unfold
  <1>2. Redials(f, n) \in Nat /\ FailsAfter(f, n) \in 0 .. MaxFail + 1
    BY RedialCount
  <1>3. redial' = redial + Redials(f, n) /\ fail' = FailsAfter(f, n)
    BY DEF MayRedial
  <1>. QED
    BY <1>1, <1>2, <1>3 DEF Counters

(* What the last part of receiving a message leaves. *)
LEMMA Received ==
    ASSUME CallsInv, NEW t \in Tid, NEW r \in TunnelRec,
           NEW D \in SUBSET Sessions(t), NEW n \in Nat, EndReceive(t, r, D, n),
           UNCHANGED <<phase, starts, wanted, up>>,
           r.state = "established" => r.hello = "hello",
           r.state = "received_stop_ccn" => ~r.unacked,
           \/ /\ r.state = tunnel[t].state /\ r.used = tunnel[t].used
              /\ D = {} \/ Retain \/ Sessions(t) \ D # {}
           \/ r.state = "sent_stop_ccn"
           \/ r.state = "received_stop_ccn" /\ D = Sessions(t)
    PROVE  CallsInv'
  <1> DEFINE gone == IF FreedNow(r) THEN Sessions(t) ELSE D
             q == IF FreedNow(r) THEN NoTunnel
                  ELSE IF ~r.unacked /\ r.state = "received_stop_ccn"
                       THEN tunnel_schedule_destruction(r)
                       ELSE r
  <1>1. /\ tunnel' = [tunnel EXCEPT ![t] = q]
        /\ session_free(gone) /\ close_session(gone)
        /\ MayRedial(fail, n + Cardinality(WithSlave(gone \ D)))
    BY DEF EndReceive
  <1>2. q \in TunnelRec /\ Watched(q)
    BY DEF FreedNow, NoTunnel, tunnel_schedule_destruction, TunnelRec, StateName, Watched
  <1>3. \/ /\ q.state = tunnel[t].state /\ q.used = tunnel[t].used
           /\ gone = {} \/ Retain \/ Sessions(t) \ gone # {}
        \/ q.state = "sent_stop_ccn"
        \/ q.state \in {"none", "received_stop_ccn"} /\ gone = Sessions(t)
    <2>1. CASE FreedNow(r)
      BY <2>1 DEF NoTunnel
    <2>2. CASE ~FreedNow(r)
      <3>1. gone = D /\ q.state = r.state /\ q.used = r.used
        BY <2>2 DEF tunnel_schedule_destruction, TunnelRec
      <3>. QED
        BY <3>1
    <2>. QED
      BY <2>1, <2>2
  <1>4. gone \in SUBSET Sessions(t) /\ gone \in SUBSET Sid /\ gone \ D \in SUBSET Sid
    BY DEF Sessions
  <1> HIDE DEF gone, q
  <1>5. Counters'
    <2>1. n + Cardinality(WithSlave(gone \ D)) \in Nat /\ fail \in 0 .. MaxFail + 1
      BY <1>4, EndedCount, Unfold DEF Counters
    <2>. QED
      BY <1>1, <2>1, CountersKept
  <1>6. /\ tunnel' \in [Tid -> TunnelRec] /\ SessionsServed'
        /\ \A x \in Tid : Watched(tunnel'[x])
        /\ TornDownWithLastSession'
        /\ session' \in [Sid -> SessionRec]
    BY <1>1, <1>2, <1>3, <1>4, SessionsFreed
  <1>7. slave' \in [Pid -> SlaveRec] /\ PppdAttached' /\ SlavesHooked'
    BY <1>1, <1>4, SlavesClosed
  <1>. QED
    BY <1>5, <1>6, <1>7, Fold

(* A tunnel is freed with its sessions. *)
LEMMA Freed ==
    ASSUME CallsInv, NEW t \in Tid, NEW n \in Nat, tunnel_free(t, n),
           UNCHANGED <<phase, starts, wanted, up>>
    PROVE  CallsInv'
  <1> DEFINE S == Sessions(t)
  <1>1. /\ tunnel' = [tunnel EXCEPT ![t] = NoTunnel]
        /\ session_free(S) /\ close_session(S)
        /\ MayRedial(fail, n + Cardinality(WithSlave(S)))
    BY DEF tunnel_free
  <1>2. S \in SUBSET Sessions(t) /\ S \in SUBSET Sid /\ S = Sessions(t)
    BY DEF Sessions
  <1>3. NoTunnel \in TunnelRec /\ Watched(NoTunnel) /\ NoTunnel.state = "none"
    BY DEF NoTunnel, TunnelRec, StateName, Watched
  <1> HIDE DEF S
  <1>4. Counters'
    <2>1. n + Cardinality(WithSlave(S)) \in Nat /\ fail \in 0 .. MaxFail + 1
      BY <1>2, EndedCount, Unfold DEF Counters
    <2>. QED
      BY <1>1, <2>1, CountersKept
  <1>5. /\ tunnel' \in [Tid -> TunnelRec] /\ SessionsServed'
        /\ \A x \in Tid : Watched(tunnel'[x])
        /\ TornDownWithLastSession'
        /\ session' \in [Sid -> SessionRec]
    BY <1>1, <1>2, <1>3, SessionsFreed
  <1>6. slave' \in [Pid -> SlaveRec] /\ PppdAttached' /\ SlavesHooked'
    BY <1>1, <1>2, SlavesClosed
  <1>. QED
    BY <1>4, <1>5, <1>6, Fold

(* The tunnel and the sessions after l2tp_session_send_CDN. *)
LEMMA CDNSent ==
    ASSUME CallsInv, NEW s \in Sid, session[s].state # "none", session_send_CDN(s)
    PROVE  /\ tunnel' \in [Tid -> TunnelRec] /\ SessionsServed'
           /\ \A x \in Tid : Watched(tunnel'[x])
           /\ TornDownWithLastSession'
           /\ session' \in [Sid -> SessionRec]
  <1> DEFINE t == session[s].tunnel
             r == delete_session(s, Xmit(tunnel[t]))
  <1>1. /\ t \in Tid /\ tunnel[t] \in TunnelRec /\ Watched(tunnel[t])
        /\ tunnel[t].state \in Serving(session[s].state) /\ s \in Sessions(t)
    BY SessionFacts
  <1>2. tunnel' = [tunnel EXCEPT ![t] = r] /\ session_free({s})
    BY DEF session_send_CDN
  <1>3. {s} \in SUBSET Sessions(t)
    BY <1>1
  <1>4. /\ r \in TunnelRec /\ Watched(r)
        /\ \/ /\ r.state = tunnel[t].state /\ r.used = tunnel[t].used
              /\ {s} = {} \/ Retain \/ Sessions(t) \ {s} # {}
           \/ r.state = "sent_stop_ccn"
    BY <1>1 DEF delete_session, tunnel_send_StopCCN, Xmit, TunnelRec, StateName,
                Watched, Serving
  <1> HIDE DEF t, r
  <1>. QED
    BY <1>1, <1>2, <1>3, <1>4, SessionsFreed

(* A session is refused or stopped: CDN, and its pppd is told to stop. *)
LEMMA CallRefused ==
    ASSUME CallsInv, NEW s \in Sid, session[s].state # "none", session_send_CDN(s),
           close_session({s}), Counters'
    PROVE  CallsInv'
  <1>1. {s} \in SUBSET Sid /\ session_free({s})
    BY DEF session_send_CDN
  <1>2. slave' \in [Pid -> SlaveRec] /\ PppdAttached' /\ SlavesHooked'
    BY <1>1, SlavesClosed
  <1>. QED
    BY <1>2, CDNSent, Fold

(* A new session on a tunnel that is open, or opens. *)
LEMMA SessionAdded ==
    ASSUME CallsInv, NEW t \in Tid, NEW r \in TunnelRec, Watched(r),
           r.state = tunnel[t].state \/ tunnel[t].state = "none",
           tunnel' = [tunnel EXCEPT ![t] = r],
           NEW s \in Sid, session[s].state = "none",
           NEW q \in SessionRec, q.tunnel = t, q.slave = None,
           q.state \notin {"none", "established"}, r.state \in Serving(q.state),
           session' = [session EXCEPT ![s] = q], slave' = slave, Counters'
    PROVE  CallsInv'
  <1>1. session \in [Sid -> SessionRec] /\ PppdAttached
    BY Unfold
  <1>2. /\ session' \in [Sid -> SessionRec] /\ session'[s] = q
        /\ \A x \in Sid \ {s} : session'[x] = session[x]
    BY <1>1
  <1>3. \A x \in Sid : session'[x].state # "none" /\ session'[x].tunnel = t
                           => r.state \in Serving(session'[x].state)
    BY <1>2, SessionFacts DEF Serving
  <1>4. /\ tunnel' \in [Tid -> TunnelRec] /\ SessionsServed'
        /\ \A x \in Tid : Watched(tunnel'[x])
        /\ TornDownWithLastSession'
    <2>1. \A x \in Sid :
             \/ session'[x] = session[x]
             \/ /\ session[x].state = "none" \/ session[x].tunnel = t
                /\ session'[x].state = "none" \/ session'[x].tunnel = t
      BY <1>2
    <2>2. \E x \in Sid : session'[x].state # "none" /\ session'[x].tunnel = t
      BY <1>2
    <2>. QED
      BY <1>2, <1>3, <2>1, <2>2, TunnelStep
  <1>5. \A x \in Sid : /\ session'[x].slave = session[x].slave
                       /\ session'[x].state = "established"
                             <=> session[x].state = "established"
    BY <1>1, <1>2 DEF PppdAttached
  <1>6. slave' \in [Pid -> SlaveRec] /\ PppdAttached' /\ SlavesHooked'
    BY <1>5, SlavesSame
  <1>. QED
    BY <1>2, <1>4, <1>6, Fold

(* A step that changes one tunnel only. *)
LEMMA OneTunnel ==
    ASSUME CallsInv, NEW t \in Tid, NEW r \in TunnelRec, Watched(r),
           tunnel' = [tunnel EXCEPT ![t] = r], session' = session, slave' = slave,
           Counters',
           \/ r.state = tunnel[t].state /\ r.used = tunnel[t].used
           \/ r.state = "sent_stop_ccn"
           \/ tunnel[t].state = "none" /\ ~r.used
    PROVE  CallsInv'
  <1>1. /\ tunnel' \in [Tid -> TunnelRec] /\ SessionsServed'
        /\ \A x \in Tid : Watched(tunnel'[x])
        /\ TornDownWithLastSession'
    BY TunnelOnly
  <1>2. session' \in [Sid -> SessionRec]
    BY Unfold
  <1>3. slave' \in [Pid -> SlaveRec] /\ PppdAttached' /\ SlavesHooked'
    BY SlavesSame
  <1>. QED
    BY <1>1, <1>2, <1>3, Fold

(***************************************************************************)
(* The actions.                                                            *)
(***************************************************************************)

(* A message that is only acknowledged. *)
LEMMA NothingToDo ==
    ASSUME CallsInv, NEW t \in Tid, NEW all \in BOOLEAN, ReceiveNothingToDo(t, all)
    PROVE  CallsInv'
  <1>1. PICK x \in {tunnel[t], tunnel_setup_hello(tunnel[t])} :
           EndReceive(t, Acked(x, all), {}, 0)
    BY DEF ReceiveNothingToDo
  <1> DEFINE r == Acked(x, all)
  <1>2. tunnel[t] \in TunnelRec /\ Watched(tunnel[t])
    BY Unfold
  <1>3. /\ r \in TunnelRec
        /\ r.state = "established" => r.hello = "hello"
        /\ r.state = "received_stop_ccn" => ~r.unacked
        /\ r.state = tunnel[t].state /\ r.used = tunnel[t].used
    BY <1>2 DEF Acked, tunnel_setup_hello, TunnelRec, Watched
  <1>4. EndReceive(t, r, {}, 0) /\ UNCHANGED <<phase, starts, wanted, up>>
    BY <1>1 DEF ReceiveNothingToDo
  <1> HIDE DEF r
  <1>. QED
    BY <1>3, <1>4, Received

(* The peer stops the tunnel. *)
LEMMA StopCCNReceived ==
    ASSUME CallsInv, NEW t \in Tid, ReceiveStopCCN(t)
    PROVE  CallsInv'
  <1> DEFINE r == [tunnel[t] EXCEPT !.state = "received_stop_ccn", !.unacked = FALSE]
             S == Sessions(t)
             n == Cardinality(WithSlave(S))
  <1>1. EndReceive(t, r, S, n) /\ UNCHANGED <<phase, starts, wanted, up>>
    BY DEF ReceiveStopCCN
  <1>2. tunnel[t] \in TunnelRec
    BY Unfold
  <1>3. r \in TunnelRec /\ r.state = "received_stop_ccn" /\ ~r.unacked
    BY <1>2 DEF TunnelRec, StateName
  <1>4. S \in SUBSET Sessions(t) /\ S = Sessions(t) /\ S \in SUBSET Sid
    BY DEF Sessions
  <1>5. n \in Nat
    BY <1>4, EndedCount
  <1> HIDE DEF r, S, n
  <1>. QED
    BY <1>1, <1>3, <1>4, <1>5, Received

(* The peer ends a call. *)
LEMMA CDNReceived ==
    ASSUME CallsInv, NEW s \in Sid, NEW all \in BOOLEAN, ReceiveCDN(s, all)
    PROVE  CallsInv'
  <1> DEFINE t == session[s].tunnel
             r == delete_session(s, Acked(tunnel[t], all))
             n == EndedByCDN(s)
  <1>1. /\ EndReceive(t, r, {s}, n) /\ UNCHANGED <<phase, starts, wanted, up>>
        /\ session[s].state # "none"
    BY DEF ReceiveCDN
  <1>2. /\ t \in Tid /\ tunnel[t] \in TunnelRec /\ Watched(tunnel[t])
        /\ tunnel[t].state \in Serving(session[s].state) /\ s \in Sessions(t)
    BY <1>1, SessionFacts
  <1>3. {s} \in SUBSET Sessions(t) /\ {s} \in SUBSET Sid
    BY <1>2
  <1>4. n \in Nat
    BY <1>3, EndedCount DEF EndedByCDN
  <1>5. /\ r \in TunnelRec
        /\ r.state = "established" => r.hello = "hello"
        /\ r.state # "received_stop_ccn"
        /\ \/ /\ r.state = tunnel[t].state /\ r.used = tunnel[t].used
              /\ Retain \/ Sessions(t) \ {s} # {}
           \/ r.state = "sent_stop_ccn"
    BY <1>2 DEF delete_session, tunnel_send_StopCCN, Xmit, Acked, TunnelRec, StateName,
                Watched, Serving
  <1> HIDE DEF t, r, n
  <1>. QED
    BY <1>1, <1>2, <1>3, <1>4, <1>5, Received

(* SCCRP and SCCCN: the tunnel opens or is refused. *)
LEMMA OpeningReceived ==
    ASSUME CallsInv, NEW t \in Tid, NEW all \in BOOLEAN,
           NEW e \in {"wait_ctl_reply", "wait_ctl_conn"}, ReceiveOpening(t, e, all)
    PROVE  CallsInv'
  <1>1. tunnel[t] \in TunnelRec /\ Watched(tunnel[t]) /\ session \in [Sid -> SessionRec]
    BY Unfold
  <1>2. Counters' /\ slave' = slave
    BY Unfold DEF Counters, ReceiveOpening
  <1>3. CASE tunnel[t].state = e /\ TunnelOpens(t, all)
    <2> DEFINE r == [tunnel_setup_hello(tunnel[t]) EXCEPT
                        !.state = "established",
                        !.unacked = \/ tunnel[t].unacked /\ ~all
                                    \/ tunnel[t].state = "wait_ctl_reply"
                                    \/ \E s \in Sessions(t) : session[s].state = "wait_tunnel"]
    <2>1. tunnel' = [tunnel EXCEPT ![t] = r]
      BY <1>3 DEF TunnelOpens
    <2>2. r \in TunnelRec /\ Watched(r) /\ r.state = "established"
          /\ r.used = tunnel[t].used
      BY <1>1 DEF tunnel_setup_hello, TunnelRec, StateName, Watched
    <2> HIDE DEF r
    <2>3. \A s \in Sid :
             \/ session'[s] = session[s]
             \/ /\ session[s].tunnel = t /\ session[s].state = "wait_tunnel"
                /\ session'[s] = [session[s] EXCEPT !.state = "wait_reply"]
      BY <1>3 DEF TunnelOpens, Sessions
    <2>4. \A s \in Sid : /\ session'[s].tunnel = session[s].tunnel
                         /\ session'[s].slave = session[s].slave
                         /\ session'[s].state = "established"
                               <=> session[s].state = "established"
                         /\ session'[s].state = "none" <=> session[s].state = "none"
      BY <1>1, <2>3 DEF SessionRec
    <2>5. session' \in [Sid -> SessionRec]
      BY <1>1, <1>3 DEF TunnelOpens, SessionRec
    <2>6. \A s \in Sid : session'[s].state # "none" /\ session'[s].tunnel = t
                             => r.state \in Serving(session'[s].state)
      <3> SUFFICES ASSUME NEW s \in Sid, session'[s].state # "none",
                          session'[s].tunnel = t
                   PROVE  session'[s].state # "wait_tunnel"
        BY <2>2 DEF Serving
      <3>1. session[s].state = "wait_tunnel" /\ s \in Sessions(t)
        BY <1>3, <2>4, SessionFacts DEF Serving
      <3>. QED
        BY <1>1, <1>3, <3>1 DEF TunnelOpens, SessionRec
    <2>7. MustCarry(r) => \E s \in Sid : session'[s].state # "none" /\ session'[s].tunnel = t
      <3> SUFFICES ASSUME MustCarry(r)
                   PROVE  \E s \in Sid : session'[s].state # "none" /\ session'[s].tunnel = t
        OBVIOUS
      <3>1. Sessions(t) # {}
        BY <1>3, <2>2, Unfold DEF MustCarry, TornDownWithLastSession, Open
      <3>. QED
        BY <2>4, <3>1 DEF Sessions
    <2>8. /\ tunnel' \in [Tid -> TunnelRec] /\ SessionsServed'
          /\ \A x \in Tid : Watched(tunnel'[x])
          /\ TornDownWithLastSession'
      <3>1. \A s \in Sid : \/ session'[s] = session[s]
                           \/ /\ session[s].state = "none" \/ session[s].tunnel = t
                              /\ session'[s].state = "none" \/ session'[s].tunnel = t
        BY <2>3, <2>4
      <3>. QED
        BY <2>1, <2>2, <2>5, <2>6, <2>7, <3>1, TunnelStep
    <2>9. slave' \in [Pid -> SlaveRec] /\ PppdAttached' /\ SlavesHooked'
      BY <1>2, <2>4, SlavesSame
    <2>. QED
      BY <1>2, <2>5, <2>8, <2>9, Fold
  <1>4. CASE TunnelRefused(t)
    <2> DEFINE r == tunnel_send_StopCCN(tunnel[t])
    <2>1. tunnel' = [tunnel EXCEPT ![t] = r] /\ session' = session
      BY <1>4 DEF TunnelRefused
    <2>2. r \in TunnelRec /\ Watched(r) /\ r.state = "sent_stop_ccn"
      BY <1>1 DEF tunnel_send_StopCCN, Xmit, TunnelRec, StateName, Watched
    <2> HIDE DEF r
    <2>. QED
      BY <1>2, <2>1, <2>2, OneTunnel
  <1>. QED
    BY <1>3, <1>4 DEF ReceiveOpening

(* The peer opens a tunnel. *)
LEMMA SCCRQReceived ==
    ASSUME CallsInv, NEW t \in Tid, HandleSCCRQ(t)
    PROVE  CallsInv'
  <1>1. Counters' /\ slave' = slave /\ session' = session /\ tunnel[t].state = "none"
    BY Unfold DEF Counters, HandleSCCRQ, Live
  <1>2. PICK r : /\ tunnel' = [tunnel EXCEPT ![t] = r]
                 /\ \/ r = [Xmit(NoTunnel) EXCEPT !.state = "wait_ctl_conn"]
                    \/ r = tunnel_send_StopCCN(NoTunnel)
    BY DEF HandleSCCRQ
  <1>3. r \in TunnelRec /\ Watched(r) /\ ~r.used
    BY <1>2 DEF tunnel_send_StopCCN, Xmit, NoTunnel, TunnelRec, StateName, Watched
  <1>. QED
    BY <1>1, <1>2, <1>3, OneTunnel

(* The peer calls. *)
LEMMA ICRQReceived ==
    ASSUME CallsInv, NEW t \in Tid, ReceiveICRQ(t)
    PROVE  CallsInv'
  <1>1. Counters' /\ slave' = slave /\ tunnel[t].state = "established"
    BY Unfold DEF Counters, ReceiveICRQ
  <1>2. tunnel[t] \in TunnelRec /\ Watched(tunnel[t])
    BY Unfold
  <1>3. CASE "lns" \in Ops
    <2> DEFINE r == [Xmit(tunnel[t]) EXCEPT !.used = TRUE]
               q == [state |-> "wait_connect", tunnel |-> t, lac |-> FALSE, slave |-> None]
    <2>1. PICK s \in Sid : /\ session[s].state = "none"
                           /\ session' = [session EXCEPT ![s] = q]
                           /\ tunnel' = [tunnel EXCEPT ![t] = r]
      BY <1>3 DEF ReceiveICRQ
    <2>2. r \in TunnelRec /\ Watched(r) /\ r.state = tunnel[t].state
      BY <1>1, <1>2 DEF Xmit, TunnelRec, Watched
    <2>3. q \in SessionRec /\ q.tunnel = t /\ q.slave = None /\ q.state = "wait_connect"
      BY DEF SessionRec
    <2>4. r.state \in Serving(q.state)
      BY <1>1, <2>2, <2>3 DEF Serving
    <2> HIDE DEF r, q
    <2>. QED
      BY <1>1, <2>1, <2>2, <2>3, <2>4, SessionAdded
  <1>4. CASE "lns" \notin Ops
    <2> DEFINE r == IF Sessions(t) = {} /\ ~Retain THEN tunnel_send_StopCCN(tunnel[t])
                                                   ELSE Xmit(tunnel[t])
    <2>1. tunnel' = [tunnel EXCEPT ![t] = r] /\ session' = session
      BY <1>4 DEF ReceiveICRQ
    <2>2. /\ r \in TunnelRec /\ Watched(r)
          /\ \/ r.state = tunnel[t].state /\ r.used = tunnel[t].used
             \/ r.state = "sent_stop_ccn"
      BY <1>1, <1>2 DEF tunnel_send_StopCCN, Xmit, TunnelRec, StateName, Watched
    <2> HIDE DEF r
    <2>. QED
      BY <1>1, <2>1, <2>2, OneTunnel
  <1>. QED
    BY <1>3, <1>4

(* ICRP, and ICCN that leaves the tunnel: the call is established. *)
LEMMA CallEstablished ==
    ASSUME CallsInv, NEW s \in Sid, NEW p \in Pid, establish_session(s, p),
           session[s].state \in {"wait_reply", "wait_connect"},
           NEW r \in TunnelRec, Watched(r),
           r.state = tunnel[session[s].tunnel].state,
           r.used = tunnel[session[s].tunnel].used,
           tunnel' = [tunnel EXCEPT ![session[s].tunnel] = r], Counters'
    PROVE  CallsInv'
  <1>1. /\ slave' \in [Pid -> SlaveRec] /\ PppdAttached' /\ SlavesHooked'
        /\ session' \in [Sid -> SessionRec]
        /\ session'[s].state = "established"
        /\ session'[s].tunnel = session[s].tunnel
        /\ \A x \in Sid \ {s} : session'[x] = session[x]
    BY SlaveStarted
  <1> DEFINE t == session[s].tunnel
  <1>2. t \in Tid /\ tunnel[t].state \in {"established", "sent_stop_ccn"}
    BY SessionFacts DEF Serving
  <1>3. r.state \in {"established", "sent_stop_ccn"}
    BY <1>2
  <1>4. /\ tunnel' = [tunnel EXCEPT ![t] = r]
        /\ session'[s].tunnel = t /\ session[s].tunnel = t
        /\ r.state = tunnel[t].state
    BY <1>1
  <1> HIDE DEF t
  <1>5. \A x \in Sid : session'[x].state # "none" /\ session'[x].tunnel = t
                           => r.state \in Serving(session'[x].state)
    <2> SUFFICES ASSUME NEW x \in Sid, session'[x].state # "none",
                        session'[x].tunnel = t
                 PROVE  r.state \in Serving(session'[x].state)
      OBVIOUS
    <2>1. CASE x = s
      BY <1>1, <1>3, <2>1 DEF Serving
    <2>2. CASE x # s
      BY <1>1, <1>4, <2>2, SessionFacts
    <2>. QED
      BY <2>1, <2>2
  <1>6. \A x \in Sid : \/ session'[x] = session[x]
                       \/ /\ session[x].state = "none" \/ session[x].tunnel = t
                          /\ session'[x].state = "none" \/ session'[x].tunnel = t
    BY <1>1, <1>4
  <1>7. \E x \in Sid : session'[x].state # "none" /\ session'[x].tunnel = t
    BY <1>1, <1>4
  <1>8. /\ tunnel' \in [Tid -> TunnelRec] /\ SessionsServed'
        /\ \A x \in Tid : Watched(tunnel'[x])
        /\ TornDownWithLastSession'
    BY <1>1, <1>2, <1>4, <1>5, <1>6, <1>7, TunnelStep
  <1>. QED
    BY <1>1, <1>8, Fold

(* The peer accepts our call. *)
LEMMA ICRPReceived ==
    ASSUME CallsInv, NEW s \in Sid, ReceiveICRP(s)
    PROVE  CallsInv'
  <1>1. Counters'
    <2>1. Counters /\ session[s] \in SessionRec
      BY Unfold
    <2>2. \/ fail' = 0 /\ up' = (up \/ session[s].lac)
          \/ UNCHANGED <<fail, up>>
      BY DEF ReceiveICRP
    <2>3. fail' \in 0 .. MaxFail + 1 /\ up' \in BOOLEAN
      BY <2>1, <2>2, MaxFailAssumption DEF Counters, SessionRec
    <2>. QED
      BY <2>1, <2>3 DEF ReceiveICRP, Counters
  <1>2. CASE /\ session[s].state = "wait_reply"
             /\ \E p \in Pid : establish_session(s, p)
             /\ tunnel' = [tunnel EXCEPT ![session[s].tunnel] = Xmit(@)]
    <2> DEFINE r == Xmit(tunnel[session[s].tunnel])
    <2>1. PICK p \in Pid : establish_session(s, p)
      BY <1>2
    <2>2. /\ tunnel[session[s].tunnel] \in TunnelRec
          /\ Watched(tunnel[session[s].tunnel])
          /\ tunnel[session[s].tunnel].state \in Serving("wait_reply")
      BY <1>2, SessionFacts
    <2>3. /\ r \in TunnelRec /\ Watched(r)
          /\ r.state = tunnel[session[s].tunnel].state
          /\ r.used = tunnel[session[s].tunnel].used
      BY <2>2 DEF Xmit, TunnelRec, Watched, Serving
    <2>4. tunnel' = [tunnel EXCEPT ![session[s].tunnel] = r]
      BY <1>2
    <2> HIDE DEF r
    <2>. QED
      BY <1>1, <1>2, <2>1, <2>3, <2>4, CallEstablished
  <1>3. CASE session_send_CDN(s) /\ close_session({s})
    BY <1>1, <1>3, CallRefused DEF ReceiveICRP
  <1>. QED
    BY <1>2, <1>3 DEF ReceiveICRP

(* The caller confirms its call while we are stopping the tunnel, and      *)
(* acknowledges the StopCCN with it: the new pppd is told to stop at once. *)
LEMMA LateSlave ==
    ASSUME CallsInv, NEW p \in Pid, NEW S \in SUBSET Sid, session_free(S),
           slave[p].state = "none",
           slave' = [q \in Pid |->
               IF q = p \/ slave[q].ses \in S
               THEN [state |-> IF q = p THEN "running" ELSE slave[q].state,
                     killed |-> TRUE, ses |-> None]
               ELSE slave[q]]
    PROVE  slave' \in [Pid -> SlaveRec] /\ PppdAttached' /\ SlavesHooked'
  <1>1. /\ session \in [Sid -> SessionRec] /\ slave \in [Pid -> SlaveRec]
        /\ PppdAttached /\ SlavesHooked
    BY Unfold
  <1>2. slave' \in [Pid -> SlaveRec]
    BY <1>1 DEF SlaveRec
  <1>3. /\ \A q \in Pid : q = p \/ slave[q].ses \in S
                          => slave'[q].killed /\ slave'[q].ses = None
        /\ \A q \in Pid : q # p /\ slave[q].ses \notin S => slave'[q] = slave[q]
    OBVIOUS
  <1>4. /\ \A s \in S : session'[s].state = "none" /\ session'[s].slave = None
        /\ \A s \in Sid \ S : session'[s] = session[s]
    BY DEF session_free, NoSession
  <1>5. SlavesHooked'
    <2> SUFFICES ASSUME NEW q \in Pid, slave'[q].ses # None
                 PROVE  slave'[q].state # "none" /\ session'[slave'[q].ses].slave = q
      BY DEF SlavesHooked
    <2>1. q # p /\ slave[q].ses \notin S /\ slave'[q] = slave[q] /\ slave[q].ses \in Sid
      BY <1>1, <1>3 DEF SlaveRec
    <2>. QED
      BY <1>1, <1>4, <2>1 DEF SlavesHooked
  <1>6. ASSUME NEW q \in Pid, slave'[q].state # "none", ~slave'[q].killed
        PROVE  slave'[q].ses \in Sid /\ session'[slave'[q].ses].slave = q
    <2>1. q # p /\ slave[q].ses \notin S /\ slave'[q] = slave[q]
      BY <1>3, <1>6
    <2>2. slave[q].ses \in Sid /\ session[slave[q].ses].slave = q
      BY <1>1, <1>6, <2>1 DEF PppdAttached
    <2>. QED
      BY <1>4, <2>1, <2>2
  <1>7. ASSUME NEW s \in Sid
        PROVE  IF session'[s].state = "established"
               THEN /\ session'[s].slave \in Pid
                    /\ slave'[session'[s].slave].state # "none"
                    /\ slave'[session'[s].slave].ses = s
               ELSE session'[s].slave = None
    <2>1. CASE s \in S
      BY <1>4, <2>1
    <2>2. CASE s \notin S
      <3>1. session'[s] = session[s]
        BY <1>4, <2>2
      <3>2. CASE session[s].state = "established"
        <4>1. /\ session[s].slave \in Pid
              /\ slave[session[s].slave].state # "none"
              /\ slave[session[s].slave].ses = s
          BY <1>1, <3>2 DEF PppdAttached
        <4>2. slave'[session[s].slave] = slave[session[s].slave]
          BY <1>3, <2>2, <4>1
        <4>. QED
          BY <3>1, <3>2, <4>1, <4>2
      <3>3. CASE session[s].state # "established"
        BY <1>1, <3>1, <3>3 DEF PppdAttached
      <3>. QED
        BY <3>2, <3>3
    <2>. QED
      BY <2>1, <2>2
  <1>. QED
    BY <1>2, <1>5, <1>6, <1>7 DEF PppdAttached

(* The caller confirms its call. *)
LEMMA ICCNReceived ==
    ASSUME CallsInv, NEW s \in Sid, NEW all \in BOOLEAN, ReceiveICCN(s, all)
    PROVE  CallsInv'
  <1> DEFINE t == session[s].tunnel
             S == Sessions(t)
             drained == tunnel[t].state = "sent_stop_ccn" /\ all
  <1>1. Counters /\ session[s].state # "none" /\ UNCHANGED <<phase, starts, wanted, up>>
    BY Unfold DEF ReceiveICCN
  <1>2. /\ t \in Tid /\ tunnel[t] \in TunnelRec /\ Watched(tunnel[t])
        /\ tunnel[t].state \in Serving(session[s].state) /\ s \in S
    BY <1>1, SessionFacts
  <1>3. CASE /\ session_send_CDN(s) /\ close_session({s})
             /\ fail' = IF session[s].state = "wait_connect" THEN 0 ELSE fail
             /\ UNCHANGED redial
    <2>1. Counters'
      BY <1>1, <1>3, MaxFailAssumption DEF Counters
    <2>. QED
      BY <1>1, <1>3, <2>1, CallRefused
  <1>4. CASE /\ session[s].state = "wait_connect" /\ ~drained
             /\ \E p \in Pid : establish_session(s, p)
             /\ tunnel' = [tunnel EXCEPT ![t] = Acked(@, all)]
             /\ fail' = 0 /\ UNCHANGED redial
    <2> DEFINE r == Acked(tunnel[t], all)
    <2>1. Counters'
      BY <1>1, <1>4, MaxFailAssumption DEF Counters
    <2>2. PICK p \in Pid : establish_session(s, p)
      BY <1>4
    <2>3. /\ r \in TunnelRec /\ Watched(r)
          /\ r.state = tunnel[t].state /\ r.used = tunnel[t].used
      BY <1>2, <1>4 DEF Acked, TunnelRec, Watched, Serving
    <2>4. tunnel' = [tunnel EXCEPT ![session[s].tunnel] = r]
      BY <1>4
    <2> HIDE DEF r
    <2>. QED
      BY <1>4, <2>1, <2>2, <2>3, <2>4, CallEstablished
  <1>5. CASE /\ tunnel' = [tunnel EXCEPT ![t] = NoTunnel]
             /\ session_free(S)
             /\ \E p \in Pid :
                   /\ slave[p].state = "none"
                   /\ slave' = [q \in Pid |->
                         IF q = p \/ slave[q].ses \in S
                         THEN [state |-> IF q = p THEN "running" ELSE slave[q].state,
                               killed |-> TRUE, ses |-> None]
                         ELSE slave[q]]
             /\ MayRedial(0, Cardinality(WithSlave(S)) + 1)
    <2>1. S \in SUBSET Sessions(t) /\ S \in SUBSET Sid /\ S = Sessions(t)
      BY DEF Sessions
    <2>2. NoTunnel \in TunnelRec /\ Watched(NoTunnel) /\ NoTunnel.state = "none"
      BY DEF NoTunnel, TunnelRec, StateName, Watched
    <2> HIDE DEF S, t
    <2>3. Counters'
      <3>1. Cardinality(WithSlave(S)) + 1 \in Nat /\ 0 \in 0 .. MaxFail + 1
        BY <2>1, EndedCount, MaxFailAssumption
      <3>. QED
        BY <1>1, <1>5, <3>1, CountersKept
    <2>4. /\ tunnel' \in [Tid -> TunnelRec] /\ SessionsServed'
          /\ \A x \in Tid : Watched(tunnel'[x])
          /\ TornDownWithLastSession'
          /\ session' \in [Sid -> SessionRec]
      BY <1>2, <1>5, <2>1, <2>2, SessionsFreed
    <2>5. slave' \in [Pid -> SlaveRec] /\ PppdAttached' /\ SlavesHooked'
      BY <1>5, <2>1, LateSlave
    <2>. QED
      BY <2>3, <2>4, <2>5, Fold
  <1>. QED
    BY <1>3, <1>4, <1>5 DEF ReceiveICCN

(* We call. *)
LEMMA CallPlaced ==
    ASSUME CallsInv, PlaceCall, slave' = slave, Counters'
    PROVE  CallsInv'
  <1>0. PICK t \in Tid :
           \/ Open(t) /\ CallOn(t, tunnel[t])
           \/ ~Live(t) /\ CallOn(t, tunnel_establish)
    BY DEF PlaceCall
  <1>1. PICK r : /\ CallOn(t, r)
                 /\ \/ Open(t) /\ r = tunnel[t]
                    \/ ~Live(t) /\ r = tunnel_establish
    BY <1>0
  <1>2. tunnel[t] \in TunnelRec /\ Watched(tunnel[t])
    BY Unfold
  <1>3. /\ r \in TunnelRec /\ Watched(r)
        /\ r.state \in {"wait_ctl_reply", "wait_ctl_conn", "established"}
        /\ r = tunnel[t] \/ (tunnel[t].state = "none" /\ ~r.used)
    <2>1. CASE Open(t) /\ r = tunnel[t]
      BY <1>2, <2>1 DEF Open
    <2>2. CASE ~Live(t) /\ r = tunnel_establish
      BY <2>2 DEF tunnel_establish, TunnelRec, StateName, Watched, Live
    <2>. QED
      BY <1>1, <2>1, <2>2
  <1>4. CASE "lac" \notin Ops
    <2>1. tunnel' = [tunnel EXCEPT ![t] = r] /\ session' = session
      BY <1>1, <1>4 DEF CallOn
    <2>. QED
      BY <1>3, <2>1, OneTunnel
  <1>5. CASE "lac" \in Ops
    <2>1. PICK s \in Sid : session[s].state = "none" /\ AddSession(t, s, r)
      BY <1>1, <1>5 DEF CallOn
    <2> DEFINE y == IF r.state = "established" THEN [Xmit(r) EXCEPT !.used = TRUE]
                                               ELSE [r EXCEPT !.used = TRUE]
               q == [state |-> IF r.state = "established" THEN "wait_reply"
                                                          ELSE "wait_tunnel",
                     tunnel |-> t, lac |-> TRUE, slave |-> None]
    <2>2. session' = [session EXCEPT ![s] = q] /\ tunnel' = [tunnel EXCEPT ![t] = y]
      BY <2>1 DEF AddSession
    <2>3. /\ y \in TunnelRec /\ Watched(y)
          /\ y.state = tunnel[t].state \/ tunnel[t].state = "none"
          /\ y.state \in Serving(q.state)
      BY <1>3 DEF Xmit, TunnelRec, Watched, Serving
    <2>4. /\ q \in SessionRec /\ q.tunnel = t /\ q.slave = None
          /\ q.state \notin {"none", "established"}
      BY DEF SessionRec
    <2> HIDE DEF y, q
    <2>. QED
      BY <2>1, <2>2, <2>3, <2>4, SessionAdded
  <1>. QED
    BY <1>4, <1>5

(* A step that leaves tunnels, sessions and processes alone. *)
LEMMA CountersOnly ==
    ASSUME CallsInv, UNCHANGED <<tunnel, session, slave>>, Counters'
    PROVE  CallsInv'
  <1>1. /\ tunnel' \in [Tid -> TunnelRec] /\ session' \in [Sid -> SessionRec]
        /\ \A t \in Tid : Watched(tunnel'[t])
    BY Unfold
  <1>2. PppdAttached' /\ SlavesHooked' /\ slave' \in [Pid -> SlaveRec]
    BY SlavesSame
  <1>3. SessionsServed' /\ TornDownWithLastSession'
    BY Unfold DEF SessionsServed, TornDownWithLastSession, Open, Sessions
  <1>. QED
    BY <1>1, <1>2, <1>3, Fold

(* The operator starts a call. *)
LEMMA StartSession ==
    ASSUME CallsInv, cmd_start_session
    PROVE  CallsInv'
  <1>1. Counters /\ Redials(fail, 1) \in Nat /\ FailsAfter(fail, 1) \in 0 .. MaxFail + 1
    BY Unfold, RedialCount DEF Counters
  <1>2. /\ starts' \in 0 .. MaxStarts /\ UNCHANGED <<slave, phase, up>>
    BY <1>1, MaxStartsAssumption DEF cmd_start_session, Counters
  <1>3. CASE /\ PlaceCall /\ UNCHANGED <<redial, fail>>
             /\ wanted' = IF "lac" \in Ops THEN wanted + 1 ELSE wanted
    <2>1. Counters'
      BY <1>1, <1>2, <1>3 DEF Counters
    <2>. QED
      BY <1>2, <1>3, <2>1, CallPlaced
  <1>4. CASE /\ CannotResolve /\ MayRedial(fail, 1)
             /\ wanted' = wanted + Redials(fail, 1)
    <2>1. Counters'
      BY <1>1, <1>2, <1>4 DEF Counters, MayRedial
    <2>. QED
      BY <1>2, <1>4, <2>1, CountersOnly DEF CannotResolve
  <1>. QED
    BY <1>3, <1>4 DEF cmd_start_session

(* A redial timer fires. *)
LEMMA Reestablish ==
    ASSUME CallsInv, l2tp_tunnel_reestablish
    PROVE  CallsInv'
  <1>1. Counters /\ Redials(fail, 1) \in Nat /\ FailsAfter(fail, 1) \in 0 .. MaxFail + 1
    BY Unfold, RedialCount DEF Counters
  <1>2. redial > 0 /\ UNCHANGED <<slave, phase, starts, wanted, up>>
    BY DEF l2tp_tunnel_reestablish
  <1>3. CASE PlaceCall /\ redial' = redial - 1 /\ UNCHANGED fail
    <2>1. Counters'
      BY <1>1, <1>2, <1>3 DEF Counters
    <2>. QED
      BY <1>2, <1>3, <2>1, CallPlaced
  <1>4. CASE /\ CannotResolve
             /\ redial' = redial - 1 + Redials(fail, 1) /\ fail' = FailsAfter(fail, 1)
    <2>1. Counters'
      BY <1>1, <1>2, <1>4 DEF Counters
    <2>. QED
      BY <1>2, <1>4, <2>1, CountersOnly DEF CannotResolve
  <1>. QED
    BY <1>3, <1>4 DEF l2tp_tunnel_reestablish

(* The operator stops a call. *)
LEMMA StopSession ==
    ASSUME CallsInv, NEW s \in Sid, cmd_stop_session(s)
    PROVE  CallsInv'
  <1>1. Counters
    BY Unfold
  <1>2. wanted' \in Nat
    BY <1>1 DEF cmd_stop_session, Counters
  <1>3. Counters'
    BY <1>1, <1>2 DEF cmd_stop_session, Counters
  <1>. QED
    BY <1>3, CallRefused DEF cmd_stop_session

(* The timers of a tunnel. *)
LEMMA TunnelTimers ==
    ASSUME CallsInv, NEW t \in Tid,
           \/ tunnel_handle_timeout(t)
           \/ tunnel_do_hello(t)
           \/ tunnel_finally_cleanup(t)
    PROVE  CallsInv'
  <1>1. CASE tunnel_handle_timeout(t)
    <2> DEFINE n == IF tunnel[t].state \in {"wait_ctl_reply", "wait_ctl_conn"} THEN 1 ELSE 0
    <2>1. n \in Nat /\ tunnel_free(t, n) /\ UNCHANGED <<phase, starts, wanted, up>>
      BY <1>1 DEF tunnel_handle_timeout
    <2> HIDE DEF n
    <2>. QED
      BY <2>1, Freed
  <1>2. CASE tunnel_do_hello(t)
    <2> DEFINE r == Xmit(tunnel[t])
    <2>1. tunnel[t] \in TunnelRec /\ Watched(tunnel[t]) /\ Counters
      BY Unfold
    <2>2. /\ tunnel[t].hello = "hello" /\ tunnel' = [tunnel EXCEPT ![t] = r]
          /\ session' = session /\ slave' = slave
      BY <1>2 DEF tunnel_do_hello
    <2>3. Counters'
      BY <1>2, <2>1 DEF tunnel_do_hello, Counters
    <2>4. /\ r \in TunnelRec /\ Watched(r)
          /\ r.state = tunnel[t].state /\ r.used = tunnel[t].used
      BY <2>1, <2>2 DEF Xmit, TunnelRec, Watched
    <2> HIDE DEF r
    <2>. QED
      BY <2>2, <2>3, <2>4, OneTunnel
  <1>3. CASE tunnel_finally_cleanup(t)
    BY <1>3, Freed DEF tunnel_finally_cleanup
  <1>. QED
    BY <1>1, <1>2, <1>3

(* A pppd exits. *)
LEMMA PppdExit ==
    ASSUME CallsInv, NEW p \in Pid, PppdExits(p)
    PROVE  CallsInv'
  <1>1. /\ tunnel \in [Tid -> TunnelRec] /\ session \in [Sid -> SessionRec]
        /\ slave \in [Pid -> SlaveRec] /\ Counters /\ PppdAttached /\ SlavesHooked
        /\ SessionsServed /\ TornDownWithLastSession
        /\ \A t \in Tid : Watched(tunnel[t])
    BY Unfold
  <1>2. UNCHANGED <<tunnel, session, redial, fail, phase, starts, wanted, up>>
    BY DEF PppdExits
  <1>3. slave' \in [Pid -> SlaveRec]
    BY <1>1 DEF PppdExits, SlaveRec
  <1>4. \A q \in Pid : /\ slave'[q].ses = slave[q].ses
                       /\ slave'[q].killed = slave[q].killed
                       /\ slave'[q].state = "none" <=> slave[q].state = "none"
    BY <1>1 DEF PppdExits, SlaveRec
  <1>5. PppdAttached' /\ SlavesHooked'
    BY <1>1, <1>2, <1>4 DEF PppdAttached, SlavesHooked
  <1>6. SessionsServed' /\ TornDownWithLastSession' /\ Counters'
    BY <1>1, <1>2 DEF SessionsServed, TornDownWithLastSession, Open, Sessions, Counters
  <1>. QED
    BY <1>1, <1>2, <1>3, <1>5, <1>6, Fold

(* The event loop hears of it. *)
LEMMA SlaveExited ==
    ASSUME CallsInv, NEW p \in Pid, slave_exited(p)
    PROVE  CallsInv'
  <1>1. /\ slave \in [Pid -> SlaveRec] /\ Counters /\ SlavesHooked /\ PppdAttached
    BY Unfold
  <1>2. slave' = [slave EXCEPT ![p] = NoSlave] /\ UNCHANGED <<fail, phase, starts, wanted, up>>
    BY DEF slave_exited
  <1>3. CASE slave[p].ses # None
    <2> DEFINE s == slave[p].ses
    <2>1. s \in Sid /\ session[s].state # "none"
      BY <1>1, <1>3, NoneAssumption DEF SlaveRec, SlavesHooked, PppdAttached
    <2>2. session_send_CDN(s) /\ redial' = IF Persist THEN redial + 1 ELSE redial
      BY <1>3 DEF slave_exited
    <2>3. session_free({slave[p].ses})
      BY <2>2 DEF session_send_CDN
    <2>4. Counters'
      BY <1>1, <1>2, <2>2 DEF Counters
    <2>5. slave' \in [Pid -> SlaveRec] /\ PppdAttached' /\ SlavesHooked'
      BY <1>2, <1>3, <2>3, SlaveReaped
    <2> HIDE DEF s
    <2>6. /\ tunnel' \in [Tid -> TunnelRec] /\ SessionsServed'
          /\ \A x \in Tid : Watched(tunnel'[x])
          /\ TornDownWithLastSession'
          /\ session' \in [Sid -> SessionRec]
      BY <2>1, <2>2, CDNSent
    <2>. QED
      BY <2>4, <2>5, <2>6, Fold
  <1>4. CASE slave[p].ses = None
    <2>1. UNCHANGED <<tunnel, session, redial>>
      BY <1>4 DEF slave_exited
    <2>2. Counters'
      BY <1>1, <1>2, <2>1 DEF Counters
    <2>3. slave' \in [Pid -> SlaveRec] /\ PppdAttached' /\ SlavesHooked'
      BY <1>2, <1>4, <2>1, SlaveReaped
    <2>4. /\ tunnel' \in [Tid -> TunnelRec] /\ session' \in [Sid -> SessionRec]
          /\ \A t \in Tid : Watched(tunnel'[t])
      BY <2>1, Unfold
    <2>5. SessionsServed' /\ TornDownWithLastSession'
      BY <2>1, Unfold DEF SessionsServed, TornDownWithLastSession, Open, Sessions
    <2>. QED
      BY <2>2, <2>3, <2>4, <2>5, Fold
  <1>. QED
    BY <1>3, <1>4

(* Every tunnel that is open is stopped. *)
LEMMA StopAll ==
    ASSUME CallsInv, tunnel_cleanup
    PROVE  CallsInv'
  <1>1. /\ tunnel \in [Tid -> TunnelRec] /\ session \in [Sid -> SessionRec] /\ Counters
        /\ SessionsServed /\ \A t \in Tid : Watched(tunnel[t])
    BY Unfold
  <1>2. UNCHANGED <<session, slave>> /\ Counters'
    BY <1>1 DEF tunnel_cleanup, Counters
  <1>3. \A t \in Tid :
           \/ ~Open(t) /\ tunnel'[t] = tunnel[t]
           \/ /\ tunnel'[t] = tunnel_send_StopCCN(tunnel[t])
              /\ tunnel'[t].state = "sent_stop_ccn"
              /\ Watched(tunnel'[t])
    BY <1>1 DEF tunnel_cleanup, tunnel_send_StopCCN, Xmit, TunnelRec, Watched
  <1>4. tunnel' \in [Tid -> TunnelRec]
    BY <1>1 DEF tunnel_cleanup, tunnel_send_StopCCN, Xmit, TunnelRec, StateName
  <1>5. \A t \in Tid : Watched(tunnel'[t])
    BY <1>1, <1>3
  <1>6. SessionsServed'
    BY <1>1, <1>2, <1>3 DEF SessionsServed
  <1>7. TornDownWithLastSession'
    BY <1>3 DEF TornDownWithLastSession, Open
  <1>8. slave' \in [Pid -> SlaveRec] /\ PppdAttached' /\ SlavesHooked'
    BY <1>2, SlavesSame
  <1>. QED
    BY <1>1, <1>2, <1>4, <1>5, <1>6, <1>7, <1>8, Fold

(***************************************************************************)
(* The theorems.                                                           *)
(***************************************************************************)

(* The state the event loop starts in. *)
LEMMA InitOK == Init => CallsInv
  <1> SUFFICES ASSUME Init PROVE CallsInv
    OBVIOUS
  <1>1. CallsTypeOK
    <2>1. /\ tunnel \in [Tid -> TunnelRec] /\ session \in [Sid -> SessionRec]
          /\ slave \in [Pid -> SlaveRec]
      BY DEF Init, NoTunnel, NoSession, NoSlave, StateName, TunnelRec, SessionRec, SlaveRec
    <2>2. Counters
      <3>1. 0 \in Nat /\ 0 \in 0 .. MaxFail + 1 /\ 0 \in 0 .. MaxStarts
        BY MaxFailAssumption, MaxStartsAssumption
      <3>. QED
        BY <3>1, Zenon DEF Init, Counters
    <2>. QED
      BY <2>1, <2>2 DEF CallsTypeOK, TunnelRec, SessionRec, SlaveRec, Counters
  <1>2. PppdAttached /\ SlavesHooked
    BY DEF Init, PppdAttached, SlavesHooked, NoSession, NoSlave
  <1>3. SessionsServed /\ TornDownWithLastSession /\ \A t \in Tid : Watched(tunnel[t])
    BY DEF Init, SessionsServed, TornDownWithLastSession, Watched, Open, NoSession,
           NoTunnel
  <1>. QED
    BY <1>1, <1>2, <1>3 DEF CallsInv

(* Every step keeps the invariant. *)
LEMMA NextOK == CallsInv /\ [Next]_vars => CallsInv'
  <1> SUFFICES ASSUME CallsInv, [Next]_vars PROVE CallsInv'
    OBVIOUS
  <1>1. CASE cmd_start_session
    BY <1>1, StartSession
  <1>2. CASE l2tp_tunnel_reestablish
    BY <1>2, Reestablish
  <1>3. ASSUME NEW s \in Sid, cmd_stop_session(s) \/ ReceiveICRP(s)
        PROVE  CallsInv'
    BY <1>3, StopSession, ICRPReceived
  <1>4. ASSUME NEW all \in BOOLEAN, NEW t \in Tid,
               \/ ReceiveNothingToDo(t, all)
               \/ ReceiveSCCRP(t, all)
               \/ ReceiveSCCCN(t, all)
        PROVE  CallsInv'
    BY <1>4, NothingToDo, OpeningReceived DEF ReceiveSCCRP, ReceiveSCCCN
  <1>5. ASSUME NEW all \in BOOLEAN, NEW s \in Sid,
               ReceiveCDN(s, all) \/ ReceiveICCN(s, all)
        PROVE  CallsInv'
    BY <1>5, CDNReceived, ICCNReceived
  <1>6. ASSUME NEW t \in Tid, ReceiveStopCCN(t) \/ HandleSCCRQ(t) \/ ReceiveICRQ(t)
        PROVE  CallsInv'
    BY <1>6, StopCCNReceived, SCCRQReceived, ICRQReceived
  <1>7. ASSUME NEW t \in Tid,
               \/ tunnel_handle_timeout(t)
               \/ tunnel_do_hello(t)
               \/ tunnel_finally_cleanup(t)
        PROVE  CallsInv'
    BY <1>7, TunnelTimers
  <1>8. ASSUME NEW p \in Pid, PppdExits(p) \/ slave_exited(p)
        PROVE  CallsInv'
    BY <1>8, PppdExit, SlaveExited
  <1>9. CASE tunnel_cleanup
    BY <1>9, StopAll
  <1>10. CASE Exit
    <2>1. UNCHANGED <<tunnel, session, slave>> /\ Counters'
      BY <1>10, Unfold DEF Exit, Counters
    <2>. QED
      BY <2>1, CountersOnly
  <1>11. CASE UNCHANGED vars
    <2>1. UNCHANGED <<tunnel, session, slave>> /\ Counters'
      BY <1>11, Unfold DEF vars, Counters
    <2>. QED
      BY <2>1, CountersOnly
  <1>. QED
    BY <1>1, <1>2, <1>3, <1>4, <1>5, <1>6, <1>7, <1>8, <1>9, <1>10, <1>11 DEF Next

(* The inductive invariant of tunnels, sessions and pppd processes. *)
THEOREM CallsSafety == Spec => []CallsInv
  BY InitOK, NextOK, PTL DEF Spec

(* The tables of l2tpd and its counters keep their types: no call is lost  *)
(* from a table or left with a tunnel, session or process that is none.    *)
THEOREM CallsTypesOK == Spec => []CallsTypeOK
  <1>1. CallsInv => CallsTypeOK
    BY DEF CallsInv
  <1>. QED
    BY <1>1, CallsSafety, PTL

(* establish_session, close_session and slave_exited leave no pppd without *)
(* its session and no established session without its pppd.                *)
THEOREM NoOrphans == Spec => []PppdAttached
  <1>1. CallsInv => PppdAttached
    BY DEF CallsInv
  <1>. QED
    BY <1>1, CallsSafety, PTL

(* No session outlives its tunnel, or waits for one that is open, whatever *)
(* the peer sends and whichever timer fires.                               *)
THEOREM NoneLeftBehind == Spec => []SessionsServed
  <1>1. CallsInv => SessionsServed
    BY DEF CallsInv
  <1>. QED
    BY <1>1, CallsSafety, PTL

(* hello_handler is shared by HELLO and destruction, but a tunnel that is  *)
(* up or going down always has the timer its state needs.                  *)
THEOREM AlwaysWatched == Spec => []TunnelsWatched
  <1>1. CallsInv => TunnelsWatched
    <2> SUFFICES ASSUME CallsInv, NEW t \in Tid
                 PROVE  CASE tunnel[t].state = "established" -> tunnel[t].hello = "hello"
                          [] tunnel[t].state = "received_stop_ccn"
                                -> tunnel[t].hello = "destroy"
                          [] tunnel[t].state = "sent_stop_ccn" -> tunnel[t].unacked
                          [] OTHER -> TRUE
      BY DEF TunnelsWatched
    <2>1. Watched(tunnel[t])
      BY DEF CallsInv
    <2>. QED
      BY <2>1 DEF Watched
  <1>. QED
    BY <1>1, CallsSafety, PTL

(* Without retain-tunnel, no open tunnel that carried calls is idle.       *)
THEOREM NoIdleTunnel == Spec => []TornDownWithLastSession
  <1>1. CallsInv => TornDownWithLastSession
    BY DEF CallsInv
  <1>. QED
    BY <1>1, CallsSafety, PTL

(***************************************************************************)
(* NoExtraCall, for a peer that only we call, without retain-tunnel.       *)
(* Every session is then one of ours, and a tunnel that is not yet up has  *)
(* carried one, so that it has one (TornDownWithLastSession) and its       *)
(* timeout stands for a call.                                              *)
(***************************************************************************)
OnlyWeCall == Ops = {"lac"} /\ ~Incoming /\ ~Retain

OwnSessions ==
    \A s \in Sid : session[s].state # "none" =>
        session[s].lac /\ session[s].state # "wait_connect"

Carries(r) == r.state \in {"wait_ctl_reply", "wait_ctl_conn"} => r.used

OwnTunnels == \A t \in Tid : Carries(tunnel[t])

OwnCalls == OwnSessions /\ OwnTunnels /\ NoExtraCall

(* What the counts in NoExtraCall are. *)
LEMMA OutgoingCount ==
    ASSUME CallsInv, NoExtraCall
    PROVE  /\ IsFiniteSet(Outgoing) /\ Cardinality(Outgoing) \in Nat
           /\ redial \in Nat /\ wanted \in Nat /\ fail \in 0 .. MaxFail + 1
           /\ Cardinality(Outgoing) + redial <= wanted
  <1>1. Outgoing \subseteq Sid
    BY DEF Outgoing
  <1>2. IsFiniteSet(Outgoing)
    BY <1>1, FiniteAssumption, FS_Subset
  <1>. QED
    BY <1>2, FS_CardinalityType, Unfold DEF Counters, NoExtraCall

(* Sessions are freed: our calls are fewer by as many. *)
LEMMA CallsFreed ==
    ASSUME CallsInv, OwnCalls, NEW S \in SUBSET Sid,
           \A s \in S : session[s].state # "none", session_free(S)
    PROVE  /\ OwnSessions'
           /\ IsFiniteSet(S) /\ Cardinality(S) \in Nat
           /\ Cardinality(Outgoing') = Cardinality(Outgoing) - Cardinality(S)
           /\ Cardinality(S) <= Cardinality(Outgoing)
  <1>1. session' = [s \in Sid |-> IF s \in S THEN NoSession ELSE session[s]]
    BY DEF session_free
  <1>2. /\ \A s \in S : session'[s].state = "none"
        /\ \A s \in Sid \ S : session'[s] = session[s]
    BY <1>1 DEF NoSession
  <1>3. S \subseteq Outgoing
    BY DEF OwnCalls, OwnSessions, Outgoing
  <1>4. Outgoing' = Outgoing \ S
    BY <1>2 DEF Outgoing
  <1>5. IsFiniteSet(Outgoing)
    BY OutgoingCount DEF OwnCalls
  <1>6. IsFiniteSet(S) /\ Cardinality(S) <= Cardinality(Outgoing)
    BY <1>3, <1>5, FS_Subset
  <1>7. Outgoing \cap S = S
    BY <1>3
  <1>8. Cardinality(Outgoing \ S) = Cardinality(Outgoing) - Cardinality(S)
    BY <1>5, <1>7, FS_Difference
  <1>9. OwnSessions'
    BY <1>2 DEF OwnCalls, OwnSessions
  <1>. QED
    BY <1>4, <1>6, <1>8, <1>9, FS_CardinalityType

(* The sessions stay, or only go on: our calls are the same. *)
LEMMA CallsStay ==
    ASSUME CallsInv, OwnCalls, session' \in [Sid -> SessionRec],
           \A s \in Sid : /\ session'[s].lac = session[s].lac
                          /\ session'[s].state = "none" <=> session[s].state = "none"
                          /\ session'[s].state # "wait_connect"
                                \/ session'[s] = session[s],
           redial' = redial, wanted' = wanted
    PROVE  OwnSessions' /\ NoExtraCall'
  <1>1. Outgoing' = Outgoing
    BY DEF Outgoing
  <1>2. OwnSessions'
    BY DEF OwnCalls, OwnSessions
  <1>. QED
    BY <1>1, <1>2 DEF OwnCalls, NoExtraCall

(* One tunnel changes. *)
LEMMA OwnTunnel ==
    ASSUME CallsInv, OwnCalls, NEW t \in Tid, NEW r, Carries(r),
           tunnel' = [tunnel EXCEPT ![t] = r]
    PROVE  OwnTunnels'
  <1>1. \A x \in Tid : tunnel'[x] = IF x = t THEN r ELSE tunnel[x]
    BY Unfold
  <1>. QED
    BY <1>1 DEF OwnCalls, OwnTunnels

(* At most one redial for each call that has ended. *)
LEMMA RedialBound ==
    ASSUME NEW f \in 0 .. MaxFail + 1, NEW n \in Nat
    PROVE  Redials(f, n) <= n
  BY MaxFailAssumption DEF Redials, Least

(* Not more calls end with their pppd than end. *)
LEMMA EndedBound ==
    ASSUME NEW S \in SUBSET Sid
    PROVE  Cardinality(WithSlave(S)) <= Cardinality(S)
  <1>1. IsFiniteSet(S)
    BY FiniteAssumption, FS_Subset
  <1>2. WithSlave(S) \in SUBSET S
    BY DEF WithSlave
  <1>. QED
    BY <1>1, <1>2, FS_Subset

(* Sessions end, and not more than that many calls count as ended. *)
LEMMA CallsEnd ==
    ASSUME CallsInv, OwnCalls, NEW S \in SUBSET Sid,
           \A s \in S : session[s].state # "none", session_free(S),
           NEW n \in Nat, n <= Cardinality(S), MayRedial(fail, n), wanted' = wanted
    PROVE  OwnSessions' /\ NoExtraCall'
  <1> DEFINE c == Cardinality(Outgoing)
             d == Cardinality(Outgoing')
             k == Cardinality(S)
  <1>1. OwnSessions' /\ k \in Nat /\ d = c - k /\ k <= c
    BY CallsFreed
  <1>2. /\ c \in Nat /\ redial \in Nat /\ wanted \in Nat /\ fail \in 0 .. MaxFail + 1
        /\ c + redial <= wanted
    BY OutgoingCount DEF OwnCalls
  <1>3. Redials(fail, n) \in Nat /\ Redials(fail, n) <= n
    BY <1>2, RedialCount, RedialBound
  <1>4. redial' = redial + Redials(fail, n)
    BY DEF MayRedial
  <1>5. NoExtraCall' <=> d + redial' <= wanted'
    BY DEF NoExtraCall
  <1> HIDE DEF c, d, k
  <1>6. n <= k
    BY DEF k
  <1>7. d + redial' <= wanted'
    BY <1>1, <1>2, <1>3, <1>4, <1>6
  <1>. QED
    BY <1>1, <1>5, <1>7

(* The last part of receiving a message. *)
LEMMA OwnReceived ==
    ASSUME CallsInv, OwnCalls, NEW t \in Tid, NEW r, Carries(r),
           NEW D \in SUBSET Sessions(t), NEW n \in Nat, n <= Cardinality(D),
           EndReceive(t, r, D, n), wanted' = wanted
    PROVE  OwnCalls'
  <1> DEFINE gone == IF FreedNow(r) THEN Sessions(t) ELSE D
             q == IF FreedNow(r) THEN NoTunnel
                  ELSE IF ~r.unacked /\ r.state = "received_stop_ccn"
                       THEN tunnel_schedule_destruction(r)
                       ELSE r
             k == n + Cardinality(WithSlave(gone \ D))
  <1>1. /\ tunnel' = [tunnel EXCEPT ![t] = q]
        /\ session_free(gone) /\ MayRedial(fail, k)
    BY DEF EndReceive
  <1>2. Carries(q)
    <2>1. CASE FreedNow(r)
      BY <2>1 DEF NoTunnel, Carries
    <2>2. CASE ~FreedNow(r) /\ ~r.unacked /\ r.state = "received_stop_ccn"
      <3>1. q = tunnel_schedule_destruction(r)
        BY <2>2
      <3>2. q.state = "received_stop_ccn"
        BY <2>2, <3>1 DEF tunnel_schedule_destruction
      <3>. QED
        BY <3>2 DEF Carries
    <2>3. CASE ~FreedNow(r) /\ ~(~r.unacked /\ r.state = "received_stop_ccn")
      BY <2>3
    <2>. QED
      BY <2>1, <2>2, <2>3
  <1>3. /\ gone \in SUBSET Sid /\ gone \ D \in SUBSET Sid /\ D \subseteq gone
        /\ \A s \in gone : session[s].state # "none"
    BY DEF Sessions
  <1> HIDE DEF gone, q
  <1>4. /\ IsFiniteSet(gone) /\ IsFiniteSet(D) /\ IsFiniteSet(gone \ D)
        /\ Cardinality(gone) \in Nat /\ Cardinality(D) \in Nat
        /\ Cardinality(gone \ D) = Cardinality(gone) - Cardinality(D)
    <2>1. IsFiniteSet(gone)
      BY <1>3, FiniteAssumption, FS_Subset
    <2>2. IsFiniteSet(D) /\ gone \cap D = D
      BY <1>3, <2>1, FS_Subset
    <2>3. IsFiniteSet(gone \ D)
          /\ Cardinality(gone \ D) = Cardinality(gone) - Cardinality(D)
      BY <2>1, <2>2, FS_Difference
    <2>. QED
      BY <2>1, <2>2, <2>3, FS_CardinalityType
  <1>5. /\ Cardinality(WithSlave(gone \ D)) \in Nat
        /\ Cardinality(WithSlave(gone \ D)) <= Cardinality(gone \ D)
    BY <1>3, EndedCount, EndedBound
  <1>6. k \in Nat /\ k <= Cardinality(gone)
    BY <1>4, <1>5
  <1> HIDE DEF k
  <1>7. OwnSessions' /\ NoExtraCall'
    BY <1>1, <1>3, <1>6, CallsEnd
  <1>8. OwnTunnels'
    BY <1>1, <1>2, OwnTunnel
  <1>. QED
    BY <1>7, <1>8 DEF OwnCalls

(* The messages that end in EndReceive. *)
LEMMA OwnMessages ==
    ASSUME CallsInv, OwnCalls,
           \/ \E t \in Tid, all \in BOOLEAN : ReceiveNothingToDo(t, all)
           \/ \E t \in Tid : ReceiveStopCCN(t)
           \/ \E s \in Sid, all \in BOOLEAN : ReceiveCDN(s, all)
    PROVE  OwnCalls'
  <1>1. ASSUME NEW t \in Tid, NEW all \in BOOLEAN, ReceiveNothingToDo(t, all)
        PROVE  OwnCalls'
    <2>1. PICK x \in {tunnel[t], tunnel_setup_hello(tunnel[t])} :
             EndReceive(t, Acked(x, all), {}, 0)
      BY <1>1 DEF ReceiveNothingToDo
    <2> DEFINE r == Acked(x, all)
    <2>2. tunnel[t] \in TunnelRec /\ Carries(tunnel[t])
      BY Unfold DEF OwnCalls, OwnTunnels
    <2>3. Carries(r)
      BY <2>2 DEF Acked, tunnel_setup_hello, TunnelRec, Carries
    <2>4. EndReceive(t, r, {}, 0) /\ wanted' = wanted
      BY <1>1, <2>1 DEF ReceiveNothingToDo
    <2>5. 0 <= Cardinality({}) /\ {} \in SUBSET Sessions(t)
      BY FS_EmptySet
    <2> HIDE DEF r
    <2>. QED
      BY <2>3, <2>4, <2>5, OwnReceived
  <1>2. ASSUME NEW t \in Tid, ReceiveStopCCN(t)
        PROVE  OwnCalls'
    <2> DEFINE r == [tunnel[t] EXCEPT !.state = "received_stop_ccn", !.unacked = FALSE]
               S == Sessions(t)
               n == Cardinality(WithSlave(S))
    <2>1. EndReceive(t, r, S, n) /\ wanted' = wanted
      BY <1>2 DEF ReceiveStopCCN
    <2>2. tunnel[t] \in TunnelRec
      BY Unfold
    <2>3. Carries(r)
      BY <2>2 DEF TunnelRec, Carries
    <2>4. S \in SUBSET Sessions(t) /\ S \in SUBSET Sid
      BY DEF Sessions
    <2>5. n \in Nat /\ n <= Cardinality(S)
      BY <2>4, EndedCount, EndedBound
    <2> HIDE DEF r, S, n
    <2>. QED
      BY <2>1, <2>3, <2>4, <2>5, OwnReceived
  <1>3. ASSUME NEW s \in Sid, NEW all \in BOOLEAN, ReceiveCDN(s, all)
        PROVE  OwnCalls'
    <2> DEFINE t == session[s].tunnel
               r == delete_session(s, Acked(tunnel[t], all))
               n == EndedByCDN(s)
    <2>1. EndReceive(t, r, {s}, n) /\ wanted' = wanted /\ session[s].state # "none"
      BY <1>3 DEF ReceiveCDN
    <2>2. t \in Tid /\ tunnel[t] \in TunnelRec /\ s \in Sessions(t)
      BY <2>1, SessionFacts
    <2>3. Carries(tunnel[t])
      BY <2>2 DEF OwnCalls, OwnTunnels
    <2>4. Carries(r)
      BY <2>2, <2>3 DEF delete_session, tunnel_send_StopCCN, Xmit, Acked, TunnelRec, Carries
    <2>5. {s} \in SUBSET Sessions(t) /\ {s} \in SUBSET Sid /\ Cardinality({s}) = 1
      BY <2>2, FS_Singleton
    <2>6. n \in Nat /\ n <= Cardinality({s})
      <3>1. /\ Cardinality(WithSlave({s})) \in Nat
            /\ Cardinality(WithSlave({s})) <= 1
        BY <2>5, EndedCount, EndedBound
      <3>2. CASE session[s].state = "established"
        BY <2>5, <3>1, <3>2 DEF EndedByCDN
      <3>3. CASE session[s].state # "established"
        <4>1. WithSlave({s}) = {}
          BY <3>3, Unfold DEF PppdAttached, WithSlave
        <4>2. n = 1 + 0
          BY <3>3, <4>1, FS_EmptySet DEF EndedByCDN
        <4>. QED
          BY <2>5, <4>2
      <3>. QED
        BY <3>2, <3>3
    <2> HIDE DEF t, r, n
    <2>. QED
      BY <2>1, <2>2, <2>4, <2>5, <2>6, OwnReceived
  <1>. QED
    BY <1>1, <1>2, <1>3

(* A CDN of ours arms at most one redial (only slave_exited does), or the  *)
(* operator has stopped the call.                                          *)
LEMMA OwnCDN ==
    ASSUME CallsInv, OwnCalls, NEW s \in Sid, session[s].state # "none",
           session_send_CDN(s),
           \/ redial' \in {redial, redial + 1} /\ wanted' = wanted
           \/ redial' = redial /\ wanted' = IF session[s].lac /\ wanted > 0
                                            THEN wanted - 1 ELSE wanted
    PROVE  OwnCalls'
  <1> DEFINE t == session[s].tunnel
             r == delete_session(s, Xmit(tunnel[t]))
             c == Cardinality(Outgoing)
             d == Cardinality(Outgoing')
  <1>1. tunnel' = [tunnel EXCEPT ![t] = r] /\ session_free({s})
    BY DEF session_send_CDN
  <1>2. t \in Tid /\ tunnel[t] \in TunnelRec
    BY SessionFacts
  <1>3. Carries(tunnel[t])
    BY <1>2 DEF OwnCalls, OwnTunnels
  <1>4. Carries(r)
    BY <1>2, <1>3 DEF delete_session, tunnel_send_StopCCN, Xmit, TunnelRec, Carries
  <1>5. session[s].lac
    BY DEF OwnCalls, OwnSessions
  <1>6. {s} \in SUBSET Sid /\ Cardinality({s}) = 1
    BY FS_Singleton
  <1>7. OwnSessions' /\ d = c - 1 /\ 1 <= c
    BY <1>1, <1>6, CallsFreed
  <1>8. c \in Nat /\ redial \in Nat /\ wanted \in Nat /\ c + redial <= wanted
    BY OutgoingCount DEF OwnCalls
  <1>9. NoExtraCall' <=> d + redial' <= wanted'
    BY DEF NoExtraCall
  <1> HIDE DEF t, r, c, d
  <1>10. d + redial' <= wanted'
    BY <1>5, <1>7, <1>8
  <1>11. OwnTunnels'
    BY <1>1, <1>2, <1>4, OwnTunnel
  <1>. QED
    BY <1>7, <1>9, <1>10, <1>11 DEF OwnCalls

(* Steps that end no call and start none. *)
LEMMA OwnQuiet ==
    ASSUME CallsInv, OwnCalls, session' \in [Sid -> SessionRec],
           \A s \in Sid : /\ session'[s].lac = session[s].lac
                          /\ session'[s].state = "none" <=> session[s].state = "none"
                          /\ session'[s].state # "wait_connect"
                                \/ session'[s] = session[s],
           redial' = redial, wanted' = wanted,
           \A t \in Tid : Carries(tunnel'[t])
    PROVE  OwnCalls'
  BY CallsStay DEF OwnCalls, OwnTunnels

(* A tunnel is freed: if it was not up, its timeout stands for one of its  *)
(* calls, none of which had a pppd.                                        *)
LEMMA OwnFreed ==
    ASSUME CallsInv, OwnCalls, OnlyWeCall, NEW t \in Tid,
           tunnel_handle_timeout(t) \/ tunnel_finally_cleanup(t)
    PROVE  OwnCalls'
  <1> DEFINE S == Sessions(t)
             w == Cardinality(WithSlave(S))
  <1>1. PICK n \in {0, 1} :
           /\ tunnel_free(t, n) /\ wanted' = wanted
           /\ n = 1 => tunnel[t].state \in {"wait_ctl_reply", "wait_ctl_conn"}
    BY DEF tunnel_handle_timeout, tunnel_finally_cleanup
  <1>2. /\ tunnel' = [tunnel EXCEPT ![t] = NoTunnel]
        /\ session_free(S) /\ MayRedial(fail, n + w)
    BY <1>1 DEF tunnel_free
  <1>3. S \in SUBSET Sid /\ \A s \in S : session[s].state # "none" /\ session[s].tunnel = t
    BY DEF Sessions
  <1>4. IsFiniteSet(S) /\ Cardinality(S) \in Nat
    BY <1>3, FiniteAssumption, FS_Subset, FS_CardinalityType
  <1>5. w \in Nat /\ w <= Cardinality(S)
    BY <1>3, EndedCount, EndedBound
  <1>6. ASSUME n = 1
        PROVE  w = 0 /\ 1 <= Cardinality(S)
    <2>1. tunnel[t].state \in {"wait_ctl_reply", "wait_ctl_conn"}
      BY <1>1, <1>6
    <2>2. \A s \in S : session[s].state # "established"
      BY <1>3, <2>1, SessionFacts DEF Serving
    <2>3. WithSlave(S) = {}
      BY <1>3, <2>2, Unfold DEF PppdAttached, WithSlave
    <2>4. tunnel[t].used
      BY <2>1 DEF OwnCalls, OwnTunnels, Carries
    <2>5. S # {}
      BY <2>1, <2>4, Unfold DEF TornDownWithLastSession, Open, OnlyWeCall
    <2>6. Cardinality(S) # 0
      BY <1>4, <2>5, FS_EmptySet
    <2>. QED
      BY <1>4, <2>3, <2>6, FS_EmptySet
  <1>7. n + w \in Nat /\ n + w <= Cardinality(S)
    <2> HIDE DEF S, w
    <2>. QED
      BY <1>4, <1>5, <1>6
  <1>8. Carries(NoTunnel)
    BY DEF Carries, NoTunnel
  <1> HIDE DEF S, w
  <1>9. OwnSessions' /\ NoExtraCall'
    BY <1>1, <1>2, <1>3, <1>7, CallsEnd
  <1>10. OwnTunnels'
    BY <1>2, <1>8, OwnTunnel
  <1>. QED
    BY <1>9, <1>10 DEF OwnCalls

(* A call of ours is one more session on a tunnel that carries it. *)
LEMMA OwnPlaced ==
    ASSUME CallsInv, OwnCalls, OnlyWeCall, PlaceCall
    PROVE  /\ OwnSessions' /\ OwnTunnels'
           /\ Cardinality(Outgoing') = Cardinality(Outgoing) + 1
  <1>0. PICK t \in Tid : CallOn(t, tunnel[t]) \/ CallOn(t, tunnel_establish)
    BY DEF PlaceCall
  <1>1. PICK r : /\ CallOn(t, r) /\ r \in TunnelRec
    <2>1. tunnel[t] \in TunnelRec /\ tunnel_establish \in TunnelRec
      BY Unfold DEF tunnel_establish, TunnelRec, StateName
    <2>. QED
      BY <1>0, <2>1
  <1>2. PICK s \in Sid : session[s].state = "none" /\ AddSession(t, s, r)
    BY <1>1 DEF CallOn, OnlyWeCall
  <1> DEFINE y == IF r.state = "established" THEN [Xmit(r) EXCEPT !.used = TRUE]
                                             ELSE [r EXCEPT !.used = TRUE]
             q == [state |-> IF r.state = "established" THEN "wait_reply"
                                                        ELSE "wait_tunnel",
                   tunnel |-> t, lac |-> TRUE, slave |-> None]
  <1>3. /\ tunnel' = [tunnel EXCEPT ![t] = y] /\ session' = [session EXCEPT ![s] = q]
        /\ y.used /\ q.lac /\ q.state \notin {"none", "wait_connect"}
    <2>1. y.used
      BY <1>1 DEF Xmit, TunnelRec
    <2>. QED
      BY <1>2, <2>1 DEF AddSession
  <1> HIDE DEF y, q
  <1>4. session'[s] = q /\ \A x \in Sid \ {s} : session'[x] = session[x]
    BY <1>3, Unfold
  <1>5. OwnSessions'
    BY <1>3, <1>4 DEF OwnCalls, OwnSessions
  <1>6. OwnTunnels'
    BY <1>3, OwnTunnel DEF Carries
  <1>7. s \notin Outgoing /\ Outgoing' = Outgoing \cup {s}
    BY <1>2, <1>3, <1>4 DEF Outgoing
  <1>8. IsFiniteSet(Outgoing)
    BY OutgoingCount DEF OwnCalls
  <1>. QED
    BY <1>5, <1>6, <1>7, <1>8, FS_AddElement

(* The operator starts a call, or a redial timer fires. *)
LEMMA OwnDialled ==
    ASSUME CallsInv, OwnCalls, OnlyWeCall, cmd_start_session \/ l2tp_tunnel_reestablish
    PROVE  OwnCalls'
  <1> DEFINE c == Cardinality(Outgoing)
             d == Cardinality(Outgoing')
             n == Redials(fail, 1)
  <1>1. /\ c \in Nat /\ redial \in Nat /\ wanted \in Nat /\ fail \in 0 .. MaxFail + 1
        /\ c + redial <= wanted
    BY OutgoingCount DEF OwnCalls
  <1>2. n \in Nat /\ n <= 1
    BY <1>1, RedialCount, RedialBound
  <1>3. NoExtraCall' <=> d + redial' <= wanted'
    BY DEF NoExtraCall
  <1>4. CASE /\ PlaceCall
             /\ \/ wanted' = wanted + 1 /\ redial' = redial
                \/ wanted' = wanted /\ redial' = redial - 1
    <2>1. OwnSessions' /\ OwnTunnels' /\ d = c + 1
      BY <1>4, OwnPlaced
    <2> HIDE DEF c, d, n
    <2>2. d + redial' <= wanted'
      BY <1>1, <1>4, <2>1
    <2>. QED
      BY <1>3, <2>1, <2>2 DEF OwnCalls
  <1>5. CASE /\ UNCHANGED <<tunnel, session>>
             /\ \/ wanted' = wanted + n /\ redial' = redial + n
                \/ wanted' = wanted /\ redial' = redial - 1 + n
    <2>1. OwnSessions' /\ OwnTunnels' /\ d = c
      BY <1>5 DEF OwnCalls, OwnSessions, OwnTunnels, Outgoing
    <2> HIDE DEF c, d, n
    <2>2. d + redial' <= wanted'
      BY <1>1, <1>2, <1>5, <2>1
    <2>. QED
      BY <1>3, <2>1, <2>2 DEF OwnCalls
  <1>. QED
    BY <1>4, <1>5 DEF cmd_start_session, l2tp_tunnel_reestablish, CannotResolve, MayRedial,
                      OnlyWeCall

(* Every step, for a peer that only we call. *)
LEMMA OwnNext ==
    ASSUME OnlyWeCall
    PROVE  CallsInv /\ CallsInv' /\ OwnCalls /\ [Next]_vars => OwnCalls'
  <1> SUFFICES ASSUME CallsInv, CallsInv', OwnCalls, [Next]_vars PROVE OwnCalls'
    OBVIOUS
  <1>0. /\ tunnel \in [Tid -> TunnelRec] /\ session \in [Sid -> SessionRec]
        /\ session' \in [Sid -> SessionRec] /\ \A t \in Tid : Carries(tunnel[t])
    BY Unfold DEF OwnCalls, OwnTunnels, CallsInv, CallsTypeOK, SessionRec
  <1>1. CASE cmd_start_session \/ l2tp_tunnel_reestablish
    BY <1>1, OwnDialled
  <1>2. ASSUME NEW s \in Sid, cmd_stop_session(s)
        PROVE  OwnCalls'
    BY <1>2, OwnCDN DEF cmd_stop_session
  <1>3. ASSUME NEW s \in Sid, ReceiveICRP(s)
        PROVE  OwnCalls'
    <2>1. CASE /\ \E p \in Pid : establish_session(s, p)
               /\ tunnel' = [tunnel EXCEPT ![session[s].tunnel] = Xmit(@)]
      <3>1. \A x \in Sid : /\ session'[x].lac = session[x].lac
                           /\ \/ session'[x].state = "established" /\ x = s
                              \/ session'[x] = session[x]
        BY <1>0, <2>1 DEF establish_session, SessionRec
      <3>2. session[s].state # "none" /\ redial' = redial /\ wanted' = wanted
        BY <1>3 DEF ReceiveICRP
      <3>3. \A t \in Tid : Carries(tunnel'[t])
        BY <1>0, <2>1 DEF Carries, Xmit, TunnelRec
      <3>. QED
        BY <1>0, <3>1, <3>2, <3>3, OwnQuiet
    <2>2. CASE session_send_CDN(s)
      BY <1>3, <2>2, OwnCDN DEF ReceiveICRP
    <2>. QED
      BY <1>3, <2>1, <2>2 DEF ReceiveICRP
  <1>4. CASE \/ \E t \in Tid, all \in BOOLEAN : ReceiveNothingToDo(t, all)
             \/ \E t \in Tid : ReceiveStopCCN(t)
             \/ \E s \in Sid, all \in BOOLEAN : ReceiveCDN(s, all)
    BY <1>4, OwnMessages
  <1>5. ASSUME NEW t \in Tid, NEW all \in BOOLEAN, NEW e, ReceiveOpening(t, e, all)
        PROVE  OwnCalls'
    <2>1. redial' = redial /\ wanted' = wanted
      BY <1>5 DEF ReceiveOpening
    <2>2. \A x \in Sid : /\ session'[x].lac = session[x].lac
                         /\ \/ session'[x] = session[x]
                            \/ /\ session[x].state = "wait_tunnel"
                               /\ session'[x].state = "wait_reply"
      BY <1>0, <1>5 DEF ReceiveOpening, TunnelOpens, TunnelRefused, SessionRec
    <2>3. \A x \in Tid \ {t} : tunnel'[x] = tunnel[x]
      BY <1>0, <1>5 DEF ReceiveOpening, TunnelOpens, TunnelRefused
    <2>4. tunnel'[t].state \in {"established", "sent_stop_ccn"}
      <3>1. CASE TunnelOpens(t, all)
        BY <1>0, <3>1 DEF TunnelOpens, tunnel_setup_hello, TunnelRec
      <3>2. CASE TunnelRefused(t)
        BY <1>0, <3>2 DEF TunnelRefused, tunnel_send_StopCCN, Xmit, TunnelRec
      <3>. QED
        BY <1>5, <3>1, <3>2 DEF ReceiveOpening
    <2>5. \A x \in Tid : Carries(tunnel'[x])
      BY <1>0, <2>3, <2>4 DEF Carries
    <2>. QED
      BY <1>0, <2>1, <2>2, <2>5, OwnQuiet
  <1>6. ASSUME NEW s \in Sid, NEW all \in BOOLEAN, ReceiveICCN(s, all)
        PROVE  OwnCalls'
    <2>1. session[s].state # "wait_connect" /\ session[s].state # "none"
      BY <1>6 DEF ReceiveICCN, OwnCalls, OwnSessions
    <2>. QED
      BY <1>6, <2>1, OwnCDN DEF ReceiveICCN
  <1>7. ASSUME NEW t \in Tid, HandleSCCRQ(t)
        PROVE  OwnCalls'
    BY <1>7 DEF HandleSCCRQ, OnlyWeCall
  <1>8. ASSUME NEW t \in Tid, ReceiveICRQ(t) \/ tunnel_do_hello(t)
        PROVE  OwnCalls'
    <2>1. session' = session /\ redial' = redial /\ wanted' = wanted
      BY <1>8 DEF ReceiveICRQ, tunnel_do_hello, OnlyWeCall
    <2>2. PICK r \in {tunnel_send_StopCCN(tunnel[t]), Xmit(tunnel[t])} :
             tunnel' = [tunnel EXCEPT ![t] = r]
      BY <1>8 DEF ReceiveICRQ, tunnel_do_hello, OnlyWeCall
    <2>3. Carries(r)
      BY <1>0, <2>2 DEF tunnel_send_StopCCN, Xmit, TunnelRec, Carries
    <2>4. \A x \in Tid : Carries(tunnel'[x])
      BY <1>0, <2>2, <2>3
    <2>. QED
      BY <1>0, <2>1, <2>4, OwnQuiet
  <1>9. ASSUME NEW t \in Tid, tunnel_handle_timeout(t) \/ tunnel_finally_cleanup(t)
        PROVE  OwnCalls'
    BY <1>9, OwnFreed
  <1>10. ASSUME NEW p \in Pid, slave_exited(p)
         PROVE  OwnCalls'
    <2>1. CASE slave[p].ses # None
      <3>1. slave[p].ses \in Sid /\ session[slave[p].ses].state # "none"
        BY <2>1, Unfold, NoneAssumption DEF SlaveRec, SlavesHooked, PppdAttached
      <3>2. /\ session_send_CDN(slave[p].ses) /\ wanted' = wanted
            /\ redial' \in {redial, redial + 1}
        BY <1>10, <2>1 DEF slave_exited
      <3>. QED
        BY <3>1, <3>2, OwnCDN
    <2>2. CASE slave[p].ses = None
      BY <1>0, <1>10, <2>2, OwnQuiet DEF slave_exited
    <2>. QED
      BY <2>1, <2>2
  <1>11. CASE tunnel_cleanup
    <2>1. \A x \in Tid : Carries(tunnel'[x])
      BY <1>0, <1>11 DEF tunnel_cleanup, tunnel_send_StopCCN, Xmit, TunnelRec, Carries
    <2>. QED
      BY <1>0, <1>11, <2>1, OwnQuiet DEF tunnel_cleanup
  <1>12. CASE Exit \/ UNCHANGED vars \/ \E p \in Pid : PppdExits(p)
    <2>1. tunnel' = tunnel /\ session' = session /\ redial' = redial /\ wanted' = wanted
      BY <1>12 DEF Exit, vars, PppdExits
    <2>. QED
      BY <1>0, <2>1, OwnQuiet
  <1>. QED
    BY <1>1, <1>2, <1>3, <1>4, <1>5, <1>6, <1>7, <1>8, <1>9, <1>10, <1>11, <1>12
       DEF Next, ReceiveSCCRP, ReceiveSCCCN

(* For a peer that only we call, without retain-tunnel: whichever of the   *)
(* call, its tunnel and its pppd ends first, and however the peer answers, *)
(* a call is never redialled twice and a stopped one not at all.           *)
THEOREM NeverRedialledTwice ==
    ASSUME OnlyWeCall
    PROVE  Spec => []NoExtraCall
  <1>1. Init => OwnCalls
    <2> SUFFICES ASSUME Init PROVE OwnCalls
      OBVIOUS
    <2>1. OwnSessions /\ OwnTunnels
      BY DEF Init, OwnSessions, OwnTunnels, Carries, NoSession, NoTunnel
    <2>2. Outgoing = {}
      BY DEF Init, Outgoing, NoSession
    <2>3. NoExtraCall
      BY <2>2, FS_EmptySet DEF Init, NoExtraCall
    <2>. QED
      BY <2>1, <2>3 DEF OwnCalls
  <1>2. OwnCalls => NoExtraCall
    BY DEF OwnCalls
  <1>3. CallsInv /\ CallsInv' /\ OwnCalls /\ [Next]_vars => OwnCalls'
    BY OwnNext
  <1>. QED
    BY <1>1, <1>2, <1>3, CallsSafety, PTL DEF Spec

=============================================================================

--------------------------- MODULE TransportProofs ---------------------------
(***************************************************************************)
(* The safety of the control transport, for every Rws, SeqMod, Payload and *)
(* MaxSent.                                                                *)
(*                                                                         *)
(* The first part is about the operators of ControlChannel: the 16-bit     *)
(* comparisons agree with the order of the counters they come from as long *)
(* as the counters are less than half a turn apart, and the congestion     *)
(* window stays inside the peer's receive window. The second shows what    *)
(* each operation on a tunnel does to the invariant of that tunnel         *)
(* (ChannelOK); the third that every action of Transport preserves         *)
(* TransportInv.                                                           *)
(***************************************************************************)
EXTENDS Transport, SequenceTheorems, WellFoundedInduction, TLAPS

(* SeqMod is twice SeqHalf. *)
LEMMA HalfTurn == SeqHalf \in Nat /\ SeqHalf > 0 /\ SeqMod = 2 * SeqHalf
  BY SeqModAssumption DEF SeqHalf

(* Division with remainder, for the range of sequence numbers. *)
LEMMA DivMod ==
    ASSUME NEW a \in Int
    PROVE  \E q \in Int : a = SeqMod * q + Bits(a) /\ Bits(a) \in 0 .. SeqMod - 1
  <1>1. /\ a = SeqMod * (a \div SeqMod) + (a % SeqMod)
        /\ a % SeqMod \in 0 .. SeqMod - 1
        /\ a \div SeqMod \in Int
    BY SeqModAssumption
  <1>. QED
    BY <1>1 DEF Bits

(* How large a multiple of SeqMod is. *)
LEMMA Multiples ==
    ASSUME NEW q \in Int
    PROVE  /\ q >= 1 => SeqMod * q >= SeqMod
           /\ q >= 2 => SeqMod * q >= 2 * SeqMod
           /\ q <= -1 => SeqMod * q <= -SeqMod
           /\ q <= -2 => SeqMod * q <= -2 * SeqMod
           /\ q = 0 => SeqMod * q = 0
  BY SeqModAssumption

(* What the stored bits of two numbers say about their difference. *)
LEMMA Distance ==
    ASSUME NEW a \in Int, NEW b \in Int, a - b < SeqMod, b - a < SeqMod
    PROVE  /\ Bits(a) \in 0 .. SeqMod - 1
           /\ Bits(b) \in 0 .. SeqMod - 1
           /\ \/ a - b = Bits(a) - Bits(b)
              \/ a - b = Bits(a) - Bits(b) + SeqMod
              \/ a - b = Bits(a) - Bits(b) - SeqMod
  <1>1. PICK p \in Int : a = SeqMod * p + Bits(a) /\ Bits(a) \in 0 .. SeqMod - 1
    BY DivMod
  <1>2. PICK r \in Int : b = SeqMod * r + Bits(b) /\ Bits(b) \in 0 .. SeqMod - 1
    BY DivMod
  <1> DEFINE x == Bits(a)
             y == Bits(b)
             q == p - r
             z == SeqMod * q
  <1>3. /\ x \in 0 .. SeqMod - 1 /\ y \in 0 .. SeqMod - 1
        /\ q \in Int /\ z \in Int
        /\ SeqMod \in Nat
    BY <1>1, <1>2, SeqModAssumption
  <1>4. z = SeqMod * p - SeqMod * r
    BY <1>3
  <1>5. a - b = z + (x - y)
    BY <1>1, <1>2, <1>3, <1>4
  <1>6. /\ q >= 2 => z >= 2 * SeqMod
        /\ q <= -2 => z <= -2 * SeqMod
        /\ q = 1 => z = SeqMod
        /\ q = -1 => z = -SeqMod
        /\ q = 0 => z = 0
    BY <1>3, Multiples
  <1> HIDE DEF x, y, q, z
  <1>7. z < 2 * SeqMod /\ z > -2 * SeqMod
    BY <1>3, <1>5
  <1>8. q \in {-1, 0, 1}
    BY <1>3, <1>6, <1>7
  <1>9. \/ a - b = x - y
        \/ a - b = x - y + SeqMod
        \/ a - b = x - y - SeqMod
    BY <1>3, <1>5, <1>6, <1>8
  <1>. QED
    BY <1>3, <1>9 DEF x, y

(* Within a turn, equal bits mean equal numbers. *)
LEMMA SameBits ==
    ASSUME NEW a \in Int, NEW b \in Int, a - b < SeqMod, b - a < SeqMod,
           Bits(a) = Bits(b)
    PROVE  a = b
  <1>1. /\ Bits(a) \in 0 .. SeqMod - 1
        /\ Bits(b) \in 0 .. SeqMod - 1
        /\ \/ a - b = Bits(a) - Bits(b)
           \/ a - b = Bits(a) - Bits(b) + SeqMod
           \/ a - b = Bits(a) - Bits(b) - SeqMod
    BY Distance
  <1>. QED
    BY <1>1, SeqModAssumption

(* Within half a turn, SERIAL_LT and SERIAL_GT are < and >. *)
LEMMA SerialOrder ==
    ASSUME NEW a \in Int, NEW b \in Int, a - b < SeqHalf, b - a < SeqHalf
    PROVE  /\ SERIAL_LT(a, b) <=> a < b
           /\ SERIAL_GT(a, b) <=> a > b
  <1>1. a - b < SeqMod /\ b - a < SeqMod
    BY HalfTurn
  <1>2. /\ Bits(a) \in 0 .. SeqMod - 1
        /\ Bits(b) \in 0 .. SeqMod - 1
        /\ \/ a - b = Bits(a) - Bits(b)
           \/ a - b = Bits(a) - Bits(b) + SeqMod
           \/ a - b = Bits(a) - Bits(b) - SeqMod
    BY <1>1, Distance
  <1>. QED
    BY <1>2, HalfTurn DEF SERIAL_LT, SERIAL_GT

(* What tunnel_outstanding_frames computes: the frames in flight, unless   *)
(* an acknowledgement has overtaken Ns_on_wire.                            *)
LEMMA Outstanding ==
    ASSUME NEW t, t.Ns_on_wire \in Nat, t.peer_Nr \in Nat,
           t.Ns_on_wire - t.peer_Nr < SeqMod, t.peer_Nr - t.Ns_on_wire < SeqMod
    PROVE  tunnel_outstanding_frames(t) =
               IF t.Ns_on_wire >= t.peer_Nr THEN t.Ns_on_wire - t.peer_Nr
               ELSE SeqMod - (t.peer_Nr - t.Ns_on_wire)
  <1> DEFINE c == t.Ns_on_wire - t.peer_Nr
             o == Bits(c)
  <1>1. c \in Int /\ SeqMod \in Nat /\ c < SeqMod /\ c > -SeqMod
    BY SeqModAssumption
  <1>2. PICK q \in Int : c = SeqMod * q + o /\ o \in 0 .. SeqMod - 1
    BY <1>1, DivMod
  <1> DEFINE z == SeqMod * q
  <1>3. /\ z \in Int
        /\ q >= 1 => z >= SeqMod
        /\ q <= -2 => z <= -2 * SeqMod
        /\ q = 0 => z = 0
        /\ q = -1 => z = -SeqMod
    BY <1>1, Multiples
  <1>4. tunnel_outstanding_frames(t) = o
    BY DEF tunnel_outstanding_frames
  <1> HIDE DEF c, o, z
  <1>5. c = z + o /\ o \in 0 .. SeqMod - 1
    BY <1>2 DEF z
  <1>6. o = IF c >= 0 THEN c ELSE SeqMod + c
    BY <1>1, <1>3, <1>5
  <1>. QED
    BY <1>4, <1>6, SeqModAssumption DEF c

-----------------------------------------------------------------------------
(* Every non-empty set of naturals has a least element. *)
LEMMA LeastNatural ==
    ASSUME NEW T, T \subseteq Nat, T # {}
    PROVE  \E x \in T : \A y \in T : ~(y < x)
  <1>1. IsWellFoundedOn(OpToRel(<, Nat), Nat)
    BY NatLessThanWellFounded
  <1>2. PICK x \in T : \A y \in T : ~(<<y, x>> \in OpToRel(<, Nat))
    BY <1>1, WFMin
  <1>3. \A y \in T : y < x => <<y, x>> \in OpToRel(<, Nat)
    BY DEF OpToRel
  <1>. QED
    BY <1>2, <1>3

(* the congestion windows within a receive window of rws *)
Window(rws) == [cwnd : 1 .. rws, cwnd_counter : 0 .. rws - 1]

(* One acknowledged packet keeps the window within the peer's. *)
LEMMA OpenWindowType ==
    ASSUME NEW rws \in Nat, NEW w \in Window(rws), NEW ssthresh \in Nat
    PROVE  OpenWindow(w, ssthresh, rws) \in Window(rws)
  BY DEF OpenWindow, CapAtPeerRws, Window

(* So do n of them. *)
LEMMA WindowAfterType ==
    ASSUME NEW t, t.peer_rws \in Nat, t.ssthresh \in Nat, NEW n \in Nat,
           t.cwnd \in 1 .. t.peer_rws, t.cwnd_counter \in 0 .. t.peer_rws - 1
    PROVE  WindowAfter(t, n) \in Window(t.peer_rws)
  <1> DEFINE w0 == [cwnd |-> t.cwnd, cwnd_counter |-> t.cwnd_counter]
             W == Window(t.peer_rws)
             Step(w) == OpenWindow(w, t.ssthresh, t.peer_rws)
             Run(m, g) == g[0] = w0 /\ \A i \in 1 .. m : g[i] = Step(g[i - 1])
             Missing == {m \in Nat : ~\E g \in [0 .. m -> W] : Run(m, g)}
             Eq(g) == g = [i \in 0 .. n |-> IF i = 0 THEN w0 ELSE Step(g[i - 1])]
             run == CHOOSE g : Eq(g)
  <1>1. w0 \in W
    BY DEF Window
  <1>2. \A w \in W : Step(w) \in W
    BY OpenWindowType
  <1>3. WindowAfter(t, n) = run[n]
    BY DEF WindowAfter
  <1> HIDE DEF w0, W, Step
  <1>4. Missing = {}
    <2> SUFFICES ASSUME Missing # {} PROVE FALSE
      OBVIOUS
    <2>1. PICK x \in Missing : \A y \in Missing : ~(y < x)
      <3>1. Missing \subseteq Nat OBVIOUS
      <3>. HIDE DEF Missing
      <3>. QED BY <3>1, LeastNatural
    <2>2. x # 0
      <3>1. [i \in 0 .. 0 |-> w0] \in [0 .. 0 -> W]
        BY <1>1
      <3>2. Run(0, [i \in 0 .. 0 |-> w0])
        OBVIOUS
      <3>3. 0 \notin Missing
        BY <3>1, <3>2
      <3>. QED BY <3>3, <2>1
    <2>3. x \in Nat /\ x - 1 \in Nat /\ x - 1 < x
      BY <2>1, <2>2
    <2>4. x - 1 \notin Missing
      BY <2>1, <2>3
    <2>5. PICK g \in [0 .. (x - 1) -> W] : Run(x - 1, g)
      BY <2>3, <2>4
    <2> DEFINE h == [i \in 0 .. x |-> IF i = x THEN Step(g[x - 1]) ELSE g[i]]
    <2>6. h \in [0 .. x -> W]
      BY <2>3, <2>5, <1>2
    <2>7. Run(x, h)
      BY <2>2, <2>3, <2>5
    <2>. QED
      BY <2>1, <2>6, <2>7
  <1>5. PICK g \in [0 .. n -> W] : Run(n, g)
    BY <1>4
  <1>6. Eq(g)
    BY <1>5
  <1>7. Eq(run)
    BY <1>6
  <1> HIDE DEF run
  <1> DEFINE Bad == {i \in 0 .. n : run[i] \notin W}
  <1>8. Bad = {}
    <2> SUFFICES ASSUME Bad # {} PROVE FALSE
      OBVIOUS
    <2>1. PICK x \in Bad : \A y \in Bad : ~(y < x)
      <3>1. Bad \subseteq Nat OBVIOUS
      <3>. HIDE DEF Bad
      <3>. QED BY <3>1, LeastNatural
    <2>2. x # 0
      BY <1>1, <1>7, <2>1
    <2>3. x - 1 \in 0 .. n /\ run[x - 1] \in W
      BY <2>1, <2>2
    <2>4. run[x] = Step(run[x - 1])
      BY <1>7, <2>1, <2>2
    <2>. QED
      BY <1>2, <2>1, <2>3, <2>4
  <1>. QED
    BY <1>3, <1>8 DEF W

(***************************************************************************)
(* The operations on a tunnel.                                             *)
(***************************************************************************)

(* a pending message never lacks its retransmission timer *)
TimerCovers(t) == t.xmit_queue # <<>> => t.timeout_handler

(* What Append does, for the queues and histories below. *)
LEMMA AppendSeq ==
    ASSUME NEW S, NEW s \in Seq(S), NEW x \in S
    PROVE  /\ Append(s, x) \in Seq(S)
           /\ Len(s) \in Nat
           /\ Len(Append(s, x)) = Len(s) + 1
           /\ \A i \in 1 .. Len(s) : Append(s, x)[i] = s[i]
           /\ Append(s, x)[Len(s) + 1] = x
           /\ Append(s, x) # <<>>
  OBVIOUS

(* The fields of a tunnel that the arguments below use. *)
LEMMA TunnelFields ==
    ASSUME NEW t \in Tunnel
    PROVE  /\ t.Ns \in Nat /\ t.Ns_on_wire \in Nat /\ t.Nr \in Nat
           /\ t.peer_Nr \in Nat /\ t.xmit_new \in Nat /\ t.xmit_new >= 1
           /\ t.peer_rws \in Nat /\ t.peer_rws >= 1 /\ t.peer_rws <= Rws
           /\ t.ssthresh \in Nat /\ t.cwnd \in 1 .. Rws
           /\ t.cwnd_counter \in Nat
           /\ t.xmit_queue \in Seq(Dgram)
           /\ Len(t.xmit_queue) \in Nat
           /\ t.timeout_handler \in BOOLEAN /\ t.ack_handler \in BOOLEAN
           /\ t.state \in TunnelState
  BY RwsAssumption DEF Tunnel

(* Queueing a message extends what the queue holds at its end. *)
LEMMA EnqueueOK ==
    ASSUME NEW t \in Tunnel, NEW s \in Seq(Message), NEW k \in Nat,
           NEW m \in Message, ChannelOK(t, s, k), Len(t.xmit_queue) < SeqHalf
    PROVE  /\ tunnel_enqueue_dgram(t, m) \in Tunnel
           /\ ChannelOK(tunnel_enqueue_dgram(t, m), Append(s, m), k)
           /\ ~NothingNew(tunnel_enqueue_dgram(t, m))
           /\ tunnel_enqueue_dgram(t, m).xmit_queue # <<>>
  <1> DEFINE u == tunnel_enqueue_dgram(t, m)
             d == [Ns |-> t.Ns, msg |-> m]
             q == Append(t.xmit_queue, d)
  <1>0. /\ t.Ns \in Nat /\ t.Ns_on_wire \in Nat /\ t.peer_Nr \in Nat
        /\ t.xmit_new \in Nat /\ t.peer_rws \in Nat
        /\ t.xmit_queue \in Seq(Dgram) /\ Len(t.xmit_queue) \in Nat
    BY TunnelFields
  <1>1. d \in Dgram /\ d.Ns = t.Ns /\ d.msg = m
    BY <1>0 DEF Dgram
  <1> HIDE DEF d
  <1>2. q \in Seq(Dgram) /\ Len(q) = Len(t.xmit_queue) + 1
    BY <1>1, <1>0, AppendSeq
  <1>3. /\ \A i \in 1 .. Len(t.xmit_queue) : q[i] = t.xmit_queue[i]
        /\ q[Len(t.xmit_queue) + 1] = d
    BY <1>1, <1>0, AppendSeq
  <1>4. u = [t EXCEPT !.xmit_queue = q, !.Ns = t.Ns + 1]
    BY DEF tunnel_enqueue_dgram, q, d
  <1> HIDE DEF q, u
  <1>5. u \in Tunnel
    <2>1. q \in Seq(Dgram) /\ t.Ns + 1 \in Nat
      BY <1>0, <1>2
    <2>. QED
      BY <2>1, <1>4 DEF Tunnel
  <1>6. u.xmit_queue = q /\ u.Ns = t.Ns + 1 /\ u.peer_Nr = t.peer_Nr
        /\ u.Ns_on_wire = t.Ns_on_wire /\ u.xmit_new = t.xmit_new
        /\ u.peer_rws = t.peer_rws
    BY <1>4 DEF Tunnel
  <1>7. QueueOK(u, Append(s, m))
    <2> DEFINE s1 == Append(s, m)
    <2>1. t.Ns = Len(s) /\ t.peer_Nr + Len(t.xmit_queue) = t.Ns
      BY DEF ChannelOK, QueueOK
    <2>2. Len(s) \in Nat /\ Len(s1) = Len(s) + 1
      BY AppendSeq
    <2>3. (\A i \in 1 .. Len(s) : s1[i] = s[i]) /\ s1[Len(s) + 1] = m
      BY AppendSeq
    <2> HIDE DEF s1
    <2>4. /\ u.Ns = Len(s1)
          /\ u.peer_Nr + Len(u.xmit_queue) = u.Ns
          /\ Len(u.xmit_queue) <= SeqHalf
      <3>1. u.Ns = Len(s1)
        BY <1>6, <2>1, <2>2
      <3>2. Len(u.xmit_queue) = Len(t.xmit_queue) + 1
        BY <1>2, <1>6
      <3>3. u.peer_Nr + Len(u.xmit_queue) = u.Ns
        BY <1>0, <1>6, <2>1, <3>2
      <3>4. Len(u.xmit_queue) <= SeqHalf
        BY <1>0, <3>2, HalfTurn
      <3>. QED
        BY <3>1, <3>3, <3>4
    <2>5. ASSUME NEW i \in 1 .. Len(t.xmit_queue)
          PROVE  q[i].Ns = t.peer_Nr + i - 1 /\ q[i].msg = s1[t.peer_Nr + i]
      <3>1. /\ t.xmit_queue[i].Ns = t.peer_Nr + i - 1
            /\ t.xmit_queue[i].msg = s[t.peer_Nr + i]
        BY DEF ChannelOK, QueueOK
      <3>2. t.peer_Nr + i \in 1 .. Len(s)
        BY <1>0, <2>1, SMTT(30)
      <3>. QED
        BY <1>3, <2>3, <3>1, <3>2
    <2>6. ASSUME NEW i \in 1 .. Len(u.xmit_queue)
          PROVE  /\ u.xmit_queue[i].Ns = u.peer_Nr + i - 1
                 /\ u.xmit_queue[i].msg = s1[u.peer_Nr + i]
      <3>1. CASE i \in 1 .. Len(t.xmit_queue)
        BY <3>1, <1>6, <2>5
      <3>2. CASE i = Len(t.xmit_queue) + 1
        <4>1. u.peer_Nr + i = Len(s) + 1 /\ u.peer_Nr + i - 1 = t.Ns
          BY <3>2, <1>0, <1>6, <2>1
        <4>. QED
          BY <4>1, <3>2, <1>1, <1>3, <1>6, <2>3
      <3>. QED
        BY <1>0, <1>2, <1>6, <3>1, <3>2
    <2>. QED
      BY <2>4, <2>6 DEF QueueOK, s1
  <1>8. WireOK(u)
    BY <1>0, <1>2, <1>6 DEF ChannelOK, WireOK
  <1>9. ChannelOK(u, Append(s, m), k)
    BY <1>6, <1>7, <1>8 DEF ChannelOK, WindowBase
  <1>10. ~NothingNew(u)
    BY <1>0, <1>2, <1>6 DEF NothingNew, ChannelOK, WireOK
  <1>11. u.xmit_queue # <<>>
    BY <1>0, <1>2, <1>6
  <1>. QED
    BY <1>5, <1>9, <1>10, <1>11 DEF u

(* Frames are only sent when Ns_on_wire is where the queue says, and then  *)
(* they stay within the peer's receive window.                             *)
LEMMA WindowRespected ==
    ASSUME NEW t \in Tunnel, NEW s \in Seq(Message), NEW k \in Nat,
           ChannelOK(t, s, k), WindowOK(t), NEW n \in XmitCounts(t)
    PROVE  /\ n \in Nat
           /\ t.xmit_new + n <= Len(t.xmit_queue) + 1
           /\ n > 0 => /\ t.Ns_on_wire = t.peer_Nr + t.xmit_new - 1
                       /\ t.xmit_new + n <= t.peer_rws + 1
  <1> DEFINE W == t.Ns_on_wire
             P == t.peer_Nr
             X == t.xmit_new
             R == t.peer_rws
             C == t.cwnd
             L == Len(t.xmit_queue)
             O == tunnel_outstanding_frames(t)
  <1>0. /\ W \in Nat /\ P \in Nat /\ X \in Nat /\ X >= 1
        /\ R \in Nat /\ R <= Rws /\ C \in Nat /\ L \in Nat
    BY RwsAssumption, TunnelFields
  <1>1. n \in Nat /\ WindowAllows(t, n)
    BY <1>0 DEF XmitCounts
  <1>2. X + n <= L + 1 /\ (n > 0 => O + n <= C)
    BY <1>1 DEF WindowAllows
  <1>3. /\ X <= L + 1 /\ L <= SeqHalf /\ C <= R
        /\ W = P + X - 1 \/ W < P
    BY DEF ChannelOK, WireOK, QueueOK, WindowOK
  <1>4. W < P => P <= W + R
    BY <1>0 DEF ChannelOK, WindowBase
  <1>5. /\ W - P < SeqMod /\ P - W < SeqMod =>
              O = IF W >= P THEN W - P ELSE SeqMod - (P - W)
    BY <1>0, Outstanding
  <1>6. Rws \in Nat /\ Rws < SeqHalf /\ SeqHalf \in Nat /\ SeqMod = 2 * SeqHalf
    BY RwsAssumption, HalfTurn
  <1> HIDE DEF W, P, X, R, C, L, O
  <1>7. W - P < SeqMod /\ P - W < SeqMod
    BY <1>0, <1>3, <1>4, <1>6
  <1>8. n > 0 => W = P + X - 1
    BY <1>0, <1>1, <1>2, <1>3, <1>4, <1>5, <1>6, <1>7
  <1>9. n > 0 => X + n <= R + 1
    BY <1>0, <1>1, <1>2, <1>3, <1>5, <1>7, <1>8
  <1>. QED
    BY <1>1, <1>2, <1>8, <1>9 DEF W, P, X, R, C, L, O

(* what a run of the queue puts on the wire, given what was queued (s) and *)
(* the number the peer's window is counted from (base)                     *)
FrameOK(d, s, nr, limit) ==
    /\ d.Nr = nr
    /\ d.Ns \in Nat /\ d.Ns < Len(s) /\ d.Ns < limit
    /\ d.msg = s[d.Ns + 1]

(* Running the queue preserves the invariant of the tunnel. *)
LEMMA XmitOK ==
    ASSUME NEW t \in Tunnel, NEW s \in Seq(Message), NEW k \in Nat,
           ChannelOK(t, s, k), WindowOK(t), NEW n \in XmitCounts(t),
           NothingNew(t) => TimerCovers(t),
           NEW u, u = tunnel_xmit_queued_messages(t, n)
    PROVE  /\ u \in Tunnel /\ ChannelOK(u, s, k) /\ WindowOK(u)
           /\ TimerCovers(u)
           /\ u.xmit_queue = t.xmit_queue /\ u.state = t.state /\ u.Nr = t.Nr
           /\ u.timeout_handler => t.timeout_handler \/ u.xmit_queue # <<>>
           /\ u.peer_rws = t.peer_rws /\ WindowBase(u) = WindowBase(t)
           /\ \A d \in Transmitted(t, n) :
                 FrameOK(d, s, t.Nr, WindowBase(u) + u.peer_rws)
  <1> DEFINE P == t.peer_Nr
             X == t.xmit_new
             R == t.peer_rws
             L == Len(t.xmit_queue)
             LS == Len(s)
  <1>0. /\ t.Ns_on_wire \in Nat /\ P \in Nat /\ t.Nr \in Nat
        /\ X \in Nat /\ X >= 1 /\ R \in Nat /\ L \in Nat /\ LS \in Nat
    BY TunnelFields
  <1>1. /\ n \in Nat
        /\ X + n <= L + 1
        /\ n > 0 => t.Ns_on_wire = P + X - 1 /\ X + n <= R + 1
    BY WindowRespected
  <1>2. P + L = LS
    BY DEF ChannelOK, QueueOK
  <1>3. ASSUME NEW i \in 1 .. L
        PROVE  /\ t.xmit_queue[i].Ns = P + i - 1
               /\ t.xmit_queue[i].msg = s[P + i]
    BY DEF ChannelOK, QueueOK
  <1> HIDE DEF P, X, R, L, LS
  <1>4. ASSUME NEW d \in Transmitted(t, n)
        PROVE  FrameOK(d, s, t.Nr, P + R) /\ n > 0
    <2>1. PICK i \in X .. X + n - 1 :
              d = [Ns |-> t.xmit_queue[i].Ns, Nr |-> t.Nr, msg |-> t.xmit_queue[i].msg]
      BY DEF Transmitted, X
    <2>2. i \in 1 .. L /\ n > 0 /\ i <= R
      BY <1>0, <1>1
    <2>3. d.Ns = P + i - 1 /\ d.Nr = t.Nr /\ d.msg = s[P + i]
      BY <1>3, <2>1, <2>2
    <2> DEFINE ns == P + i - 1
    <2>4. ns \in Nat /\ ns < LS /\ ns + 1 = P + i /\ ns < P + R
      BY <1>0, <1>2, <2>2
    <2> HIDE DEF ns
    <2>5. d.Ns = ns /\ d.msg = s[ns + 1]
      BY <2>3, <2>4 DEF ns
    <2>. QED
      BY <2>2, <2>3, <2>4, <2>5 DEF FrameOK, LS
  <1>5. CASE NothingNew(t)
    <2>1. u = t
      BY <1>5 DEF tunnel_xmit_queued_messages
    <2>2. n = 0
      BY <1>0, <1>1, <1>5 DEF NothingNew, X, L
    <2>. QED
      BY <1>4, <1>5, <2>1, <2>2
  <1>6. CASE ~NothingNew(t) /\ n = 0
    <2>1. u = [t EXCEPT !.xmit_new = t.xmit_new + n, !.Ns_on_wire = t.Ns_on_wire,
                        !.ack_handler = t.ack_handler, !.timeout_handler = TRUE]
      BY <1>6 DEF tunnel_xmit_queued_messages
    <2>2. t.xmit_new + n = t.xmit_new
      BY <1>0, <1>6 DEF X
    <2>3. u = [t EXCEPT !.timeout_handler = TRUE]
      BY <2>1, <2>2 DEF Tunnel
    <2>4. /\ u \in Tunnel
          /\ u.xmit_queue = t.xmit_queue /\ u.state = t.state /\ u.Nr = t.Nr
          /\ u.Ns = t.Ns /\ u.peer_Nr = t.peer_Nr /\ u.Ns_on_wire = t.Ns_on_wire
          /\ u.xmit_new = t.xmit_new /\ u.peer_rws = t.peer_rws
          /\ u.cwnd = t.cwnd /\ u.cwnd_counter = t.cwnd_counter
          /\ u.timeout_handler
      BY <2>3 DEF Tunnel
    <2>5. ChannelOK(u, s, k) /\ WindowOK(u) /\ WindowBase(u) = WindowBase(t)
      BY <2>4 DEF ChannelOK, QueueOK, WireOK, WindowBase, WindowOK
    <2>6. u.xmit_queue # <<>>
      BY <1>0, <1>6, <2>4 DEF NothingNew, X, L
    <2>. QED
      BY <1>4, <1>6, <2>4, <2>5, <2>6 DEF TimerCovers
  <1>7. CASE ~NothingNew(t) /\ n > 0
    <2> DEFINE j == X + n - 1
               w == P + X + n - 1
               x == X + n
    <2>1. /\ j \in 1 .. L /\ P + j - 1 + 1 = w /\ n # 0
          /\ w \in Nat /\ x \in Nat \ {0} /\ w = P + x - 1
          /\ w >= P /\ x <= L + 1 /\ x <= R + 1
      BY <1>0, <1>1, <1>7
    <2>2. t.xmit_queue[j].Ns + 1 = w
      BY <1>3, <2>1
    <2>3. u = [t EXCEPT !.xmit_new = x, !.Ns_on_wire = w,
                        !.ack_handler = FALSE, !.timeout_handler = TRUE]
      BY <1>7, <2>1, <2>2 DEF tunnel_xmit_queued_messages, X
    <2> HIDE DEF w, x, j
    <2>4. /\ u \in Tunnel
          /\ u.xmit_queue = t.xmit_queue /\ u.state = t.state /\ u.Nr = t.Nr
          /\ u.Ns = t.Ns /\ u.peer_Nr = t.peer_Nr /\ u.Ns_on_wire = w
          /\ u.xmit_new = x /\ u.peer_rws = t.peer_rws
          /\ u.cwnd = t.cwnd /\ u.cwnd_counter = t.cwnd_counter
          /\ u.timeout_handler
      BY <2>1, <2>3, ZenonT(40) DEF Tunnel
    <2>5. WindowBase(u) = t.peer_Nr /\ WindowBase(t) = t.peer_Nr
      <3>1. t.Ns_on_wire \in Nat /\ P \in Nat /\ t.Ns_on_wire >= P /\ ~(w < P)
        BY <1>0, <1>1, <1>7, <2>1
      <3>2. ~(u.Ns_on_wire < u.peer_Nr) /\ ~(t.Ns_on_wire < t.peer_Nr)
        BY <3>1, <2>4 DEF P
      <3>. QED
        BY <2>4, <3>2 DEF WindowBase
    <2>6. QueueOK(u, s) /\ WindowOK(u)
      BY <2>4 DEF ChannelOK, QueueOK, WindowOK
    <2>7. WireOK(u)
      BY <2>1, <2>4 DEF WireOK, P, L, R
    <2>8. ChannelOK(u, s, k)
      BY <2>4, <2>5, <2>6, <2>7 DEF ChannelOK
    <2>9. u.xmit_queue # <<>>
      BY <1>0, <1>7, <2>4 DEF NothingNew, X, L
    <2>. QED
      BY <1>4, <2>4, <2>5, <2>6, <2>8, <2>9 DEF TimerCovers, P, R
  <1>. QED
    BY <1>1, <1>5, <1>6, <1>7

-----------------------------------------------------------------------------
(* AckedCount is the place where the acknowledged part of the queue ends. *)
LEMMA AckedCountIs ==
    ASSUME NEW t, Len(t.xmit_queue) \in Nat, NEW j \in 0 .. Len(t.xmit_queue),
           \A i \in 1 .. j : SERIAL_LT(t.xmit_queue[i].Ns, t.peer_Nr),
           j < Len(t.xmit_queue) => ~SERIAL_LT(t.xmit_queue[j + 1].Ns, t.peer_Nr)
    PROVE  AckedCount(t) = j
  <1> DEFINE L == Len(t.xmit_queue)
             A(i) == SERIAL_LT(t.xmit_queue[i].Ns, t.peer_Nr)
             End_(c) == (\A i \in 1 .. c : A(i)) /\ (c < L => ~A(c + 1))
  <1>1. AckedCount(t) = CHOOSE c \in 0 .. L : End_(c)
    BY DEF AckedCount
  <1>2. L \in Nat /\ j \in 0 .. L /\ End_(j)
    OBVIOUS
  <1> HIDE DEF L, A
  <1>3. ASSUME NEW c \in 0 .. L, End_(c)
        PROVE  c = j
    <2>1. ~(c < j)
      <3>1. c < j => c + 1 \in 1 .. j /\ c < L
        BY <1>2
      <3>. QED BY <1>2, <1>3, <3>1
    <2>2. ~(j < c)
      <3>1. j < c => j + 1 \in 1 .. c /\ j < L
        BY <1>2
      <3>. QED BY <1>2, <1>3, <3>1
    <2>. QED
      BY <1>2, <2>1, <2>2
  <1> HIDE DEF End_
  <1>. QED
    BY <1>1, <1>2, <1>3

(* An acknowledgement with an empty queue changes nothing. *)
LEMMA DequeueEmpty ==
    ASSUME NEW t \in Tunnel, WindowOK(t), t.xmit_queue = <<>>, t.xmit_new = 1,
           NEW u, u = tunnel_dequeue_acked_packets(t)
    PROVE  /\ u \in Tunnel /\ WindowOK(u) /\ u.xmit_queue = <<>> /\ u.xmit_new = 1
           /\ u.state = t.state /\ u.Ns = t.Ns /\ u.Nr = t.Nr
           /\ u.peer_Nr = t.peer_Nr /\ u.peer_rws = t.peer_rws
           /\ u.Ns_on_wire = t.Ns_on_wire
           /\ u.timeout_handler = t.timeout_handler
  <1> DEFINE w == WindowAfter(t, 0)
             R == t.peer_rws
  <1>0. R \in Nat /\ t.ssthresh \in Nat /\ t.cwnd \in Nat /\ t.cwnd >= 1
        /\ t.cwnd_counter \in Nat /\ R <= Rws /\ Rws \in Nat
    BY RwsAssumption, TunnelFields
  <1>1. Len(t.xmit_queue) = 0
    OBVIOUS
  <1>2. AckedCount(t) = 0
    BY <1>1, AckedCountIs
  <1>3. t.cwnd \in 1 .. R /\ t.cwnd_counter \in 0 .. R - 1
    BY <1>0 DEF WindowOK
  <1>4. w \in Window(R)
    BY <1>0, <1>3, WindowAfterType
  <1>5. SubSeq(t.xmit_queue, 0 + 1, Len(t.xmit_queue)) = <<>>
    BY <1>1, SubSeqEmpty
  <1>6. u = [[t EXCEPT !.xmit_queue = <<>>, !.xmit_new = 1]
                EXCEPT !.cwnd = w.cwnd, !.cwnd_counter = w.cwnd_counter]
    <2>1. (IF t.xmit_new > 0 THEN t.xmit_new - 0 ELSE 1) = 1
      OBVIOUS
    <2>2. DequeueHeads(t, 0) = [t EXCEPT !.xmit_queue = <<>>, !.xmit_new = 1]
      BY <1>5, <2>1 DEF DequeueHeads
    <2>. QED
      BY <1>2, <2>2 DEF tunnel_dequeue_acked_packets
  <1> HIDE DEF w
  <1>7. /\ w.cwnd \in 1 .. R /\ w.cwnd_counter \in 0 .. R - 1
    BY <1>4 DEF Window
  <1> HIDE DEF R
  <1>8. /\ w.cwnd \in 1 .. Rws /\ w.cwnd_counter \in 0 .. Rws - 1
        /\ w.cwnd <= R /\ w.cwnd_counter < R
    BY <1>0, <1>7
  <1>9. <<>> \in Seq(Dgram) /\ 1 \in Nat \ {0}
    OBVIOUS
  <1>10. u \in Tunnel
    BY <1>6, <1>8, <1>9 DEF Tunnel
  <1>11. u.cwnd = w.cwnd /\ u.cwnd_counter = w.cwnd_counter /\ u.peer_rws = R
    BY <1>6 DEF Tunnel, R
  <1>12. WindowOK(u)
    BY <1>8, <1>11 DEF WindowOK
  <1>. QED
    BY <1>6, <1>10, <1>12 DEF Tunnel

(* An acknowledgement of everything below peer_Nr, for a queue that starts *)
(* at P: the rest of the queue is left, and it starts at peer_Nr.          *)
LEMMA DequeueOK ==
    ASSUME NEW t \in Tunnel, WindowOK(t), NEW s \in Seq(Message), NEW k \in Nat,
           NEW P \in Nat, P <= t.peer_Nr, t.peer_Nr - P < SeqHalf,
           t.peer_Nr <= k, k <= Len(s),
           t.Ns = Len(s), P + Len(t.xmit_queue) = Len(s),
           Len(t.xmit_queue) <= SeqHalf,
           \A i \in 1 .. Len(t.xmit_queue) :
               /\ t.xmit_queue[i].Ns = P + i - 1
               /\ t.xmit_queue[i].msg = s[P + i],
           t.xmit_new <= Len(t.xmit_queue) + 1, t.xmit_new <= t.peer_rws + 1,
           t.Ns_on_wire = P + t.xmit_new - 1 \/ (t.xmit_new = 1 /\ t.Ns_on_wire < P),
           NEW base \in Nat, base <= P, base <= t.Ns_on_wire, k <= base + t.peer_rws,
           NEW u, u = tunnel_dequeue_acked_packets(t)
    PROVE  /\ u \in Tunnel /\ WindowOK(u) /\ ChannelOK(u, s, k)
           /\ u.xmit_queue # <<>> => t.xmit_queue # <<>>
           /\ u.state = t.state /\ u.Nr = t.Nr /\ u.peer_Nr = t.peer_Nr
           /\ u.peer_rws = t.peer_rws /\ u.timeout_handler = t.timeout_handler
           /\ base <= WindowBase(u)
  <1> DEFINE q == t.xmit_queue
             L == Len(t.xmit_queue)
             V == t.peer_Nr
             X == t.xmit_new
             R == t.peer_rws
             O == t.Ns_on_wire
             LS == Len(s)
             j == V - P
             w == WindowAfter(t, j)
             r == SubSeq(q, j + 1, L)
             x == IF X > j THEN X - j ELSE 1
  <1>0. /\ R \in Nat /\ t.ssthresh \in Nat /\ t.cwnd \in Nat /\ t.cwnd >= 1
        /\ t.cwnd_counter \in Nat /\ R <= Rws /\ Rws \in Nat
        /\ L \in Nat /\ V \in Nat /\ X \in Nat /\ X >= 1 /\ O \in Nat /\ LS \in Nat
    <2>1. LS \in Nat
      OBVIOUS
    <2>2. Rws \in Nat
      BY RwsAssumption
    <2>3. t.cwnd \in 1 .. Rws
      BY TunnelFields
    <2>4. t.cwnd \in Nat /\ t.cwnd >= 1
      BY <2>2, <2>3
    <2>5. /\ R \in Nat /\ t.ssthresh \in Nat /\ t.cwnd_counter \in Nat /\ R <= Rws
          /\ L \in Nat /\ V \in Nat /\ X \in Nat /\ X >= 1 /\ O \in Nat
      BY TunnelFields
    <2>. QED
      BY <2>1, <2>2, <2>4, <2>5
  <1>1. q \in Seq(Dgram)
    BY TunnelFields
  <1>2. /\ P <= V /\ V - P < SeqHalf /\ V <= k /\ k <= LS /\ t.Ns = LS
        /\ P + L = LS /\ L <= SeqHalf /\ X <= L + 1 /\ X <= R + 1
        /\ O = P + X - 1 \/ (X = 1 /\ O < P)
        /\ base <= O /\ k <= base + R
    OBVIOUS
  <1>3. \A i \in 1 .. L : q[i].Ns = P + i - 1 /\ q[i].msg = s[P + i]
    OBVIOUS
  <1>4. SeqHalf \in Nat /\ SeqHalf > 0
    BY HalfTurn
  <1>5. t.cwnd \in 1 .. R /\ t.cwnd_counter \in 0 .. R - 1
    <2>1. t.cwnd <= R /\ t.cwnd_counter < R
      BY DEF WindowOK
    <2> HIDE DEF R
    <2>. QED
      BY <1>0, <2>1
  <1>6. j \in 0 .. L /\ j \in Nat
    <2> HIDE DEF L, V, LS, X, R, O
    <2>. QED
      BY <1>0, <1>2
  <1>7. AckedCount(t) = j
    <2> HIDE DEF j, L, V
    <2>1. ASSUME NEW i \in 1 .. L
          PROVE  SERIAL_LT(q[i].Ns, V) <=> i <= j
      <3>1. q[i].Ns = P + i - 1
        BY <1>3
      <3> DEFINE a == P + i - 1
      <3>2. a \in Int /\ a - V < SeqHalf /\ V - a < SeqHalf /\ (a < V <=> i <= j)
        <4> HIDE DEF LS, X, R, O, q
        <4>. QED BY <1>0, <1>2, <1>4, <1>6 DEF j
      <3> HIDE DEF a
      <3>3. SERIAL_LT(a, V) <=> a < V
        BY <1>0, <3>2, SerialOrder
      <3>. QED
        BY <3>1, <3>2, <3>3 DEF a
    <2>2. \A i \in 1 .. j : i \in 1 .. L /\ i <= j
      BY <1>0, <1>6
    <2>3. j < L => j + 1 \in 1 .. L /\ ~(j + 1 <= j)
      <3>1. j \in Nat /\ L \in Nat
        BY <1>0, <1>6
      <3>. QED BY <3>1
    <2>4. \A i \in 1 .. j : SERIAL_LT(q[i].Ns, V)
      BY <2>1, <2>2
    <2>5. j < L => ~SERIAL_LT(q[j + 1].Ns, V)
      BY <2>1, <2>3
    <2>. QED
      BY <1>0, <1>6, <2>4, <2>5, AckedCountIs DEF L, V
  <1>8. w \in Window(R)
    <2> HIDE DEF j
    <2>. QED BY <1>0, <1>5, <1>6, WindowAfterType
  <1>9. /\ r \in Seq(Dgram) /\ Len(r) = L - j
        /\ \A i \in 1 .. L - j : r[i] = q[j + i]
    <2> HIDE DEF j, L, q
    <2>0. j \in Nat /\ j <= L /\ L \in Nat
      BY <1>0, <1>6
    <2>1. \A i \in j + 1 .. L : q[i] \in Dgram
      <3>1. \A i \in j + 1 .. L : i \in 1 .. L
        BY ONLY <2>0
      <3>2. L = Len(q)
        BY DEF L, q
      <3>3. \A i \in 1 .. L : q[i] \in Dgram
        BY ONLY <1>1, <3>2
      <3>. QED
        BY ONLY <3>1, <3>3
    <2>2. j + 1 \in Int /\ L \in Int
      BY ONLY <2>0
    <2>3. /\ r \in Seq(Dgram) /\ Len(r) = IF j + 1 <= L THEN L - (j + 1) + 1 ELSE 0
          /\ \A i \in 1 .. L - (j + 1) + 1 : r[i] = q[(j + 1) + i - 1]
      BY <2>1, <2>2, SubSeqProperties, SMTT(30)
    <2>4. /\ L - (j + 1) + 1 = L - j
          /\ \A i \in 1 .. L - j : (j + 1) + i - 1 = j + i
      BY ONLY <2>0
    <2>5. (IF j + 1 <= L THEN L - (j + 1) + 1 ELSE 0) = L - j
      BY ONLY <2>0
    <2>. QED
      BY <2>3, <2>4, <2>5
  <1>10. u = [[t EXCEPT !.xmit_queue = r, !.xmit_new = x]
                 EXCEPT !.cwnd = w.cwnd, !.cwnd_counter = w.cwnd_counter]
    BY <1>7 DEF tunnel_dequeue_acked_packets, DequeueHeads
  <1> HIDE DEF w, r, x, j
  <1>11. /\ w.cwnd \in 1 .. R /\ w.cwnd_counter \in 0 .. R - 1
    BY <1>8 DEF Window
  <1> HIDE DEF R, L, V, X, O, LS, q
  <1>12. /\ w.cwnd \in 1 .. Rws /\ w.cwnd_counter \in 0 .. Rws - 1
         /\ w.cwnd <= R /\ w.cwnd_counter < R
    BY <1>0, <1>11, SMTT(30)
  <1>13. x \in Nat \ {0} /\ x = (IF X > j THEN X - j ELSE 1) /\ j = V - P
    BY <1>0, <1>6 DEF x, j
  <1>14. u \in Tunnel
    BY <1>9, <1>10, <1>12, <1>13, ZenonT(40) DEF Tunnel
  <1>15. /\ u.cwnd = w.cwnd /\ u.cwnd_counter = w.cwnd_counter /\ u.peer_rws = R
         /\ u.state = t.state /\ u.Nr = t.Nr /\ u.peer_Nr = V /\ u.Ns = LS
         /\ u.timeout_handler = t.timeout_handler /\ u.Ns_on_wire = O
         /\ u.xmit_queue = r /\ u.xmit_new = x
    BY <1>10, <1>2 DEF Tunnel, R, V, O
  <1>16. WindowOK(u)
    BY <1>12, <1>15 DEF WindowOK
  <1>17. QueueOK(u, s)
    <2>1. V + (L - j) = LS /\ L - j <= SeqHalf
      BY <1>0, <1>2, <1>4, <1>6, <1>13
    <2>2. ASSUME NEW i \in 1 .. L - j
          PROVE  r[i].Ns = V + i - 1 /\ r[i].msg = s[V + i]
      <3>1. j \in Nat /\ L \in Nat /\ V \in Nat /\ i \in Nat /\ i >= 1 /\ i <= L - j
        BY <1>0, <1>6
      <3>3. j + i \in 1 .. L
        BY <3>1
      <3>4. P + (j + i) - 1 = V + i - 1 /\ P + (j + i) = V + i
        BY <3>1, <1>13
      <3>2. q[j + i].Ns = P + (j + i) - 1 /\ q[j + i].msg = s[P + (j + i)]
        BY <1>3, <3>3
      <3>. QED
        BY <1>9, <3>2, <3>4
    <2>. QED
      BY <1>9, <1>15, <2>1, <2>2 DEF QueueOK, LS
  <1>18. /\ x <= (L - j) + 1 /\ x <= R + 1
         /\ O = V + x - 1 \/ (x = 1 /\ O < V)
    BY <1>0, <1>2, <1>6, <1>13
  <1>19. WireOK(u)
    BY <1>9, <1>15, <1>18 DEF WireOK
  <1>20. base <= WindowBase(u) /\ WindowBase(u) \in Nat
    BY <1>0, <1>2, <1>15 DEF WindowBase
  <1>21. k <= WindowBase(u) + R
    <2> DEFINE b == WindowBase(u)
    <2>1. base <= b /\ b \in Nat
      BY <1>20
    <2> HIDE DEF b
    <2>2. k <= b + R
      BY <1>0, <1>2, <2>1
    <2>. QED BY <2>2 DEF b
  <1>22. ChannelOK(u, s, k)
    BY <1>2, <1>15, <1>17, <1>19, <1>21 DEF ChannelOK
  <1>23. u.xmit_queue # <<>> => t.xmit_queue # <<>>
    <2>1. t.xmit_queue = <<>> => L = 0
      BY DEF L
    <2>2. L = 0 => Len(r) = 0
      <3>1. Len(r) = L - j
        BY <1>9
      <3>2. j \in 0 .. L
        BY <1>6
      <3>3. L = 0 => j = 0
        BY ONLY <3>2
      <3>4. L = 0 => L - j = 0
        BY ONLY <3>3
      <3>. QED
        BY ONLY <3>1, <3>4
    <2>3. Len(r) = 0 => r = <<>>
      BY <1>9, EmptySeq
    <2>. QED
      BY <1>15, <2>1, <2>2, <2>3
  <1>. QED
    BY <1>14, <1>15, <1>16, <1>20, <1>22, <1>23 DEF R, V

-----------------------------------------------------------------------------
(* a tunnel that is up and whose queue is in order *)
Up(t) == t.state \in {"open", "sent_stop_ccn"}

ChanInv(t, s, k) ==
    t \in Tunnel /\ ChannelOK(t, s, k) /\ WindowOK(t) /\ Up(t)

(* a tunnel that has received StopCCN *)
Quiet(t) ==
    /\ t \in Tunnel /\ WindowOK(t) /\ t.state = "received_stop_ccn"
    /\ t.xmit_queue = <<>> /\ t.xmit_new = 1

(* where the peer's receive window ends *)
Limit(t) == WindowBase(t) + t.peer_rws

(* The window ends at a natural number. *)
LEMMA LimitType ==
    ASSUME NEW t \in Tunnel
    PROVE  WindowBase(t) \in Nat /\ t.peer_rws \in Nat /\ Limit(t) \in Nat
  <1>1. t.Ns_on_wire \in Nat /\ t.peer_Nr \in Nat /\ t.peer_rws \in Nat
    BY TunnelFields
  <1>2. WindowBase(t) \in Nat
    BY <1>1 DEF WindowBase
  <1>. QED
    BY <1>1, <1>2 DEF Limit

(* Queueing a message of the state machine. *)
LEMMA QueueStep ==
    ASSUME NEW t, NEW s \in Seq(Message), NEW k \in Nat, NEW m \in Message,
           ChanInv(t, s, k), Len(t.xmit_queue) < SeqHalf,
           NEW u, u = Queue(t, m)
    PROVE  /\ ChanInv(u, Append(s, m), k) /\ ~NothingNew(u)
           /\ u.Nr = t.Nr /\ Limit(u) = Limit(t)
  <1> DEFINE v == IF m = "StopCCN" THEN [t EXCEPT !.state = "sent_stop_ccn"] ELSE t
  <1>1. t \in Tunnel /\ Up(t) /\ WindowOK(t) /\ ChannelOK(t, s, k)
    BY DEF ChanInv
  <1>2. /\ v \in Tunnel /\ Up(v)
        /\ v.Ns = t.Ns /\ v.Ns_on_wire = t.Ns_on_wire /\ v.Nr = t.Nr
        /\ v.peer_Nr = t.peer_Nr /\ v.cwnd = t.cwnd
        /\ v.cwnd_counter = t.cwnd_counter /\ v.peer_rws = t.peer_rws
        /\ v.xmit_queue = t.xmit_queue /\ v.xmit_new = t.xmit_new
    BY <1>1 DEF Tunnel, TunnelState, Up
  <1>3. u = tunnel_enqueue_dgram(v, m)
    BY DEF Queue
  <1> HIDE DEF v
  <1>4. ChannelOK(v, s, k)
    BY <1>1, <1>2 DEF ChannelOK, QueueOK, WireOK, WindowBase
  <1>5. u \in Tunnel /\ ChannelOK(u, Append(s, m), k) /\ ~NothingNew(u)
    BY <1>2, <1>3, <1>4, EnqueueOK
  <1>6. /\ u.Ns_on_wire = v.Ns_on_wire /\ u.peer_Nr = v.peer_Nr /\ u.Nr = v.Nr
        /\ u.cwnd = v.cwnd /\ u.cwnd_counter = v.cwnd_counter
        /\ u.peer_rws = v.peer_rws /\ u.state = v.state
    BY <1>2, <1>3 DEF tunnel_enqueue_dgram, Tunnel
  <1>7. WindowOK(u) /\ Up(u)
    BY <1>1, <1>2, <1>6 DEF WindowOK, Up
  <1>. QED
    BY <1>2, <1>5, <1>6, <1>7 DEF ChanInv, Limit, WindowBase

(* Running the queue of a tunnel that is up. *)
LEMMA XmitStep ==
    ASSUME NEW t, NEW s \in Seq(Message), NEW k \in Nat, ChanInv(t, s, k),
           NEW n \in XmitCounts(t), NothingNew(t) => TimerCovers(t),
           NEW u, u = tunnel_xmit_queued_messages(t, n)
    PROVE  /\ ChanInv(u, s, k) /\ TimerCovers(u)
           /\ u.xmit_queue = t.xmit_queue /\ u.Nr = t.Nr /\ Limit(u) = Limit(t)
           /\ u.timeout_handler => t.timeout_handler \/ u.xmit_queue # <<>>
           /\ \A d \in Transmitted(t, n) : FrameOK(d, s, t.Nr, Limit(u))
  <1>1. t \in Tunnel /\ Up(t) /\ WindowOK(t) /\ ChannelOK(t, s, k)
    BY DEF ChanInv
  <1>2. /\ u \in Tunnel /\ ChannelOK(u, s, k) /\ WindowOK(u)
        /\ TimerCovers(u)
        /\ u.xmit_queue = t.xmit_queue /\ u.state = t.state /\ u.Nr = t.Nr
        /\ u.timeout_handler => t.timeout_handler \/ u.xmit_queue # <<>>
        /\ u.peer_rws = t.peer_rws /\ WindowBase(u) = WindowBase(t)
        /\ \A d \in Transmitted(t, n) :
              FrameOK(d, s, t.Nr, WindowBase(u) + u.peer_rws)
    BY <1>1, XmitOK
  <1>. QED
    BY <1>1, <1>2 DEF ChanInv, Up, Limit

(* The peer's receive window arrives with SCCRQ or SCCRP. *)
LEMMA SetParamsStep ==
    ASSUME NEW t \in Tunnel, WindowOK(t), NEW u, u = tunnel_set_params(t)
    PROVE  /\ u \in Tunnel /\ WindowOK(u)
           /\ u.state = t.state /\ u.Nr = t.Nr /\ Limit(t) <= Limit(u)
           /\ u.xmit_queue = t.xmit_queue /\ u.xmit_new = t.xmit_new
           /\ u.timeout_handler = t.timeout_handler
           /\ \A s \in Seq(Message), k \in Nat :
                 ChannelOK(t, s, k) => ChannelOK(u, s, k)
  <1>1. Rws \in Nat /\ Rws \in 1 .. Rws
    BY RwsAssumption
  <1>2. /\ u \in Tunnel
        /\ u.Ns = t.Ns /\ u.Ns_on_wire = t.Ns_on_wire /\ u.Nr = t.Nr
        /\ u.peer_Nr = t.peer_Nr /\ u.cwnd = t.cwnd /\ u.state = t.state
        /\ u.cwnd_counter = t.cwnd_counter /\ u.peer_rws = Rws
        /\ u.xmit_queue = t.xmit_queue /\ u.xmit_new = t.xmit_new
        /\ u.timeout_handler = t.timeout_handler
    BY <1>1 DEF tunnel_set_params, Tunnel
  <1> DEFINE R == t.peer_rws
             B == WindowBase(t)
             X == t.xmit_new
             C == t.cwnd
             K == t.cwnd_counter
  <1>3. C \in 1 .. Rws
    BY TunnelFields
  <1>4. R \in Nat /\ R <= Rws /\ X \in Nat /\ K \in Nat
    BY TunnelFields
  <1>5. B \in Nat /\ WindowBase(u) = B
    BY <1>2, LimitType DEF WindowBase
  <1>6. WindowOK(u)
    <2>1. C <= R /\ K < R
      BY DEF WindowOK
    <2> HIDE DEF C, K, R
    <2>2. C <= Rws /\ K < Rws
      BY <1>1, <1>3, <1>4, <2>1
    <2>. QED
      BY <1>2, <2>2 DEF WindowOK, C, K
  <1>7. Limit(t) <= Limit(u)
    <2>1. Limit(t) = B + R /\ Limit(u) = B + Rws
      BY <1>2, <1>5 DEF Limit
    <2> HIDE DEF B, R
    <2>. QED
      BY <1>1, <1>4, <1>5, <2>1
  <1>8. ASSUME NEW s \in Seq(Message), NEW k \in Nat, ChannelOK(t, s, k)
        PROVE  ChannelOK(u, s, k)
    <2>1. QueueOK(u, s) /\ u.peer_Nr <= k
      BY <1>2, <1>8 DEF ChannelOK, QueueOK
    <2>2. k <= B + R /\ X <= R + 1
      BY <1>8 DEF ChannelOK, WireOK
    <2>3. k <= B + Rws /\ X <= Rws + 1
      <3> HIDE DEF B, R, X
      <3>. QED
        BY <1>1, <1>4, <1>5, <2>2
    <2>4. WireOK(u)
      BY <1>2, <1>8, <2>3 DEF ChannelOK, WireOK
    <2>. QED
      BY <1>2, <1>5, <2>1, <2>3, <2>4 DEF ChannelOK
  <1>. QED
    BY <1>2, <1>6, <1>7, <1>8

(* what happens to a tunnel before the acknowledged messages are dequeued *)
Accepted(t, d, nr, pnr) ==
    [ScheduleAckFor(t, d) EXCEPT !.Nr = nr, !.peer_Nr = pnr,
                                 !.retransmissions = 0, !.timeout = 1]

(* It touches none of the other fields. *)
LEMMA AcceptedFields ==
    ASSUME NEW t \in Tunnel, NEW d, NEW nr \in Nat, NEW pnr \in Nat,
           NEW v, v = Accepted(t, d, nr, pnr)
    PROVE  /\ v \in Tunnel
           /\ v.Nr = nr
           /\ v.peer_Nr = pnr
           /\ v.state = t.state
           /\ v.Ns = t.Ns
           /\ v.Ns_on_wire = t.Ns_on_wire
           /\ v.cwnd = t.cwnd
           /\ v.cwnd_counter = t.cwnd_counter
           /\ v.peer_rws = t.peer_rws
           /\ v.xmit_queue = t.xmit_queue
           /\ v.xmit_new = t.xmit_new
           /\ v.timeout_handler = t.timeout_handler
  <1>1. 0 \in 0 .. MaxRetransmissions /\ 1 \in {1, 2, 4, 8}
    BY MaxRetransmissionsAssumption
  <1> DEFINE c == ScheduleAckFor(t, d)
  <1>2. /\ c \in Tunnel
        /\ c.state = t.state
        /\ c.Ns = t.Ns
        /\ c.Ns_on_wire = t.Ns_on_wire
        /\ c.cwnd = t.cwnd
        /\ c.cwnd_counter = t.cwnd_counter
        /\ c.peer_rws = t.peer_rws
        /\ c.xmit_queue = t.xmit_queue
        /\ c.xmit_new = t.xmit_new
        /\ c.timeout_handler = t.timeout_handler
    BY DEF ScheduleAckFor, tunnel_schedule_ack, Tunnel
  <1>3. v = [c EXCEPT !.Nr = nr, !.peer_Nr = pnr,
                      !.retransmissions = 0, !.timeout = 1]
    BY DEF Accepted
  <1> HIDE DEF c
  <1>4. v \in Tunnel
    BY <1>1, <1>2, <1>3, ZenonT(40) DEF Tunnel
  <1>. QED
    BY <1>2, <1>3, <1>4 DEF Tunnel

(* u is t after a datagram d was accepted *)
AcceptedOK(t, d, u, s, k) ==
    /\ ChanInv(u, s, k) /\ Limit(t) <= Limit(u)
    /\ u.Nr = IF d.msg = "ZLB" THEN t.Nr ELSE t.Nr + 1
    /\ u.xmit_queue # <<>> => t.xmit_queue # <<>>
    /\ u.timeout_handler = t.timeout_handler

(* Accepting a datagram that acknowledges no more than the peer has        *)
(* processed.  v is the tunnel between the update of peer_Nr and the       *)
(* dequeueing: its queue still starts at the old peer_Nr.                  *)
LEMMA AcceptUp ==
    ASSUME NEW t, NEW s \in Seq(Message), NEW k \in Nat, ChanInv(t, s, k),
           k <= Len(s), NEW d \in Datagram, d.Nr <= k, Fresh(t, d),
           NEW u, u = AcceptInSequence(t, d)
    PROVE  AcceptedOK(t, d, u, s, k)
  <1> DEFINE P == t.peer_Nr
             N == d.Nr
             V == IF SERIAL_GT(N, P) THEN N ELSE P
             nr == IF d.msg = "ZLB" THEN t.Nr ELSE t.Nr + 1
             v == Accepted(t, d, nr, V)
             base == WindowBase(t)
  <1>1. t \in Tunnel /\ Up(t) /\ WindowOK(t) /\ ChannelOK(t, s, k)
    BY DEF ChanInv
  <1>2. /\ t.Ns_on_wire \in Nat /\ P \in Nat /\ t.Nr \in Nat /\ N \in Nat
        /\ t.peer_rws \in Nat
    BY <1>1, TunnelFields DEF Datagram
  <1>3. N - P < SeqHalf /\ P - N < SeqHalf
    BY DEF Fresh
  <1>4. SERIAL_GT(N, P) <=> N > P
    BY <1>2, <1>3, SerialOrder
  <1>5. P <= k /\ N <= k /\ SeqHalf \in Nat /\ SeqHalf > 0
    BY <1>1, HalfTurn DEF ChannelOK
  <1> HIDE DEF P, N
  <1>6. V \in Nat /\ P <= V /\ V - P < SeqHalf /\ V <= k
    BY <1>2, <1>3, <1>4, <1>5
  <1>7. nr \in Nat
    BY <1>2
  <1>8. v = Accepted(t, d, nr, V)
    OBVIOUS
  <1>9. u = tunnel_dequeue_acked_packets(v)
    <2>1. LET c == ScheduleAckFor(t, d) IN c.Nr = t.Nr /\ c.peer_Nr = P
      BY <1>1 DEF ScheduleAckFor, tunnel_schedule_ack, Tunnel, P
    <2>. QED
      BY <2>1 DEF AcceptInSequence, Accepted, P, N
  <1> HIDE DEF V, nr, v
  <1>10. /\ v \in Tunnel
         /\ v.state = t.state /\ v.Ns = t.Ns /\ v.Ns_on_wire = t.Ns_on_wire
         /\ v.Nr = nr /\ v.peer_Nr = V /\ v.cwnd = t.cwnd
         /\ v.cwnd_counter = t.cwnd_counter /\ v.peer_rws = t.peer_rws
         /\ v.xmit_queue = t.xmit_queue /\ v.xmit_new = t.xmit_new
         /\ v.timeout_handler = t.timeout_handler
    BY <1>1, <1>6, <1>7, <1>8, AcceptedFields
  <1>11. WindowOK(v) /\ Up(v)
    BY <1>1, <1>10 DEF WindowOK, Up
  <1>12. base \in Nat /\ base <= P /\ base <= v.Ns_on_wire
    BY <1>2, <1>10 DEF WindowBase, P
  <1>13. /\ v.Ns = Len(s) /\ P + Len(v.xmit_queue) = Len(s)
         /\ Len(v.xmit_queue) <= SeqHalf
         /\ \A i \in 1 .. Len(v.xmit_queue) :
               /\ v.xmit_queue[i].Ns = P + i - 1
               /\ v.xmit_queue[i].msg = s[P + i]
    BY <1>1, <1>10 DEF ChannelOK, QueueOK, P
  <1>14. /\ v.xmit_new <= Len(v.xmit_queue) + 1 /\ v.xmit_new <= v.peer_rws + 1
         /\ v.Ns_on_wire = P + v.xmit_new - 1 \/ (v.xmit_new = 1 /\ v.Ns_on_wire < P)
    BY <1>1, <1>10 DEF ChannelOK, WireOK, P
  <1>15. k <= base + v.peer_rws
    BY <1>1, <1>10 DEF ChannelOK
  <1>16. P <= v.peer_Nr /\ v.peer_Nr - P < SeqHalf /\ v.peer_Nr <= k
    BY <1>6, <1>10
  <1> HIDE DEF base
  <1>17. /\ u \in Tunnel /\ WindowOK(u) /\ ChannelOK(u, s, k)
         /\ u.xmit_queue # <<>> => v.xmit_queue # <<>>
         /\ u.state = v.state /\ u.Nr = v.Nr /\ u.peer_Nr = v.peer_Nr
         /\ u.peer_rws = v.peer_rws /\ u.timeout_handler = v.timeout_handler
         /\ base <= WindowBase(u)
    BY <1>2, <1>9, <1>10, <1>11, <1>12, <1>13, <1>14, <1>15, <1>16, DequeueOK
  <1>18. Limit(t) <= Limit(u)
    <2> DEFINE b == WindowBase(u)
               R == t.peer_rws
    <2>1. Limit(t) = base + R /\ Limit(u) = b + R /\ b \in Nat /\ base <= b
      BY <1>10, <1>17, LimitType DEF Limit, base
    <2> HIDE DEF b, R
    <2>2. R \in Nat
      BY <1>2 DEF R
    <2>. QED
      BY <1>12, <2>1, <2>2
  <1>. QED
    BY <1>10, <1>11, <1>17, <1>18 DEF AcceptedOK, ChanInv, Up, nr

(* The same for a tunnel that has received StopCCN. *)
LEMMA AcceptQuiet ==
    ASSUME NEW t, Quiet(t), NEW d \in Datagram,
           NEW u, u = AcceptInSequence(t, d)
    PROVE  /\ Quiet(u)
           /\ u.Nr = IF d.msg = "ZLB" THEN t.Nr ELSE t.Nr + 1
  <1> DEFINE V == IF SERIAL_GT(d.Nr, t.peer_Nr) THEN d.Nr ELSE t.peer_Nr
             nr == IF d.msg = "ZLB" THEN t.Nr ELSE t.Nr + 1
             v == Accepted(t, d, nr, V)
  <1>1. t \in Tunnel /\ WindowOK(t)
    BY DEF Quiet
  <1>2. V \in Nat /\ nr \in Nat
    <2>1. d.Nr \in Nat /\ t.peer_Nr \in Nat /\ t.Nr \in Nat
      BY <1>1, TunnelFields DEF Datagram
    <2>. QED BY <2>1
  <1>3. v = Accepted(t, d, nr, V)
    OBVIOUS
  <1>4. u = tunnel_dequeue_acked_packets(v)
    <2>1. LET c == ScheduleAckFor(t, d) IN c.Nr = t.Nr /\ c.peer_Nr = t.peer_Nr
      BY <1>1 DEF ScheduleAckFor, tunnel_schedule_ack, Tunnel
    <2>. QED
      BY <2>1 DEF AcceptInSequence, Accepted
  <1> HIDE DEF V, nr, v
  <1>5. /\ v \in Tunnel /\ v.state = t.state /\ v.Nr = nr
        /\ v.cwnd = t.cwnd /\ v.cwnd_counter = t.cwnd_counter
        /\ v.peer_rws = t.peer_rws
        /\ v.xmit_queue = t.xmit_queue /\ v.xmit_new = t.xmit_new
    BY <1>1, <1>2, <1>3, AcceptedFields
  <1>6. WindowOK(v) /\ v.xmit_queue = <<>> /\ v.xmit_new = 1
    BY <1>1, <1>5 DEF WindowOK, Quiet
  <1>7. /\ u \in Tunnel /\ WindowOK(u) /\ u.xmit_queue = <<>> /\ u.xmit_new = 1
        /\ u.state = v.state /\ u.Nr = v.Nr
    BY <1>4, <1>5, <1>6, DequeueEmpty
  <1>. QED
    BY <1>5, <1>7 DEF Quiet, nr

(* Dropping an old or early datagram: nothing is acknowledged by it. *)
LEMMA DropUp ==
    ASSUME NEW t, NEW s \in Seq(Message), NEW k \in Nat, ChanInv(t, s, k),
           k <= Len(s), NEW d, NEW u, u = DropOutOfSequence(t, d)
    PROVE  /\ ChanInv(u, s, k) /\ Limit(t) <= Limit(u) /\ u.Nr = t.Nr
           /\ u.xmit_queue = <<>> <=> t.xmit_queue = <<>>
           /\ u.timeout_handler = t.timeout_handler
  <1> DEFINE c == ScheduleAckFor(t, d)
  <1>1. t \in Tunnel /\ Up(t) /\ WindowOK(t) /\ ChannelOK(t, s, k)
    BY DEF ChanInv
  <1>2. /\ c \in Tunnel
        /\ c.state = t.state /\ c.Ns = t.Ns /\ c.Ns_on_wire = t.Ns_on_wire
        /\ c.Nr = t.Nr /\ c.peer_Nr = t.peer_Nr /\ c.cwnd = t.cwnd
        /\ c.cwnd_counter = t.cwnd_counter /\ c.peer_rws = t.peer_rws
        /\ c.xmit_queue = t.xmit_queue /\ c.xmit_new = t.xmit_new
        /\ c.timeout_handler = t.timeout_handler
    BY <1>1 DEF ScheduleAckFor, tunnel_schedule_ack, Tunnel
  <1>3. u = c \/ u = tunnel_dequeue_acked_packets(c)
    BY DEF DropOutOfSequence
  <1> HIDE DEF c
  <1>4. WindowOK(c) /\ ChannelOK(c, s, k) /\ Up(c) /\ Limit(c) = Limit(t)
    BY <1>1, <1>2 DEF WindowOK, ChannelOK, QueueOK, WireOK, WindowBase, Up, Limit
  <1>5. Limit(t) \in Nat
    BY <1>1, LimitType
  <1>6. CASE u = c
    BY <1>2, <1>4, <1>5, <1>6 DEF ChanInv
  <1>7. CASE u = tunnel_dequeue_acked_packets(c)
    <2> DEFINE P == c.peer_Nr
               base == WindowBase(c)
    <2>1. P \in Nat /\ c.Ns_on_wire \in Nat /\ c.peer_rws \in Nat
      BY <1>2, TunnelFields
    <2>2. P <= c.peer_Nr /\ c.peer_Nr - P < SeqHalf /\ c.peer_Nr <= k
      BY <1>4, <2>1, HalfTurn DEF ChannelOK
    <2>3. /\ c.Ns = Len(s) /\ P + Len(c.xmit_queue) = Len(s)
          /\ Len(c.xmit_queue) <= SeqHalf
          /\ \A i \in 1 .. Len(c.xmit_queue) :
                /\ c.xmit_queue[i].Ns = P + i - 1
                /\ c.xmit_queue[i].msg = s[P + i]
      BY <1>4 DEF ChannelOK, QueueOK
    <2>4. /\ c.xmit_new <= Len(c.xmit_queue) + 1 /\ c.xmit_new <= c.peer_rws + 1
          /\ c.Ns_on_wire = P + c.xmit_new - 1 \/ (c.xmit_new = 1 /\ c.Ns_on_wire < P)
      BY <1>4 DEF ChannelOK, WireOK
    <2>5. base \in Nat /\ base <= P /\ base <= c.Ns_on_wire
      BY <2>1 DEF WindowBase
    <2>6. k <= base + c.peer_rws
      BY <1>4 DEF ChannelOK
    <2>7. P = c.peer_Nr /\ Limit(c) = base + c.peer_rws
      BY DEF Limit
    <2> HIDE DEF P, base
    <2>8. /\ u \in Tunnel /\ WindowOK(u) /\ ChannelOK(u, s, k)
          /\ u.xmit_queue # <<>> => c.xmit_queue # <<>>
          /\ u.state = c.state /\ u.Nr = c.Nr /\ u.peer_Nr = c.peer_Nr
          /\ u.peer_rws = c.peer_rws /\ u.timeout_handler = c.timeout_handler
          /\ base <= WindowBase(u)
      BY <1>2, <1>4, <1>7, <2>1, <2>2, <2>3, <2>4, <2>5, <2>6, DequeueOK
    <2>9. Limit(c) <= Limit(u)
      <3> DEFINE b == WindowBase(u)
                 R == c.peer_rws
      <3>1. Limit(c) = base + R /\ Limit(u) = b + R /\ b \in Nat /\ base <= b
        BY <2>7, <2>8, LimitType DEF Limit
      <3>2. R \in Nat
        BY <2>1
      <3> HIDE DEF b, R
      <3>. QED
        BY <2>5, <3>1, <3>2
    <2>10. u.xmit_queue = <<>> <=> t.xmit_queue = <<>>
      <3> DEFINE a == Len(u.xmit_queue)
                 b == Len(t.xmit_queue)
                 LS == Len(s)
      <3>1. a \in Nat /\ b \in Nat
        BY <1>1, <2>8, TunnelFields
      <3>2. P + a = LS /\ P + b = LS
        BY <1>2, <2>3, <2>7, <2>8 DEF ChannelOK, QueueOK
      <3>3. LS \in Nat
        OBVIOUS
      <3>4. u.xmit_queue \in Seq(Dgram) /\ t.xmit_queue \in Seq(Dgram)
        BY <1>1, <2>8, TunnelFields
      <3>5. /\ u.xmit_queue = <<>> <=> a = 0
            /\ t.xmit_queue = <<>> <=> b = 0
        BY <3>4, EmptySeq
      <3> HIDE DEF a, b, LS
      <3>6. a = b
        BY <2>1, <3>1, <3>2, <3>3
      <3>. QED
        BY <3>5, <3>6
    <2>. QED
      BY <1>2, <1>4, <2>8, <2>9, <2>10 DEF ChanInv, Up
  <1>. QED
    BY <1>3, <1>6, <1>7

(* The same for a tunnel that has received StopCCN. *)
LEMMA DropQuiet ==
    ASSUME NEW t, Quiet(t), NEW d, NEW u, u = DropOutOfSequence(t, d)
    PROVE  Quiet(u) /\ u.Nr = t.Nr /\ u.timeout_handler = t.timeout_handler
  <1> DEFINE c == ScheduleAckFor(t, d)
  <1>1. /\ c \in Tunnel
        /\ c.state = t.state /\ c.Nr = t.Nr /\ c.cwnd = t.cwnd
        /\ c.cwnd_counter = t.cwnd_counter /\ c.peer_rws = t.peer_rws
        /\ c.xmit_queue = t.xmit_queue /\ c.xmit_new = t.xmit_new
        /\ c.timeout_handler = t.timeout_handler
    BY DEF ScheduleAckFor, tunnel_schedule_ack, Tunnel, Quiet
  <1>2. u = c \/ u = tunnel_dequeue_acked_packets(c)
    BY DEF DropOutOfSequence
  <1> HIDE DEF c
  <1>3. Quiet(c)
    BY <1>1 DEF Quiet, WindowOK
  <1>4. CASE u = tunnel_dequeue_acked_packets(c)
    <2>1. c \in Tunnel /\ WindowOK(c) /\ c.xmit_queue = <<>> /\ c.xmit_new = 1
      BY <1>3 DEF Quiet
    <2>2. /\ u \in Tunnel /\ WindowOK(u) /\ u.xmit_queue = <<>> /\ u.xmit_new = 1
          /\ u.state = c.state /\ u.Nr = c.Nr
          /\ u.timeout_handler = c.timeout_handler
      BY <1>4, <2>1, DequeueEmpty
    <2>. QED
      BY <1>1, <1>3, <2>2 DEF Quiet
  <1>. QED
    BY <1>1, <1>2, <1>3, <1>4

(* A timeout rewinds the queue to the first unacknowledged message. *)
LEMMA TimeoutStep ==
    ASSUME NEW t, NEW s \in Seq(Message), NEW k \in Nat, ChanInv(t, s, k),
           t.xmit_queue # <<>>, ~TooManyRetransmissions(BackToSlowStart(t)),
           NEW u, u = DoubleTimeout(BackToSlowStart(t))
    PROVE  /\ ChanInv(u, s, k) /\ Limit(t) <= Limit(u) /\ ~NothingNew(u)
           /\ u.Nr = t.Nr
           /\ XmitCounts(BackToSlowStart(t)) = XmitCounts(u)
           /\ \A n \in Nat : Transmitted(BackToSlowStart(t), n) = Transmitted(u, n)
  <1> DEFINE b == BackToSlowStart(t)
             h == IF t.cwnd \div 2 = 0 THEN 1 ELSE t.cwnd \div 2
             P == t.peer_Nr
             L == Len(t.xmit_queue)
             R == t.peer_rws
             a == t.retransmissions + 1
             o == IF b.timeout < 8 THEN 2 * b.timeout ELSE b.timeout
  <1>1. t \in Tunnel /\ Up(t) /\ WindowOK(t) /\ ChannelOK(t, s, k)
    BY DEF ChanInv
  <1>2. P \in Nat /\ L \in Nat /\ R \in Nat /\ R >= 1 /\ t.Ns_on_wire \in Nat
    BY <1>1, TunnelFields
  <1>3. L >= 1
    <2>1. t.xmit_queue \in Seq(Dgram)
      BY <1>1, TunnelFields
    <2>. QED
      BY <2>1, EmptySeq
  <1>4. t.xmit_queue[1].Ns = P
    <2>1. 1 \in 1 .. L /\ P + 1 - 1 = P
      BY <1>2, <1>3
    <2>. QED
      BY <1>1, <2>1 DEF ChannelOK, QueueOK
  <1>5. h \in 1 .. Rws
    <2>1. t.cwnd \in 1 .. Rws /\ Rws \in Nat
      BY <1>1, TunnelFields, RwsAssumption
    <2>. QED
      BY <2>1
  <1>6. /\ b = [t EXCEPT !.timeout_handler = FALSE, !.xmit_new = 1,
                         !.Ns_on_wire = P, !.ssthresh = h, !.cwnd = 1,
                         !.cwnd_counter = 0, !.retransmissions = a]
    BY <1>4 DEF BackToSlowStart
  <1>7. a \in Nat
    BY <1>1 DEF Tunnel
  <1>8. b.retransmissions = a
    BY <1>1, <1>6 DEF Tunnel
  <1>9. a \in 0 .. MaxRetransmissions
    BY <1>7, <1>8, MaxRetransmissionsAssumption DEF TooManyRetransmissions
  <1>10. 1 \in 1 .. Rws /\ 0 \in 0 .. Rws - 1 /\ 1 \in Nat \ {0}
    BY RwsAssumption
  <1> HIDE DEF b, h, a
  <1>11. /\ b \in Tunnel
         /\ b.state = t.state /\ b.Ns = t.Ns /\ b.Ns_on_wire = P /\ b.Nr = t.Nr
         /\ b.peer_Nr = P /\ b.cwnd = 1 /\ b.cwnd_counter = 0 /\ b.peer_rws = R
         /\ b.xmit_queue = t.xmit_queue /\ b.xmit_new = 1
    <2>1. b \in Tunnel
      BY <1>1, <1>2, <1>5, <1>6, <1>9, <1>10 DEF Tunnel
    <2>. QED
      BY <1>1, <1>6, <2>1 DEF Tunnel
  <1>12. o \in {1, 2, 4, 8}
    BY <1>11 DEF Tunnel
  <1>13. u = [b EXCEPT !.timeout = o]
    BY DEF DoubleTimeout, b
  <1> HIDE DEF o
  <1>14. /\ u \in Tunnel
         /\ u.state = t.state /\ u.Ns = t.Ns /\ u.Ns_on_wire = P /\ u.Nr = t.Nr
         /\ u.peer_Nr = P /\ u.cwnd = 1 /\ u.cwnd_counter = 0 /\ u.peer_rws = R
         /\ u.xmit_queue = t.xmit_queue /\ u.xmit_new = 1
    <2>1. u \in Tunnel
      BY <1>11, <1>12, <1>13, ZenonT(40) DEF Tunnel
    <2>. QED
      BY <1>11, <1>13, <2>1 DEF Tunnel
  <1>15. WindowOK(u) /\ Up(u)
    BY <1>1, <1>2, <1>14 DEF WindowOK, Up
  <1>16. QueueOK(u, s) /\ u.peer_Nr <= k
    BY <1>1, <1>14 DEF ChannelOK, QueueOK
  <1>17. WireOK(u)
    <2>1. 1 <= L + 1 /\ 1 <= R + 1 /\ P = P + 1 - 1
      BY <1>2
    <2>. QED
      BY <1>14, <2>1 DEF WireOK
  <1>18. WindowBase(u) = P /\ WindowBase(t) <= P /\ WindowBase(t) \in Nat
    BY <1>2, <1>14 DEF WindowBase
  <1>19. Limit(t) <= Limit(u) /\ k <= P + R
    <2> DEFINE w == WindowBase(t)
    <2>1. Limit(t) = w + R /\ Limit(u) = P + R /\ k <= w + R /\ w <= P /\ w \in Nat
      BY <1>1, <1>14, <1>18 DEF Limit, ChannelOK
    <2> HIDE DEF w, P, R
    <2>. QED
      BY <1>2, <2>1
  <1>20. ChannelOK(u, s, k)
    BY <1>14, <1>16, <1>17, <1>18, <1>19 DEF ChannelOK
  <1>21. ~NothingNew(u)
    BY <1>2, <1>3, <1>14 DEF NothingNew
  <1>22. XmitCounts(b) = XmitCounts(u)
    BY <1>11, <1>14 DEF XmitCounts, WindowAllows, tunnel_outstanding_frames
  <1>23. \A n \in Nat : Transmitted(b, n) = Transmitted(u, n)
    BY <1>11, <1>14 DEF Transmitted
  <1>. QED
    BY <1>14, <1>15, <1>19, <1>20, <1>21, <1>22, <1>23 DEF ChanInv, b

(* a tunnel whose queue has been discarded *)
Emptied(t) == [t EXCEPT !.xmit_queue = <<>>, !.xmit_new = 1]

(* It is a tunnel. *)
LEMMA EmptiedType == ASSUME NEW t \in Tunnel PROVE Emptied(t) \in Tunnel
  <1>1. <<>> \in Seq(Dgram) /\ 1 \in Nat \ {0}
    OBVIOUS
  <1>. QED
    BY <1>1 DEF Emptied, Tunnel

(* StopCCN discards the queue of a tunnel that is up. *)
LEMMA StopUp ==
    ASSUME NEW t, NEW s \in Seq(Message), NEW k \in Nat, ChanInv(t, s, k),
           NEW u, u = tunnel_handle_StopCCN(t)
    PROVE  Quiet(u) /\ u.Nr = t.Nr /\ u.Ns_on_wire \in Nat
  <1> DEFINE L == Len(t.xmit_queue)
             X == t.xmit_new
             x == IF X > L THEN X - L ELSE 1
             ns == IF t.xmit_queue = <<>> THEN t.Ns ELSE t.peer_Nr
  <1>1. t \in Tunnel /\ WindowOK(t) /\ ChannelOK(t, s, k)
    BY DEF ChanInv
  <1>2. /\ L \in Nat /\ X \in Nat /\ X >= 1 /\ X <= L + 1
        /\ t.Ns_on_wire \in Nat /\ t.Ns \in Nat /\ t.peer_Nr \in Nat
    BY <1>1, TunnelFields DEF ChannelOK, WireOK
  <1>3. x = 1
    <2> HIDE DEF X, L
    <2>. QED BY <1>2
  <1>4. SubSeq(t.xmit_queue, L + 1, L) = <<>>
    BY <1>2, SubSeqEmpty
  <1>5. DequeueHeads(t, L) = [t EXCEPT !.xmit_queue = <<>>, !.xmit_new = 1]
    BY <1>3, <1>4 DEF DequeueHeads
  <1>6. u = [[t EXCEPT !.xmit_queue = <<>>, !.xmit_new = 1] EXCEPT
                !.state = "received_stop_ccn", !.Ns = ns, !.ack_handler = FALSE]
    BY <1>1, <1>5 DEF tunnel_handle_StopCCN, Tunnel
  <1>7. ns \in Nat /\ <<>> \in Seq(Dgram) /\ "received_stop_ccn" \in TunnelState
    BY <1>2 DEF TunnelState
  <1> HIDE DEF ns
  <1>8. u \in Tunnel
    <2> DEFINE v == Emptied(t)
    <2>1. v \in Tunnel
      BY <1>1, EmptiedType
    <2>2. u = [v EXCEPT !.state = "received_stop_ccn", !.Ns = ns,
                        !.ack_handler = FALSE]
      BY <1>6 DEF Emptied
    <2> HIDE DEF v
    <2>. QED
      BY <1>7, <2>1, <2>2 DEF Tunnel
  <1>9. /\ u.state = "received_stop_ccn" /\ u.xmit_queue = <<>> /\ u.xmit_new = 1
        /\ u.Nr = t.Nr /\ u.cwnd = t.cwnd /\ u.cwnd_counter = t.cwnd_counter
        /\ u.peer_rws = t.peer_rws /\ u.Ns_on_wire = t.Ns_on_wire
    BY <1>1, <1>6 DEF Tunnel
  <1>. QED
    BY <1>1, <1>2, <1>8, <1>9 DEF Quiet, WindowOK

(* A second StopCCN finds nothing to discard. *)
LEMMA StopQuiet ==
    ASSUME NEW t, Quiet(t), NEW u, u = tunnel_handle_StopCCN(t)
    PROVE  Quiet(u) /\ u.Nr = t.Nr /\ u.Ns_on_wire \in Nat
  <1>1. t \in Tunnel /\ WindowOK(t) /\ t.xmit_queue = <<>> /\ t.xmit_new = 1
    BY DEF Quiet
  <1>2. Len(t.xmit_queue) = 0 /\ (IF t.xmit_new > 0 THEN t.xmit_new - 0 ELSE 1) = 1
    BY <1>1
  <1>3. SubSeq(t.xmit_queue, 0 + 1, 0) = <<>>
    BY SubSeqEmpty
  <1>4. DequeueHeads(t, 0) = [t EXCEPT !.xmit_queue = <<>>, !.xmit_new = 1]
    BY <1>2, <1>3 DEF DequeueHeads
  <1>5. u = [[t EXCEPT !.xmit_queue = <<>>, !.xmit_new = 1] EXCEPT
                !.state = "received_stop_ccn", !.Ns = t.Ns, !.ack_handler = FALSE]
    <2> DEFINE v == [t EXCEPT !.xmit_queue = <<>>, !.xmit_new = 1]
    <2>1. v.Ns = t.Ns
      BY <1>1 DEF Tunnel
    <2>2. DequeueHeads(t, Len(t.xmit_queue)) = v
      BY <1>2, <1>4
    <2>3. u = [v EXCEPT !.state = "received_stop_ccn",
                        !.Ns = IF t.xmit_queue = <<>> THEN v.Ns ELSE t.peer_Nr,
                        !.ack_handler = FALSE]
      BY <2>2 DEF tunnel_handle_StopCCN
    <2>. QED
      BY <1>1, <2>1, <2>3
  <1>6. t.Ns \in Nat /\ <<>> \in Seq(Dgram) /\ "received_stop_ccn" \in TunnelState
        /\ t.Ns_on_wire \in Nat
    BY <1>1, TunnelFields DEF TunnelState
  <1>8. u \in Tunnel
    <2> DEFINE v == Emptied(t)
    <2>1. v \in Tunnel
      BY <1>1, EmptiedType
    <2>2. u = [v EXCEPT !.state = "received_stop_ccn", !.Ns = t.Ns,
                        !.ack_handler = FALSE]
      BY <1>5 DEF Emptied
    <2> HIDE DEF v
    <2>. QED
      BY <1>6, <2>1, <2>2 DEF Tunnel
  <1>9. /\ u.state = "received_stop_ccn" /\ u.xmit_queue = <<>> /\ u.xmit_new = 1
        /\ u.Nr = t.Nr /\ u.cwnd = t.cwnd /\ u.cwnd_counter = t.cwnd_counter
        /\ u.peer_rws = t.peer_rws /\ u.Ns_on_wire = t.Ns_on_wire
    BY <1>1, <1>5 DEF Tunnel
  <1>. QED
    BY <1>1, <1>6, <1>8, <1>9 DEF Quiet, WindowOK

-----------------------------------------------------------------------------
(* What TransportInv says of one end: t is its tunnel, s what it has       *)
(* queued, r what it has processed and k how much the peer has processed.  *)
EndState(e, t, s, r, k) ==
    /\ t \in Tunnel
    /\ WindowOK(t)
    /\ t.state = "idle" => e = "lns" /\ t = tunnel_new("idle") /\ s = <<>> /\ r = <<>>
    /\ t.state = "freed" => t = tunnel_free
    /\ t.state = "received_stop_ccn" => t.xmit_queue = <<>> /\ t.xmit_new = 1
    /\ t.state # "freed" => t.Nr = Len(r)
    /\ Up(t) => ChannelOK(t, s, k)
    /\ t.timeout_handler <=> t.xmit_queue # <<>>

(* A tunnel that is new or gone is a tunnel. *)
LEMMA NewTunnel ==
    ASSUME NEW st \in TunnelState, NEW t, t = tunnel_new(st)
    PROVE  /\ t \in Tunnel /\ WindowOK(t) /\ t.state = st
           /\ t.Nr = 0 /\ t.Ns = 0 /\ t.Ns_on_wire = 0 /\ t.peer_Nr = 0
           /\ t.xmit_queue = <<>> /\ t.xmit_new = 1 /\ t.peer_rws = 1
           /\ t.timeout_handler = FALSE /\ t.ack_handler = FALSE
  <1>1. /\ 1 \in 1 .. Rws /\ 0 \in 0 .. Rws - 1 /\ 0 \in 0 .. MaxRetransmissions
        /\ <<>> \in Seq(Dgram)
    BY RwsAssumption, MaxRetransmissionsAssumption
  <1>. QED
    BY <1>1 DEF tunnel_new, Tunnel, WindowOK

(* tunnel_free is always in order. *)
LEMMA FreedEnd ==
    ASSUME NEW e, NEW s, NEW r, NEW k
    PROVE  EndState(e, tunnel_free, s, r, k) /\ ~Up(tunnel_free)
  <1>1. "freed" \in TunnelState
    BY DEF TunnelState
  <1>2. /\ tunnel_free \in Tunnel /\ WindowOK(tunnel_free)
        /\ tunnel_free.state = "freed" /\ tunnel_free.xmit_queue = <<>>
        /\ tunnel_free.timeout_handler = FALSE
    BY <1>1, NewTunnel DEF tunnel_free
  <1>. QED
    BY <1>2 DEF EndState, Up

(* A tunnel that is up and whose timer runs while it has to is in order,   *)
(* once the end of the receive path has stopped a timer with no message.   *)
LEMMA UpEnd ==
    ASSUME NEW e, NEW t, NEW s, NEW r, NEW k, ChanInv(t, s, k), t.Nr = Len(r),
           t.timeout_handler <=> t.xmit_queue # <<>>
    PROVE  EndState(e, t, s, r, k)
  BY DEF ChanInv, EndState, Up

(* Stopping the timer of an empty queue. *)
LEMMA StopTimer ==
    ASSUME NEW t \in Tunnel, t.xmit_queue = <<>>,
           NEW u, u = StopTimerIfDrained(t)
    PROVE  /\ u \in Tunnel /\ ~u.timeout_handler
           /\ u.state = t.state /\ u.Ns = t.Ns /\ u.Ns_on_wire = t.Ns_on_wire
           /\ u.Nr = t.Nr /\ u.peer_Nr = t.peer_Nr /\ u.cwnd = t.cwnd
           /\ u.cwnd_counter = t.cwnd_counter /\ u.peer_rws = t.peer_rws
           /\ u.xmit_queue = t.xmit_queue /\ u.xmit_new = t.xmit_new
  BY DEF StopTimerIfDrained, Tunnel

(* The end of the receive path, for a tunnel that is up. *)
LEMMA FinishUp ==
    ASSUME NEW e, NEW t, NEW s, NEW r, NEW k, ChanInv(t, s, k), t.Nr = Len(r),
           TimerCovers(t), NEW u, u = FinishReceive(t)
    PROVE  /\ EndState(e, u, s, r, k)
           /\ Up(u) => Limit(u) = Limit(t)
  <1>1. t \in Tunnel /\ Up(t) /\ WindowOK(t) /\ ChannelOK(t, s, k)
    BY DEF ChanInv
  <1>2. t.timeout_handler \in BOOLEAN
    BY <1>1, TunnelFields
  <1>3. CASE t.xmit_queue # <<>>
    <2>1. u = t
      BY <1>3 DEF FinishReceive, StopTimerIfDrained
    <2>2. t.timeout_handler <=> t.xmit_queue # <<>>
      BY <1>3 DEF TimerCovers
    <2>. QED
      BY <2>1, <2>2, UpEnd
  <1>4. CASE t.xmit_queue = <<>> /\ t.state = "sent_stop_ccn"
    <2>1. u = tunnel_free
      BY <1>4 DEF FinishReceive
    <2>. QED
      BY <2>1, FreedEnd
  <1>5. CASE t.xmit_queue = <<>> /\ t.state # "sent_stop_ccn"
    <2>1. u = StopTimerIfDrained(t)
      BY <1>5 DEF FinishReceive
    <2>2. /\ u \in Tunnel /\ ~u.timeout_handler
          /\ u.state = t.state /\ u.Ns = t.Ns /\ u.Ns_on_wire = t.Ns_on_wire
          /\ u.Nr = t.Nr /\ u.peer_Nr = t.peer_Nr /\ u.cwnd = t.cwnd
          /\ u.cwnd_counter = t.cwnd_counter /\ u.peer_rws = t.peer_rws
          /\ u.xmit_queue = t.xmit_queue /\ u.xmit_new = t.xmit_new
      BY <1>1, <1>5, <2>1, StopTimer
    <2>3. WindowOK(u) /\ ChannelOK(u, s, k) /\ Up(u) /\ Limit(u) = Limit(t)
      BY <1>1, <2>2 DEF WindowOK, ChannelOK, QueueOK, WireOK, WindowBase, Up, Limit
    <2>. QED
      BY <1>5, <2>2, <2>3, UpEnd DEF ChanInv
  <1>. QED
    BY <1>3, <1>4, <1>5

(* The same for a tunnel that has received StopCCN. *)
LEMMA FinishQuiet ==
    ASSUME NEW e, NEW t, NEW s, NEW r, NEW k, Quiet(t), t.Nr = Len(r),
           NEW u, u = FinishReceive(t)
    PROVE  EndState(e, u, s, r, k) /\ ~Up(u)
  <1>1. t \in Tunnel /\ t.xmit_queue = <<>> /\ t.state = "received_stop_ccn"
    BY DEF Quiet
  <1>2. u = StopTimerIfDrained(t)
    BY <1>1 DEF FinishReceive
  <1>3. /\ u \in Tunnel /\ ~u.timeout_handler
        /\ u.state = t.state /\ u.Ns = t.Ns /\ u.Ns_on_wire = t.Ns_on_wire
        /\ u.Nr = t.Nr /\ u.peer_Nr = t.peer_Nr /\ u.cwnd = t.cwnd
        /\ u.cwnd_counter = t.cwnd_counter /\ u.peer_rws = t.peer_rws
        /\ u.xmit_queue = t.xmit_queue /\ u.xmit_new = t.xmit_new
    BY <1>1, <1>2, StopTimer
  <1>. QED
    BY <1>1, <1>3 DEF EndState, Quiet, WindowOK, Up

-----------------------------------------------------------------------------
(* s is s0 and messages other than SCCRQ after it *)
Extends(s0, s) ==
    /\ Len(s0) <= Len(s)
    /\ \A i \in 1 .. Len(s0) : s[i] = s0[i]
    /\ \A i \in Len(s0) + 1 .. Len(s) : s[i] # "SCCRQ"

(* r is what e has processed, and perhaps the next message on the wire *)
Delivers(e, r) ==
    \/ r = delivered[e]
    \/ \E d \in net : /\ d.to = e /\ d.msg # "ZLB" /\ d.msg \in Message
                      /\ d.Ns = Len(delivered[e])
                      /\ r = Append(delivered[e], d.msg)

(* a datagram of an end with tunnel t that queued s and processed r *)
OutOK(d, t, s, r) ==
    /\ d.Ns \in Nat /\ d.Nr \in Nat /\ d.Nr <= Len(r)
    /\ d.msg # "ZLB" => /\ d.Ns < Len(s) /\ d.msg = s[d.Ns + 1]
                        /\ Up(t) => d.Ns < Limit(t)

(* What TransportInv says of each end and of each datagram. *)
LEMMA Unfold ==
    ASSUME TransportInv
    PROVE  /\ tunnel \in [End -> Tunnel] /\ net \subseteq Datagram
           /\ sent \in [End -> Seq(Message)] /\ delivered \in [End -> Seq(Message)]
           /\ \A e \in End :
                 EndState(e, tunnel[e], sent[e], delivered[e], Len(delivered[Peer(e)]))
           /\ \A d \in net : DatagramOK(d)
  <1>1. /\ tunnel \in [End -> Tunnel] /\ net \subseteq Datagram
        /\ sent \in [End -> Seq(Message)] /\ delivered \in [End -> Seq(Message)]
    BY DEF TransportInv, TypeOK
  <1>2. ASSUME NEW e \in End
        PROVE  EndState(e, tunnel[e], sent[e], delivered[e], Len(delivered[Peer(e)]))
    <2>1. EndOK(e) /\ tunnel[e] \in Tunnel
      BY <1>1 DEF TransportInv
    <2>2. tunnel[e].timeout_handler <=> tunnel[e].xmit_queue # <<>>
      BY DEF TransportInv, TimerIffUnacked
    <2>. QED
      BY <2>1, <2>2 DEF EndOK, EndState, Active, Up
  <1>. QED
    BY <1>1, <1>2 DEF TransportInv

(* The other direction, for the state after a step. *)
LEMMA Fold ==
    ASSUME tunnel' \in [End -> Tunnel], net' \subseteq Datagram,
           sent' \in [End -> Seq(Message)], delivered' \in [End -> Seq(Message)],
           \A e \in End : EndState(e, tunnel'[e], sent'[e], delivered'[e],
                                   Len(delivered'[Peer(e)])),
           \A d \in net' : DatagramOK(d)',
           SCCRQFirst', InOrderDelivery'
    PROVE  TransportInv'
  <1>1. TypeOK'
    BY DEF TypeOK
  <1>2. ASSUME NEW e \in End PROVE EndOK(e)'
    <2>1. EndState(e, tunnel'[e], sent'[e], delivered'[e], Len(delivered'[Peer(e)]))
      OBVIOUS
    <2>. QED
      BY <2>1 DEF EndOK, EndState, Active, Up
  <1>3. TimerIffUnacked'
    BY DEF TimerIffUnacked, EndState
  <1>. QED
    BY <1>1, <1>2, <1>3 DEF TransportInv

(* Any step in which one end changes its tunnel, queues and processes      *)
(* messages and sends datagrams keeps both ends and the wire in order.     *)
LEMMA StepOK ==
    ASSUME TransportInv, NEW e \in End, NEW t, NEW s \in Seq(Message),
           NEW r \in Seq(Message), NEW out,
           tunnel' = [tunnel EXCEPT ![e] = t],
           sent' = [sent EXCEPT ![e] = s],
           delivered' = [delivered EXCEPT ![e] = r],
           net' \subseteq net \cup To(e, out),
           EndState(e, t, s, r, Len(delivered[Peer(e)])),
           Extends(sent[e], s), Delivers(e, r),
           Up(t) => \/ Up(tunnel[e]) /\ Limit(tunnel[e]) <= Limit(t)
                    \/ sent[e] = <<>>,
           \A d \in out : OutOK(d, t, s, r)
    PROVE  TransportInv'
  <1> DEFINE p == Peer(e)
             D == Len(delivered[e])
             S == Len(sent[e])
  <1>1. p \in End /\ p # e /\ Peer(p) = e /\ \A x \in End : x = e \/ x = p
    BY DEF End, Peer
  <1>2. /\ tunnel \in [End -> Tunnel] /\ net \subseteq Datagram
        /\ sent \in [End -> Seq(Message)] /\ delivered \in [End -> Seq(Message)]
        /\ \A x \in End :
              EndState(x, tunnel[x], sent[x], delivered[x], Len(delivered[Peer(x)]))
        /\ \A d \in net : DatagramOK(d)
    BY Unfold
  <1> HIDE DEF p
  <1>3. /\ tunnel'[e] = t /\ sent'[e] = s /\ delivered'[e] = r
        /\ tunnel'[p] = tunnel[p] /\ sent'[p] = sent[p]
        /\ delivered'[p] = delivered[p]
    BY <1>1, <1>2
  <1>4. t \in Tunnel /\ EndState(e, t, s, r, Len(delivered[p]))
    BY DEF EndState, p
  <1>5. /\ tunnel' \in [End -> Tunnel] /\ sent' \in [End -> Seq(Message)]
        /\ delivered' \in [End -> Seq(Message)]
    BY <1>2, <1>4
  <1>6. /\ D \in Nat /\ S \in Nat /\ Len(s) \in Nat /\ Len(r) \in Nat /\ S <= Len(s)
        /\ Len(sent[p]) \in Nat /\ Len(delivered[p]) \in Nat
    <2>1. sent[e] \in Seq(Message) /\ delivered[e] \in Seq(Message)
          /\ sent[p] \in Seq(Message) /\ delivered[p] \in Seq(Message)
      BY <1>1, <1>2
    <2>. QED
      BY <2>1, LenProperties DEF Extends
  <1>7. Limit(t) \in Nat /\ Limit(tunnel[e]) \in Nat /\ Limit(tunnel[p]) \in Nat
    BY <1>1, <1>2, <1>4, LimitType
  <1>8. \/ r = delivered[e] /\ Len(r) = D
        \/ \E d \in net : /\ d.to = e /\ d.msg # "ZLB" /\ d.Ns = D
                          /\ Len(r) = D + 1 /\ r[D + 1] = d.msg
                          /\ \A i \in 1 .. D : r[i] = delivered[e][i]
    <2>1. CASE r = delivered[e]
      BY <2>1
    <2>2. ASSUME NEW d \in net, d.to = e, d.msg # "ZLB", d.msg \in Message,
                 d.Ns = D, r = Append(delivered[e], d.msg)
          PROVE  /\ Len(r) = D + 1 /\ r[D + 1] = d.msg
                 /\ \A i \in 1 .. D : r[i] = delivered[e][i]
      <3>1. delivered[e] \in Seq(Message)
        BY <1>2
      <3>. QED
        BY <2>2, <3>1, AppendSeq
    <2>. QED
      BY <2>1, <2>2 DEF Delivers
  <1> HIDE DEF D, S
  (* the new datagrams *)
  <1>9. ASSUME NEW d \in net'
        PROVE  \/ d \in net
               \/ /\ d.to = p /\ d.Ns \in Nat /\ d.Nr \in Nat /\ d.Nr <= Len(r)
                  /\ d.msg \in Message \cup {"ZLB"} /\ d \in Datagram
                  /\ d.msg # "ZLB" =>
                        d.Ns < Len(s) /\ d.msg = s[d.Ns + 1] /\ (Up(t) => d.Ns < Limit(t))
    <2>1. CASE d \in To(e, out)
      <3>1. PICK o \in out : d = [to |-> p, Ns |-> o.Ns, Nr |-> o.Nr, msg |-> o.msg]
        BY <2>1 DEF To, p
      <3>2. /\ d.to = p /\ d.Ns = o.Ns /\ d.Nr = o.Nr /\ d.msg = o.msg
        BY <3>1
      <3>3. OutOK(o, t, s, r)
        OBVIOUS
      <3>4. /\ d.Ns \in Nat /\ d.Nr \in Nat /\ d.Nr <= Len(r)
            /\ d.msg # "ZLB" =>
                  d.Ns < Len(s) /\ d.msg = s[d.Ns + 1] /\ (Up(t) => d.Ns < Limit(t))
        BY <3>2, <3>3 DEF OutOK
      <3>5. d.msg # "ZLB" => d.msg \in Message
        <4>1. d.msg # "ZLB" => d.Ns + 1 \in 1 .. Len(s)
          BY <1>6, <3>4
        <4>2. \A i \in 1 .. Len(s) : s[i] \in Message
          OBVIOUS
        <4>. QED
          BY <3>4, <4>1, <4>2
      <3>6. d \in Datagram
        BY <1>1, <3>1, <3>2, <3>4, <3>5 DEF Datagram
      <3>. QED
        BY <3>2, <3>4, <3>5, <3>6
    <2>. QED
      BY <2>1
  <1>10. net' \subseteq Datagram
    BY <1>2, <1>9
  <1>11. ASSUME NEW d \in net'
         PROVE  DatagramOK(d)'
    <2>1. CASE d \in net /\ d.to = e
      <3>1. DatagramOK(d)
        BY <1>2, <2>1
      <3>2. Peer(d.to) = p
        BY <2>1 DEF p
      <3>. QED
        BY <1>3, <3>1, <3>2 DEF DatagramOK, Active
    <2>2. CASE d \in net /\ d.to = p
      <3>1. Peer(d.to) = e
        BY <1>1, <2>2
      <3>2. d.Ns \in Nat /\ d.Nr \in Nat
        BY <1>2, <2>2 DEF Datagram
      <3>3. /\ d.Nr <= D
            /\ d.msg # "ZLB" => /\ d.Ns < S /\ d.msg = sent[e][d.Ns + 1]
                                /\ Up(tunnel[e]) => d.Ns < Limit(tunnel[e])
        BY <1>2, <2>2, <3>1 DEF DatagramOK, Active, Up, Limit, D, S
      <3>4. d.Nr <= Len(r)
        BY <1>6, <1>8, <3>2, <3>3
      <3>5. ASSUME d.msg # "ZLB"
            PROVE  d.Ns < Len(s) /\ d.msg = s[d.Ns + 1] /\ (Up(t) => d.Ns < Limit(t))
        <4>1. d.Ns < Len(s) /\ d.Ns + 1 \in 1 .. S /\ S # 0
          BY <1>6, <3>2, <3>3, <3>5, SMTT(30)
        <4>2. s[d.Ns + 1] = sent[e][d.Ns + 1]
          BY <4>1 DEF Extends, S
        <4>3. Up(t) => Up(tunnel[e]) /\ Limit(tunnel[e]) <= Limit(t)
          BY <4>1 DEF S
        <4>. QED
          BY <1>7, <3>2, <3>3, <3>5, <4>1, <4>2, <4>3
      <3>. QED
        BY <1>3, <3>1, <3>4, <3>5 DEF DatagramOK, Active, Up, Limit
    <2>3. CASE d \notin net
      <3>1. /\ d.to = p /\ d.Nr <= Len(r)
            /\ d.msg # "ZLB" =>
                  d.Ns < Len(s) /\ d.msg = s[d.Ns + 1] /\ (Up(t) => d.Ns < Limit(t))
        BY <1>9, <2>3
      <3>2. Peer(d.to) = e
        BY <1>1, <3>1
      <3>. QED
        BY <1>3, <3>1, <3>2 DEF DatagramOK, Active, Up, Limit
    <2>4. d \in net => d.to \in End
      BY <1>2 DEF Datagram
    <2>. QED
      BY <1>1, <2>1, <2>2, <2>3, <2>4
  (* what the peer knows about the end that processed a message *)
  <1>12. ASSUME NEW d \in net, d.to = e, d.msg # "ZLB", d.Ns = D
         PROVE  /\ D + 1 <= Len(sent[p]) /\ d.msg = sent[p][D + 1]
                /\ Up(tunnel[p]) => D + 1 <= Limit(tunnel[p])
    <2>1. Peer(d.to) = p
      BY <1>12 DEF p
    <2>2. /\ D < Len(sent[p]) /\ d.msg = sent[p][D + 1]
          /\ Up(tunnel[p]) => D < Limit(tunnel[p])
      BY <1>2, <1>12, <2>1 DEF DatagramOK, Active, Up, Limit
    <2>. QED
      BY <1>6, <1>7, <2>2
  <1>13. EndState(p, tunnel[p], sent[p], delivered[p], Len(r))
    <2>1. EndState(p, tunnel[p], sent[p], delivered[p], D)
      BY <1>1, <1>2 DEF D
    <2>2. CASE r = delivered[e] /\ Len(r) = D
      BY <2>1, <2>2
    <2>3. CASE Len(r) = D + 1 /\ (Up(tunnel[p]) => D + 1 <= Limit(tunnel[p]))
      <3>1. ASSUME Up(tunnel[p]) PROVE ChannelOK(tunnel[p], sent[p], Len(r))
        <4>1. ChannelOK(tunnel[p], sent[p], D) /\ tunnel[p].peer_Nr \in Nat
          BY <1>1, <1>2, <2>1, <3>1, TunnelFields DEF EndState
        <4>2. tunnel[p].peer_Nr <= D
          BY <4>1 DEF ChannelOK
        <4>3. tunnel[p].peer_Nr <= D + 1
          BY <1>6, <4>1, <4>2
        <4>. QED
          BY <2>3, <3>1, <4>1, <4>3 DEF ChannelOK, Limit
      <3>. QED
        BY <2>1, <3>1 DEF EndState
    <2>. QED
      BY <1>8, <1>12, <2>2, <2>3
  <1>14. \A x \in End : EndState(x, tunnel'[x], sent'[x], delivered'[x],
                                 Len(delivered'[Peer(x)]))
    <2>1. Peer(e) = p /\ Peer(p) = e
      BY <1>1 DEF p
    <2>. QED
      BY <1>1, <1>3, <1>4, <1>13, <2>1
  <1>15. InOrderDelivery'
    <2>1. /\ D <= Len(sent[p])
          /\ \A i \in 1 .. D : delivered[e][i] = sent[p][i]
      BY <1>1 DEF TransportInv, InOrderDelivery, D, p
    <2>2. /\ Len(delivered[p]) <= S
          /\ \A i \in 1 .. Len(delivered[p]) : delivered[p][i] = sent[e][i]
      BY <1>1 DEF TransportInv, InOrderDelivery, S
    <2>3. Len(r) <= Len(sent[p]) /\ \A i \in 1 .. Len(r) : r[i] = sent[p][i]
      <3>1. CASE r = delivered[e] /\ Len(r) = D
        BY <2>1, <3>1
      <3>2. ASSUME NEW d \in net, d.to = e, d.msg # "ZLB", d.Ns = D,
                   Len(r) = D + 1, r[D + 1] = d.msg,
                   \A i \in 1 .. D : r[i] = delivered[e][i]
            PROVE  Len(r) <= Len(sent[p]) /\ \A i \in 1 .. Len(r) : r[i] = sent[p][i]
        <4>1. D + 1 <= Len(sent[p]) /\ d.msg = sent[p][D + 1]
          BY <1>12, <3>2
        <4>2. \A i \in 1 .. D + 1 : i \in 1 .. D \/ i = D + 1
          BY <1>6
        <4>. QED
          BY <2>1, <3>2, <4>1, <4>2
      <3>. QED
        BY <1>8, <3>1, <3>2
    <2>4. /\ Len(delivered[p]) <= Len(s)
          /\ \A i \in 1 .. Len(delivered[p]) : delivered[p][i] = s[i]
      <3>1. \A i \in 1 .. Len(delivered[p]) : i \in 1 .. S
        BY <1>6, <2>2
      <3>2. Len(delivered[p]) <= Len(s)
        BY <1>6, <2>2
      <3>. QED
        BY <2>2, <3>1, <3>2 DEF Extends, S
    <2>5. Peer(e) = p /\ Peer(p) = e
      BY <1>1 DEF p
    <2>. QED
      BY <1>1, <1>3, <2>3, <2>4, <2>5 DEF InOrderDelivery
  <1>16. SCCRQFirst'
    <2>1. /\ sent["lac"] # <<>> /\ sent["lac"][1] = "SCCRQ"
          /\ \A x \in End : \A i \in 1 .. Len(sent[x]) :
                sent[x][i] = "SCCRQ" => x = "lac" /\ i = 1
      BY DEF TransportInv, SCCRQFirst
    <2>2. sent'["lac"] # <<>> /\ sent'["lac"][1] = "SCCRQ"
      <3>1. CASE e = "lac"
        <4>1. sent[e] \in Seq(Message) /\ sent[e] # <<>>
          BY <1>2, <2>1, <3>1
        <4>2. S # 0
          BY <4>1, EmptySeq DEF S
        <4>3. 1 \in 1 .. S /\ Len(s) # 0
          BY <1>6, <4>2
        <4>4. s[1] = sent[e][1]
          BY <4>3 DEF Extends, S
        <4>5. s # <<>>
          BY <4>3
        <4>. QED
          BY <1>3, <2>1, <3>1, <4>4, <4>5
      <3>2. CASE e # "lac"
        <4>1. p = "lac"
          BY <1>1, <3>2 DEF End
        <4>. QED
          BY <1>3, <2>1, <4>1
      <3>. QED
        BY <3>1, <3>2
    <2>3. ASSUME NEW i \in 1 .. Len(s), s[i] = "SCCRQ" PROVE e = "lac" /\ i = 1
      <3>1. i \in 1 .. S \/ i \in S + 1 .. Len(s)
        BY <1>6
      <3>2. i \in 1 .. S
        BY <2>3, <3>1 DEF Extends, S
      <3>. QED
        BY <2>1, <2>3, <3>2 DEF Extends, S
    <2>4. ASSUME NEW x \in End, NEW i \in 1 .. Len(sent'[x]), sent'[x][i] = "SCCRQ"
          PROVE  x = "lac" /\ i = 1
      <3>1. CASE x = e
        BY <1>3, <2>3, <2>4, <3>1
      <3>2. CASE x = p
        BY <1>3, <2>1, <2>4, <3>2
      <3>. QED
        BY <1>1, <3>1, <3>2
    <2>. QED
      BY <2>2, <2>4 DEF SCCRQFirst
  <1>. QED
    BY <1>5, <1>10, <1>11, <1>14, <1>15, <1>16, Fold

-----------------------------------------------------------------------------
(* What the actions of one end may use. *)
LEMMA EndFacts ==
    ASSUME TransportInv, NEW e \in End
    PROVE  /\ tunnel[e] \in Tunnel /\ sent[e] \in Seq(Message)
           /\ delivered[e] \in Seq(Message)
           /\ Len(delivered[e]) \in Nat
           /\ Len(delivered[Peer(e)]) \in Nat
           /\ Len(delivered[Peer(e)]) <= Len(sent[e])
           /\ Up(tunnel[e]) =>
                 ChanInv(tunnel[e], sent[e], Len(delivered[Peer(e)]))
           /\ tunnel[e].state = "received_stop_ccn" => Quiet(tunnel[e])
           /\ tunnel[e].state # "freed" => tunnel[e].Nr = Len(delivered[e])
           /\ tunnel[e].timeout_handler <=> tunnel[e].xmit_queue # <<>>
           /\ tunnel[e].state \in {"idle", "freed"} =>
                 /\ tunnel[e].xmit_queue = <<>>
                 /\ ~tunnel[e].ack_handler
           /\ tunnel[e].state \in TunnelState
  <1>1. /\ tunnel \in [End -> Tunnel]
        /\ sent \in [End -> Seq(Message)] /\ delivered \in [End -> Seq(Message)]
        /\ EndState(e, tunnel[e], sent[e], delivered[e], Len(delivered[Peer(e)]))
    BY Unfold
  <1>2. Peer(e) \in End /\ Peer(Peer(e)) = e
    BY DEF End, Peer
  <1>3. delivered[e] \in Seq(Message) /\ delivered[Peer(e)] \in Seq(Message)
    BY <1>1, <1>2
  <1>4. Len(delivered[e]) \in Nat /\ Len(delivered[Peer(e)]) \in Nat
    BY <1>3, LenProperties
  <1>5. Len(delivered[Peer(e)]) <= Len(sent[e])
    BY <1>2 DEF TransportInv, InOrderDelivery
  <1>6. tunnel[e].state \in {"idle", "freed"} =>
            tunnel[e].xmit_queue = <<>> /\ ~tunnel[e].ack_handler
    BY <1>1 DEF EndState, tunnel_new, tunnel_free
  <1>7. tunnel[e].state \in TunnelState
    BY <1>1, TunnelFields
  <1>. QED
    BY <1>1, <1>3, <1>4, <1>5, <1>6, <1>7 DEF EndState, ChanInv, Quiet

(* A history extends itself, and by any message but SCCRQ. *)
LEMMA ExtendsSame == ASSUME NEW s \in Seq(Message) PROVE Extends(s, s)
  <1>1. Len(s) \in Nat
    OBVIOUS
  <1>. QED
    BY <1>1 DEF Extends

(* One more message extends the history of an end. *)
LEMMA ExtendsAppend ==
    ASSUME NEW s \in Seq(Message), NEW m \in Request
    PROVE  Append(s, m) \in Seq(Message) /\ Extends(s, Append(s, m))
  <1>1. m \in Message /\ m # "SCCRQ"
    BY PayloadAssumption DEF Request, Message
  <1>2. /\ Append(s, m) \in Seq(Message)
        /\ Len(s) \in Nat
        /\ Len(Append(s, m)) = Len(s) + 1
    BY <1>1, AppendSeq
  <1>3. /\ \A i \in 1 .. Len(s) : Append(s, m)[i] = s[i]
        /\ Append(s, m)[Len(s) + 1] = m
    BY <1>1, AppendSeq
  <1>4. \A i \in Len(s) + 1 .. Len(s) + 1 : i = Len(s) + 1
    BY <1>2
  <1>. QED
    BY <1>1, <1>2, <1>3, <1>4 DEF Extends

(* Frames of a run of the queue are what StepOK asks of a datagram. *)
LEMMA FramesOut ==
    ASSUME NEW t, NEW s, NEW r, NEW nr \in Nat, nr = Len(r), NEW out, NEW lim,
           Up(t) => lim = Limit(t), \A d \in out : FrameOK(d, s, nr, lim)
    PROVE  \A d \in out : OutOK(d, t, s, r)
  BY DEF FrameOK, OutOK

(* Queueing a message and running the queue. *)
LEMMA XmitControlMessageOK ==
    ASSUME TransportInv, NEW e \in End, NEW m \in Request,
           XmitControlMessage(e, m)
    PROVE  TransportInv'
  <1> DEFINE s == sent[e]
             r == delivered[e]
             k == Len(delivered[Peer(e)])
             q == Queue(tunnel[e], m)
             s1 == Append(s, m)
  <1>1. /\ tunnel[e] \in Tunnel /\ s \in Seq(Message) /\ r \in Seq(Message)
        /\ Len(r) \in Nat /\ k \in Nat /\ k <= Len(s)
        /\ Up(tunnel[e]) => ChanInv(tunnel[e], s, k)
        /\ tunnel[e].state # "freed" => tunnel[e].Nr = Len(r)
    BY EndFacts
  <1>2. /\ Up(tunnel[e]) /\ tunnel[e].state # "freed"
        /\ Len(tunnel[e].xmit_queue) < SeqHalf
    BY DEF XmitControlMessage, MayQueue, Up
  <1>3. PICK n \in XmitCounts(q) :
            /\ tunnel' = [tunnel EXCEPT ![e] = tunnel_xmit_queued_messages(q, n)]
            /\ net' = net \cup To(e, Transmitted(q, n))
    BY DEF XmitControlMessage
  <1>4. sent' = [sent EXCEPT ![e] = s1] /\ delivered' = delivered
    BY DEF XmitControlMessage
  <1>5. m \in Message /\ s1 \in Seq(Message) /\ Extends(s, s1)
    BY <1>1, ExtendsAppend DEF Message
  <1> DEFINE u == tunnel_xmit_queued_messages(q, n)
             out == Transmitted(q, n)
  <1>6. delivered' = [delivered EXCEPT ![e] = r]
    <2>1. delivered \in [End -> Seq(Message)]
      BY DEF TransportInv, TypeOK
    <2>. QED
      BY <1>4, <2>1
  <1>7. Delivers(e, r)
    BY DEF Delivers
  <1> HIDE DEF s, r, k, s1
  <1>8. /\ ChanInv(q, s1, k) /\ ~NothingNew(q)
        /\ q.Nr = tunnel[e].Nr /\ Limit(q) = Limit(tunnel[e])
    <2> HIDE DEF q
    <2>1. q = Queue(tunnel[e], m)
      BY DEF q
    <2>. QED
      BY <1>1, <1>2, <1>5, <2>1, QueueStep DEF s1
  <1> HIDE DEF q
  <1>9. /\ ChanInv(u, s1, k) /\ TimerCovers(u)
        /\ u.xmit_queue = q.xmit_queue /\ u.Nr = q.Nr /\ Limit(u) = Limit(q)
        /\ u.timeout_handler => q.timeout_handler \/ u.xmit_queue # <<>>
        /\ \A d \in out : FrameOK(d, s1, q.Nr, Limit(u))
    BY <1>1, <1>3, <1>5, <1>8, XmitStep
  <1>10. q.xmit_queue # <<>>
    <2>1. q \in Tunnel
      BY <1>8 DEF ChanInv
    <2>2. q.xmit_new \in Nat /\ q.xmit_new >= 1
      BY <2>1, TunnelFields
    <2>. QED
      BY <1>8, <2>2 DEF NothingNew
  <1>11. u.timeout_handler <=> u.xmit_queue # <<>>
    BY <1>9, <1>10 DEF TimerCovers
  <1> HIDE DEF u, out
  <1>12. EndState(e, u, s1, r, k)
    BY <1>1, <1>2, <1>8, <1>9, <1>11, UpEnd
  <1>13. \A d \in out : OutOK(d, u, s1, r)
    BY <1>1, <1>2, <1>8, <1>9, FramesOut
  <1>14. Limit(tunnel[e]) <= Limit(u)
    BY <1>1, <1>8, <1>9, LimitType
  <1>15. tunnel' = [tunnel EXCEPT ![e] = u] /\ net' \subseteq net \cup To(e, out)
    BY <1>3 DEF u, out
  <1>. QED
    BY <1>1, <1>2, <1>4, <1>5, <1>6, <1>7, <1>12, <1>13, <1>14, <1>15, StepOK
       DEF s, k

(* StepOK when no message is queued or processed. *)
LEMMA StepSame ==
    ASSUME TransportInv, NEW e \in End, NEW t, NEW out,
           tunnel' = [tunnel EXCEPT ![e] = t], sent' = sent, delivered' = delivered,
           net' \subseteq net \cup To(e, out),
           EndState(e, t, sent[e], delivered[e], Len(delivered[Peer(e)])),
           Up(t) => Up(tunnel[e]) /\ Limit(tunnel[e]) <= Limit(t),
           \A d \in out : OutOK(d, t, sent[e], delivered[e])
    PROVE  TransportInv'
  <1>1. sent \in [End -> Seq(Message)] /\ delivered \in [End -> Seq(Message)]
    BY DEF TransportInv, TypeOK
  <1>2. /\ sent' = [sent EXCEPT ![e] = sent[e]]
        /\ delivered' = [delivered EXCEPT ![e] = delivered[e]]
        /\ sent[e] \in Seq(Message) /\ delivered[e] \in Seq(Message)
    BY <1>1
  <1>3. Extends(sent[e], sent[e]) /\ Delivers(e, delivered[e])
    BY <1>2, ExtendsSame DEF Delivers
  <1>. QED
    BY <1>2, <1>3, StepOK

(* A tunnel that goes away. *)
LEMMA FreeStep ==
    ASSUME TransportInv, NEW e \in End,
           tunnel' = [tunnel EXCEPT ![e] = tunnel_free],
           sent' = sent, delivered' = delivered, net' \subseteq net
    PROVE  TransportInv'
  <1> DEFINE u == tunnel_free
             out == {}
  <1>1. EndState(e, u, sent[e], delivered[e], Len(delivered[Peer(e)])) /\ ~Up(u)
    BY FreedEnd
  <1>2. net' \subseteq net \cup To(e, out)
    OBVIOUS
  <1>3. \A d \in out : OutOK(d, u, sent[e], delivered[e])
    OBVIOUS
  <1>4. tunnel' = [tunnel EXCEPT ![e] = u]
    OBVIOUS
  <1> HIDE DEF u, out
  <1>. QED
    BY <1>1, <1>2, <1>3, <1>4, StepSame

(* An old or early datagram. *)
LEMMA ReceiveOutOfSequenceOK ==
    ASSUME TransportInv, NEW e \in End, NEW d \in net, ReceiveOutOfSequence(e, d)
    PROVE  TransportInv'
  <1> DEFINE t == tunnel[e]
             k == Len(delivered[Peer(e)])
             u == DropOutOfSequence(t, d)
             out == {}
  <1>1. /\ t \in Tunnel /\ sent[e] \in Seq(Message) /\ k \in Nat /\ k <= Len(sent[e])
        /\ Up(t) => ChanInv(t, sent[e], k)
        /\ t.state = "received_stop_ccn" => Quiet(t)
        /\ t.state # "freed" => t.Nr = Len(delivered[e])
        /\ t.timeout_handler <=> t.xmit_queue # <<>>
        /\ t.state \in TunnelState
    BY EndFacts
  <1>2. t.state \notin {"idle", "freed"}
    BY DEF ReceiveOutOfSequence
  <1>3. Up(t) \/ t.state = "received_stop_ccn"
    BY <1>1, <1>2 DEF TunnelState, Up
  <1>4. tunnel' = [tunnel EXCEPT ![e] = u] /\ sent' = sent /\ delivered' = delivered
    BY DEF ReceiveOutOfSequence
  <1>5. net' \subseteq net \cup To(e, out)
    BY DEF ReceiveOutOfSequence, Consume
  <1>6. \A x \in out : OutOK(x, u, sent[e], delivered[e])
    OBVIOUS
  <1>7. CASE Up(t)
    <2>1. u = DropOutOfSequence(t, d) /\ ChanInv(t, sent[e], k)
      BY <1>1, <1>7
    <2> HIDE DEF u, t, k, out
    <2>2. /\ ChanInv(u, sent[e], k) /\ Limit(t) <= Limit(u) /\ u.Nr = t.Nr
          /\ u.xmit_queue = <<>> <=> t.xmit_queue = <<>>
          /\ u.timeout_handler = t.timeout_handler
      <3> DEFINE s == sent[e]
      <3>1. s \in Seq(Message) /\ k \in Nat /\ k <= Len(s) /\ ChanInv(t, s, k)
        BY <1>1, <2>1
      <3> HIDE DEF s
      <3>2. /\ ChanInv(u, s, k) /\ Limit(t) <= Limit(u) /\ u.Nr = t.Nr
            /\ u.xmit_queue = <<>> <=> t.xmit_queue = <<>>
            /\ u.timeout_handler = t.timeout_handler
        BY ONLY <2>1, <3>1, DropUp
      <3>. QED
        BY <3>2 DEF s
    <2>3. EndState(e, u, sent[e], delivered[e], k)
      <3>1. u.timeout_handler <=> u.xmit_queue # <<>>
        BY <1>1, <2>2
      <3>2. u.Nr = Len(delivered[e])
        BY <1>1, <1>2, <2>2
      <3>. QED
        BY <2>2, <3>1, <3>2, UpEnd
    <2>. QED
      BY <1>4, <1>5, <1>6, <1>7, <2>2, <2>3, StepSame DEF t, k
  <1>8. CASE t.state = "received_stop_ccn"
    <2>1. u = DropOutOfSequence(t, d) /\ Quiet(t)
      BY <1>1, <1>8
    <2> HIDE DEF u, t, k, out
    <2>2. Quiet(u) /\ u.Nr = t.Nr /\ u.timeout_handler = t.timeout_handler
      BY <2>1, DropQuiet
    <2>3. u.xmit_queue = <<>> /\ t.xmit_queue = <<>>
      BY <2>1, <2>2 DEF Quiet
    <2>4. EndState(e, u, sent[e], delivered[e], k) /\ ~Up(u)
      BY <1>1, <1>2, <2>2, <2>3 DEF Quiet, EndState, Up
    <2>. QED
      BY <1>4, <1>5, <1>6, <2>4, StepSame DEF k
  <1>. QED
    BY <1>3, <1>7, <1>8

(* The delayed acknowledgement. *)
LEMMA DoAckOK ==
    ASSUME TransportInv, NEW e \in End, tunnel_do_ack(e)
    PROVE  TransportInv'
  <1> DEFINE c == tunnel[e]
             k == Len(delivered[Peer(e)])
             t == [c EXCEPT !.ack_handler = FALSE]
  <1>1. /\ c \in Tunnel /\ sent[e] \in Seq(Message) /\ k \in Nat
        /\ Len(delivered[e]) \in Nat
        /\ Up(c) => ChanInv(c, sent[e], k)
        /\ c.state = "received_stop_ccn" => Quiet(c)
        /\ c.state # "freed" => c.Nr = Len(delivered[e])
        /\ c.timeout_handler <=> c.xmit_queue # <<>>
        /\ c.state \in {"idle", "freed"} => ~c.ack_handler
        /\ c.state \in TunnelState
    BY EndFacts
  <1>2. c.ack_handler /\ sent' = sent /\ delivered' = delivered
    BY DEF tunnel_do_ack
  <1>3. Up(c) \/ c.state = "received_stop_ccn"
    BY <1>1, <1>2 DEF TunnelState, Up
  <1>4. /\ t \in Tunnel
        /\ t.state = c.state /\ t.Ns = c.Ns /\ t.Ns_on_wire = c.Ns_on_wire
        /\ t.Nr = c.Nr /\ t.peer_Nr = c.peer_Nr /\ t.cwnd = c.cwnd
        /\ t.cwnd_counter = c.cwnd_counter /\ t.peer_rws = c.peer_rws
        /\ t.xmit_queue = c.xmit_queue /\ t.xmit_new = c.xmit_new
        /\ t.timeout_handler = c.timeout_handler
    BY <1>1 DEF Tunnel
  <1>5. \/ /\ NothingNew(t) \/ WindowClosed(t)
           /\ tunnel' = [tunnel EXCEPT ![e] = t]
           /\ net' = net \cup To(e, {tunnel_send_ZLB(t)})
        \/ /\ ~NothingNew(t)
           /\ \E n \in XmitCounts(t) :
                 /\ tunnel' = [tunnel EXCEPT ![e] = tunnel_xmit_queued_messages(t, n)]
                 /\ net' = net \cup To(e, Transmitted(t, n))
    BY DEF tunnel_do_ack
  <1> HIDE DEF t, c, k
  <1>6. Up(c) => ChanInv(t, sent[e], k) /\ Limit(t) = Limit(c)
    BY <1>1, <1>4 DEF ChanInv, Up, WindowOK, ChannelOK, QueueOK, WireOK,
                      WindowBase, Limit
  <1>7. c.state = "received_stop_ccn" => Quiet(t)
    BY <1>1, <1>4 DEF Quiet, WindowOK
  <1>8. Limit(c) \in Nat /\ t.Nr = Len(delivered[e]) /\ t.Ns_on_wire \in Nat
    <2>1. Limit(c) \in Nat
      BY <1>1, LimitType
    <2>2. t.Ns_on_wire \in Nat
      BY <1>4, TunnelFields
    <2>. QED
      BY <1>1, <1>3, <1>4, <2>1, <2>2 DEF Up
  <1>9. ASSUME tunnel' = [tunnel EXCEPT ![e] = t],
               net' = net \cup To(e, {tunnel_send_ZLB(t)})
        PROVE  TransportInv'
    <2> DEFINE out == {tunnel_send_ZLB(t)}
    <2>1. EndState(e, t, sent[e], delivered[e], k)
      <3>1. CASE Up(c)
        BY <1>1, <1>4, <1>6, <1>8, <3>1, UpEnd
      <3>2. CASE c.state = "received_stop_ccn"
        BY <1>1, <1>4, <1>7, <1>8, <3>2 DEF EndState, Quiet, Up
      <3>. QED
        BY <1>3, <3>1, <3>2
    <2>2. Up(t) => Up(c) /\ Limit(c) <= Limit(t)
      BY <1>4, <1>6, <1>8 DEF Up
    <2>3. \A d \in out : OutOK(d, t, sent[e], delivered[e])
      BY <1>1, <1>8 DEF OutOK, tunnel_send_ZLB
    <2>4. net' \subseteq net \cup To(e, out)
      BY <1>9
    <2> HIDE DEF out
    <2>. QED
      BY <1>2, <1>9, <2>1, <2>2, <2>3, <2>4, StepSame DEF c, k
  <1>10. ASSUME ~NothingNew(t), NEW n \in XmitCounts(t),
                tunnel' = [tunnel EXCEPT ![e] = tunnel_xmit_queued_messages(t, n)],
                net' = net \cup To(e, Transmitted(t, n))
         PROVE  TransportInv'
    <2> DEFINE u == tunnel_xmit_queued_messages(t, n)
               out == Transmitted(t, n)
    <2>1. Up(c)
      <3>1. t.xmit_queue = <<>> /\ t.xmit_new = 1 => NothingNew(t)
        BY DEF NothingNew
      <3>. QED
        BY <1>3, <1>7, <1>10, <3>1 DEF Quiet
    <2>2. /\ ChanInv(u, sent[e], k) /\ TimerCovers(u)
          /\ u.xmit_queue = t.xmit_queue /\ u.Nr = t.Nr /\ Limit(u) = Limit(t)
          /\ u.timeout_handler => t.timeout_handler \/ u.xmit_queue # <<>>
          /\ \A d \in out : FrameOK(d, sent[e], t.Nr, Limit(u))
      BY <1>1, <1>6, <1>10, <2>1, XmitStep
    <2>3. tunnel' = [tunnel EXCEPT ![e] = u] /\ net' \subseteq net \cup To(e, out)
      BY <1>10
    <2> HIDE DEF u, out
    <2>4. u.timeout_handler <=> u.xmit_queue # <<>>
      BY <1>1, <1>4, <2>2 DEF TimerCovers
    <2>5. EndState(e, u, sent[e], delivered[e], k)
      BY <1>8, <2>2, <2>4, UpEnd
    <2>6. \A d \in out : OutOK(d, u, sent[e], delivered[e])
      BY <1>1, <1>8, <2>2, FramesOut
    <2>7. Limit(c) <= Limit(u)
      BY <1>6, <1>8, <2>1, <2>2
    <2>. QED
      BY <1>2, <2>1, <2>3, <2>5, <2>6, <2>7, StepSame DEF c, k
  <1>. QED
    BY <1>5, <1>9, <1>10

(* In sequence means the very next message, and what is processed then. *)
LEMMA NextMessage ==
    ASSUME TransportInv, NEW e \in End, NEW d \in net, d.to = e,
           tunnel[e].state \notin {"idle", "freed"},
           Fresh(tunnel[e], d), InSequence(tunnel[e], d)
    PROVE  /\ d \in Datagram /\ d.Nr <= Len(delivered[Peer(e)])
           /\ d.Ns = Len(delivered[e])
           /\ d.msg # "ZLB" =>
                 /\ Append(delivered[e], d.msg) \in Seq(Message)
                 /\ Len(Append(delivered[e], d.msg)) = Len(delivered[e]) + 1
                 /\ Delivers(e, Append(delivered[e], d.msg))
  <1>1. /\ tunnel[e] \in Tunnel /\ delivered[e] \in Seq(Message)
        /\ tunnel[e].Nr = Len(delivered[e])
    BY EndFacts
  <1>2. d \in Datagram /\ DatagramOK(d)
    BY Unfold
  <1>3. d.Nr <= Len(delivered[Peer(e)])
    BY <1>2 DEF DatagramOK
  <1>4. d.Ns = tunnel[e].Nr
    <2> DEFINE a == d.Ns
               b == tunnel[e].Nr
    <2>1. a \in Int /\ b \in Int
      BY <1>1, <1>2, TunnelFields DEF Datagram
    <2>2. a - b < SeqHalf /\ b - a < SeqHalf /\ Bits(a) = Bits(b)
      BY DEF Fresh, InSequence
    <2> HIDE DEF a, b
    <2>3. a - b < SeqMod /\ b - a < SeqMod
      BY <2>1, <2>2, HalfTurn
    <2>4. a = b
      BY <2>1, <2>2, <2>3, SameBits
    <2>. QED
      BY <2>4 DEF a, b
  <1>5. ASSUME d.msg # "ZLB"
        PROVE  /\ Append(delivered[e], d.msg) \in Seq(Message)
               /\ Len(Append(delivered[e], d.msg)) = Len(delivered[e]) + 1
               /\ Delivers(e, Append(delivered[e], d.msg))
    <2>1. d.msg \in Message
      BY <1>2, <1>5 DEF Datagram
    <2>2. Delivers(e, Append(delivered[e], d.msg))
      BY <1>1, <1>4, <1>5, <2>1 DEF Delivers
    <2>. QED
      BY <1>1, <2>1, <2>2, AppendSeq
  <1>. QED
    BY <1>1, <1>2, <1>3, <1>4, <1>5

(* Accepting it on a tunnel that is up. *)
LEMMA AcceptEnd ==
    ASSUME TransportInv, NEW e \in End, NEW d \in net, d.to = e,
           Up(tunnel[e]), Fresh(tunnel[e], d), InSequence(tunnel[e], d),
           NEW a, a = AcceptInSequence(tunnel[e], d)
    PROVE  /\ ChanInv(a, sent[e], Len(delivered[Peer(e)]))
           /\ Limit(tunnel[e]) <= Limit(a)
           /\ a.Nr = IF d.msg = "ZLB" THEN tunnel[e].Nr ELSE tunnel[e].Nr + 1
           /\ a.xmit_queue # <<>> => tunnel[e].xmit_queue # <<>>
           /\ a.timeout_handler = tunnel[e].timeout_handler
  <1> DEFINE t == tunnel[e]
             s == sent[e]
             k == Len(delivered[Peer(e)])
  <1>1. /\ s \in Seq(Message) /\ k \in Nat /\ k <= Len(s)
        /\ Up(t) => ChanInv(t, s, k)
    BY EndFacts
  <1>2. tunnel[e].state \notin {"idle", "freed"}
    BY DEF Up
  <1>3. d \in Datagram /\ d.Nr <= k
    BY <1>2, NextMessage
  <1>4. /\ s \in Seq(Message) /\ k \in Nat /\ ChanInv(t, s, k) /\ k <= Len(s)
        /\ d \in Datagram /\ d.Nr <= k /\ Fresh(t, d)
        /\ a = AcceptInSequence(t, d)
    BY <1>1, <1>3
  <1> HIDE DEF t, s, k
  <1>5. AcceptedOK(t, d, a, s, k)
    BY ONLY <1>4, AcceptUp
  <1>. QED
    BY <1>5 DEF AcceptedOK, t, s, k

(* The state machine's answer to a message, on a tunnel that is up. *)
LEMMA AnswerStep ==
    ASSUME NEW e \in End, NEW t, NEW d, NEW s \in Seq(Message), NEW k \in Nat,
           ChanInv(t, s, k), TimerCovers(t), NEW r \in Answers(e, t, d),
           NEW q, q = IF r = <<>> THEN t ELSE Queue(t, r[1])
    PROVE  /\ s \o r \in Seq(Message) /\ Extends(s, s \o r)
           /\ ChanInv(q, s \o r, k) /\ q.Nr = t.Nr /\ Limit(q) = Limit(t)
           /\ NothingNew(q) => TimerCovers(q)
  <1>1. CASE r = <<>>
    <2>1. s \o r = s
      BY <1>1, ConcatEmptySeq
    <2>. QED
      BY <1>1, <2>1, ExtendsSame
  <1>2. CASE r # <<>>
    <2>1. MayQueue(e, t) /\ \E m \in Request : r = <<m>>
      BY <1>2 DEF Answers
    <2>2. PICK m \in Request : r = <<m>>
      BY <2>1
    <2>3. q = Queue(t, m) /\ Len(t.xmit_queue) < SeqHalf /\ m \in Message
      BY <1>2, <2>1, <2>2 DEF MayQueue, Message
    <2>4. s \o r = Append(s, m)
      BY <2>2, <2>3
    <2>5. ChanInv(q, Append(s, m), k) /\ ~NothingNew(q)
          /\ q.Nr = t.Nr /\ Limit(q) = Limit(t)
      BY <2>3, QueueStep
    <2>6. Append(s, m) \in Seq(Message) /\ Extends(s, Append(s, m))
      BY ExtendsAppend
    <2>. QED
      BY <2>4, <2>5, <2>6
  <1>. QED
    BY <1>1, <1>2

(* A message or a ZLB in sequence. *)
LEMMA ReceiveInSequenceOK ==
    ASSUME TransportInv, NEW e \in End, NEW d \in net, ReceiveInSequence(e, d)
    PROVE  TransportInv'
  <1> DEFINE t == tunnel[e]
             s == sent[e]
             k == Len(delivered[Peer(e)])
             rr == IF d.msg = "ZLB" THEN delivered[e] ELSE Append(delivered[e], d.msg)
             a == AcceptInSequence(t, d)
             Q(p, r) == IF r = <<>> THEN p ELSE Queue(p, r[1])
  <1>1. /\ t \in Tunnel /\ s \in Seq(Message) /\ delivered[e] \in Seq(Message)
        /\ Len(delivered[e]) \in Nat /\ k \in Nat /\ k <= Len(s)
        /\ Up(t) => ChanInv(t, s, k)
        /\ t.state = "received_stop_ccn" => Quiet(t)
        /\ t.state # "freed" => t.Nr = Len(delivered[e])
        /\ t.timeout_handler <=> t.xmit_queue # <<>>
        /\ t.state \in TunnelState
    BY EndFacts
  <1>2. /\ d.to = e /\ t.state \notin {"idle", "freed"}
        /\ Fresh(t, d) /\ InSequence(t, d)
    BY DEF ReceiveInSequence
  <1>3. Up(t) \/ t.state = "received_stop_ccn"
    BY <1>1, <1>2 DEF TunnelState, Up
  <1>4. /\ d \in Datagram /\ d.Nr <= k /\ d.Ns = Len(delivered[e])
        /\ d.msg # "ZLB" =>
              /\ Append(delivered[e], d.msg) \in Seq(Message)
              /\ Len(Append(delivered[e], d.msg)) = Len(delivered[e]) + 1
              /\ Delivers(e, Append(delivered[e], d.msg))
    BY <1>2, NextMessage
  <1>13. PICK p \in Params(a, d) :
            \E r \in Answers(e, p, d) : \E n \in XmitCounts(Q(p, r)) :
               /\ tunnel' = [tunnel EXCEPT ![e] =
                                FinishReceive(tunnel_xmit_queued_messages(Q(p, r), n))]
               /\ Consume(d, To(e, Transmitted(Q(p, r), n)))
               /\ sent' = [sent EXCEPT ![e] = s \o r]
    BY DEF ReceiveInSequence
  <1>12. PICK r \in Answers(e, p, d) :
            \E n \in XmitCounts(Q(p, r)) :
               /\ tunnel' = [tunnel EXCEPT ![e] =
                                FinishReceive(tunnel_xmit_queued_messages(Q(p, r), n))]
               /\ Consume(d, To(e, Transmitted(Q(p, r), n)))
               /\ sent' = [sent EXCEPT ![e] = s \o r]
    BY <1>13
  <1>5. PICK n \in XmitCounts(Q(p, r)) :
            /\ tunnel' = [tunnel EXCEPT ![e] =
                             FinishReceive(tunnel_xmit_queued_messages(Q(p, r), n))]
            /\ Consume(d, To(e, Transmitted(Q(p, r), n)))
            /\ sent' = [sent EXCEPT ![e] = s \o r]
    BY <1>12
  <1>6. delivered' = [delivered EXCEPT ![e] = rr]
    <2>1. delivered \in [End -> Seq(Message)]
      BY DEF TransportInv, TypeOK
    <2>. QED
      BY <2>1 DEF ReceiveInSequence
  <1>7. /\ rr \in Seq(Message) /\ Delivers(e, rr)
        /\ Len(rr) = IF d.msg = "ZLB" THEN t.Nr ELSE t.Nr + 1
    BY <1>1, <1>2, <1>4 DEF Delivers
  <1> DEFINE q == Q(p, r)
             x == tunnel_xmit_queued_messages(q, n)
             u == FinishReceive(x)
             out == Transmitted(q, n)
             s1 == s \o r
  <1>8. /\ tunnel' = [tunnel EXCEPT ![e] = u] /\ net' \subseteq net \cup To(e, out)
        /\ sent' = [sent EXCEPT ![e] = s1]
    BY <1>5 DEF Consume
  <1>9. a = AcceptInSequence(t, d) /\ q = (IF r = <<>> THEN p ELSE Queue(p, r[1]))
        /\ x = tunnel_xmit_queued_messages(q, n) /\ u = FinishReceive(x)
        /\ s1 = s \o r /\ n \in XmitCounts(q) /\ out = Transmitted(q, n)
        /\ (p = a \/ p = tunnel_set_params(a)) /\ r \in Answers(e, p, d)
    BY <1>13 DEF Params
  <1> HIDE DEF t, s, k, rr, a, Q, q, x, u, out, s1
  <1>10. CASE Up(t)
    <2>1. /\ ChanInv(a, s, k) /\ Limit(t) <= Limit(a)
          /\ a.Nr = IF d.msg = "ZLB" THEN t.Nr ELSE t.Nr + 1
          /\ a.xmit_queue # <<>> => t.xmit_queue # <<>>
          /\ a.timeout_handler = t.timeout_handler
      BY <1>2, <1>9, <1>10, AcceptEnd DEF t, s, k
    <2>2. TimerCovers(a)
      BY <1>1, <2>1 DEF TimerCovers
    <2>3. a \in Tunnel /\ WindowOK(a) /\ ChannelOK(a, s, k) /\ Up(a)
      BY <2>1 DEF ChanInv
    <2>4. Limit(t) \in Nat /\ Limit(a) \in Nat
      BY <1>1, <2>3, LimitType
    <2>5. /\ ChanInv(p, s, k) /\ Limit(a) <= Limit(p) /\ p.Nr = a.Nr
          /\ TimerCovers(p) /\ p \in Tunnel
      <3>1. CASE p = a
        BY <2>1, <2>2, <2>3, <2>4, <3>1
      <3>2. CASE p = tunnel_set_params(a)
        <4>1. /\ p \in Tunnel /\ WindowOK(p)
              /\ p.state = a.state /\ p.Nr = a.Nr /\ Limit(a) <= Limit(p)
              /\ p.xmit_queue = a.xmit_queue /\ p.xmit_new = a.xmit_new
              /\ p.timeout_handler = a.timeout_handler
              /\ \A z \in Seq(Message), j \in Nat :
                    ChannelOK(a, z, j) => ChannelOK(p, z, j)
          BY <2>3, <3>2, SetParamsStep
        <4>2. ChannelOK(p, s, k)
          BY <1>1, <2>3, <4>1
        <4>. QED
          BY <2>2, <2>3, <4>1, <4>2 DEF ChanInv, Up, TimerCovers
      <3>. QED
        BY <1>9, <3>1, <3>2
    <2>6. Limit(p) \in Nat
      BY <2>5, LimitType
    <2>7. /\ s1 \in Seq(Message) /\ Extends(s, s1)
          /\ ChanInv(q, s1, k) /\ q.Nr = p.Nr /\ Limit(q) = Limit(p)
          /\ NothingNew(q) => TimerCovers(q)
      BY <1>1, <1>9, <2>5, AnswerStep
    <2>8. /\ ChanInv(x, s1, k) /\ TimerCovers(x)
          /\ x.xmit_queue = q.xmit_queue /\ x.Nr = q.Nr /\ Limit(x) = Limit(q)
          /\ x.timeout_handler => q.timeout_handler \/ x.xmit_queue # <<>>
          /\ \A o \in Transmitted(q, n) : FrameOK(o, s1, q.Nr, Limit(x))
      <3>1. /\ s1 \in Seq(Message) /\ k \in Nat /\ ChanInv(q, s1, k)
            /\ n \in XmitCounts(q) /\ (NothingNew(q) => TimerCovers(q))
            /\ x = tunnel_xmit_queued_messages(q, n)
        BY <1>1, <1>9, <2>7
      <3>. QED
        BY ONLY <3>1, XmitStep
    <2>9. x.Nr = Len(rr) /\ Len(rr) \in Nat
      <3>1. x.Nr = Len(rr)
        BY <1>7, <2>1, <2>5, <2>7, <2>8
      <3>. QED
        BY <1>7, <3>1, LenProperties
    <2>10. EndState(e, u, s1, rr, k) /\ (Up(u) => Limit(u) = Limit(x))
      BY <1>9, <2>8, <2>9, FinishUp
    <2>11. \A o \in out : OutOK(o, u, s1, rr)
      <3>1. q.Nr \in Nat /\ q.Nr = Len(rr)
        BY <2>8, <2>9
      <3>2. Up(u) => Limit(x) = Limit(u)
        BY <2>10
      <3>3. \A o \in out : FrameOK(o, s1, q.Nr, Limit(x))
        BY <1>9, <2>8
      <3>. QED
        BY <3>1, <3>2, <3>3, FramesOut
    <2>12. Up(u) => Limit(t) <= Limit(u)
      BY <2>1, <2>4, <2>5, <2>6, <2>7, <2>8, <2>10
    <2>. QED
      BY <1>6, <1>7, <1>8, <1>10, <2>7, <2>10, <2>11, <2>12, StepOK DEF s, k, t
  <1>11. CASE t.state = "received_stop_ccn"
    <2>1. Quiet(a) /\ a.Nr = IF d.msg = "ZLB" THEN t.Nr ELSE t.Nr + 1
      BY <1>1, <1>4, <1>9, <1>11, AcceptQuiet
    <2>2. Quiet(p) /\ p.Nr = a.Nr
      <3>1. a \in Tunnel /\ WindowOK(a)
        BY <2>1 DEF Quiet
      <3>2. CASE p = tunnel_set_params(a)
        <4>1. /\ p \in Tunnel /\ WindowOK(p)
              /\ p.state = a.state /\ p.Nr = a.Nr /\ Limit(a) <= Limit(p)
              /\ p.xmit_queue = a.xmit_queue /\ p.xmit_new = a.xmit_new
              /\ p.timeout_handler = a.timeout_handler
              /\ \A z \in Seq(Message), j \in Nat :
                    ChannelOK(a, z, j) => ChannelOK(p, z, j)
          BY <3>1, <3>2, SetParamsStep
        <4>. QED
          BY <2>1, <4>1 DEF Quiet
      <3>. QED
        BY <1>9, <2>1, <3>2
    <2>3. r = <<>>
      BY <1>9, <2>2 DEF Answers, Quiet
    <2>4. q = p /\ s1 = s
      BY <1>1, <1>9, <2>3, ConcatEmptySeq
    <2>5. q.xmit_queue = <<>> /\ q.xmit_new = 1
      BY <2>2, <2>4 DEF Quiet
    <2>6. NothingNew(q) /\ n = 0
      BY <1>9, <2>5 DEF NothingNew, XmitCounts
    <2>7. x = q /\ out = {}
      BY <1>9, <2>5, <2>6 DEF tunnel_xmit_queued_messages, Transmitted
    <2>8. x.Nr = Len(rr)
      BY <1>7, <2>1, <2>2, <2>4, <2>7
    <2>9. EndState(e, u, s1, rr, k) /\ ~Up(u)
      BY <1>9, <2>2, <2>4, <2>7, <2>8, FinishQuiet
    <2>10. Extends(s, s1) /\ s1 \in Seq(Message)
      BY <1>1, <2>4, ExtendsSame
    <2>11. \A o \in out : OutOK(o, u, s1, rr)
      BY <2>7
    <2>. QED
      BY <1>6, <1>7, <1>8, <2>9, <2>10, <2>11, StepOK DEF s, k
  <1>. QED
    BY <1>3, <1>10, <1>11

(* StopCCN in sequence. *)
LEMMA ReceiveStopCCNOK ==
    ASSUME TransportInv, NEW e \in End, NEW d \in net, ReceiveStopCCN(e, d)
    PROVE  TransportInv'
  <1> DEFINE t == tunnel[e]
             s == sent[e]
             k == Len(delivered[Peer(e)])
             rr == Append(delivered[e], d.msg)
             a == AcceptInSequence(t, d)
             h == tunnel_handle_StopCCN(a)
             u == FinishReceive(h)
             out == {tunnel_send_ZLB(h)}
  <1>1. /\ t \in Tunnel /\ s \in Seq(Message)
        /\ Len(delivered[e]) \in Nat /\ k \in Nat /\ k <= Len(s)
        /\ Up(t) => ChanInv(t, s, k)
        /\ t.state = "received_stop_ccn" => Quiet(t)
        /\ t.state # "freed" => t.Nr = Len(delivered[e])
        /\ t.state \in TunnelState
    BY EndFacts
  <1>2. /\ d.to = e /\ t.state \notin {"idle", "freed"} /\ d.msg = "StopCCN"
        /\ Fresh(t, d) /\ InSequence(t, d)
    BY DEF ReceiveStopCCN
  <1>3. Up(t) \/ t.state = "received_stop_ccn"
    BY <1>1, <1>2 DEF TunnelState, Up
  <1>4. /\ d \in Datagram /\ d.Nr <= k
        /\ rr \in Seq(Message) /\ Len(rr) = Len(delivered[e]) + 1 /\ Delivers(e, rr)
    <2>1. d.msg # "ZLB"
      BY <1>2
    <2>. QED
      BY <1>2, <2>1, NextMessage
  <1>5. /\ tunnel' = [tunnel EXCEPT ![e] = u] /\ net' \subseteq net \cup To(e, out)
        /\ delivered' = [delivered EXCEPT ![e] = rr] /\ sent' = sent
    BY DEF ReceiveStopCCN, Consume
  <1>6. sent' = [sent EXCEPT ![e] = s]
    <2>1. sent \in [End -> Seq(Message)]
      BY DEF TransportInv, TypeOK
    <2>. QED
      BY <1>5, <2>1
  <1>7. /\ a = AcceptInSequence(t, d) /\ h = tunnel_handle_StopCCN(a)
        /\ u = FinishReceive(h) /\ out = {tunnel_send_ZLB(h)}
    OBVIOUS
  <1> HIDE DEF t, s, k, rr, a, h, u, out
  <1>8. Quiet(h) /\ h.Nr = t.Nr + 1 /\ h.Ns_on_wire \in Nat
    <2>1. CASE Up(t)
      <3>1. s \in Seq(Message) /\ k \in Nat
        BY <1>1
      <3>2. /\ ChanInv(a, s, k) /\ Limit(t) <= Limit(a)
            /\ a.Nr = IF d.msg = "ZLB" THEN t.Nr ELSE t.Nr + 1
            /\ a.xmit_queue # <<>> => t.xmit_queue # <<>>
            /\ a.timeout_handler = t.timeout_handler
        BY <1>2, <1>7, <2>1, AcceptEnd DEF t, s, k
      <3>3. Quiet(h) /\ h.Nr = a.Nr /\ h.Ns_on_wire \in Nat
        BY ONLY <1>7, <3>1, <3>2, StopUp
      <3>. QED
        BY <1>2, <3>2, <3>3
    <2>2. CASE t.state = "received_stop_ccn"
      <3>1. Quiet(t) /\ d \in Datagram /\ a = AcceptInSequence(t, d)
        BY <1>1, <1>4, <1>7, <2>2
      <3>2. Quiet(a) /\ a.Nr = IF d.msg = "ZLB" THEN t.Nr ELSE t.Nr + 1
        BY ONLY <3>1, AcceptQuiet
      <3>3. Quiet(h) /\ h.Nr = a.Nr /\ h.Ns_on_wire \in Nat
        BY ONLY <1>7, <3>2, StopQuiet
      <3>. QED
        BY <1>2, <3>2, <3>3
    <2>. QED
      BY <1>3, <2>1, <2>2
  <1>9. h.Nr = Len(rr) /\ Len(rr) \in Nat
    BY <1>1, <1>2, <1>4, <1>8
  <1>10. EndState(e, u, s, rr, k) /\ ~Up(u)
    BY <1>7, <1>8, <1>9, FinishQuiet
  <1>11. \A o \in out : OutOK(o, u, s, rr)
    BY <1>7, <1>8, <1>9 DEF OutOK, tunnel_send_ZLB
  <1>12. Extends(s, s)
    BY <1>1, ExtendsSame
  <1>. QED
    BY <1>1, <1>4, <1>5, <1>6, <1>10, <1>11, <1>12, StepOK DEF s, k

(* The retransmission timer. *)
LEMMA HandleTimeoutOK ==
    ASSUME TransportInv, NEW e \in End, tunnel_handle_timeout(e)
    PROVE  TransportInv'
  <1> DEFINE t == tunnel[e]
             s == sent[e]
             k == Len(delivered[Peer(e)])
             b == BackToSlowStart(t)
             c == DoubleTimeout(b)
  <1>1. /\ t \in Tunnel /\ s \in Seq(Message)
        /\ Len(delivered[e]) \in Nat /\ k \in Nat
        /\ Up(t) => ChanInv(t, s, k)
        /\ t.state = "received_stop_ccn" => Quiet(t)
        /\ t.state # "freed" => t.Nr = Len(delivered[e])
        /\ t.timeout_handler <=> t.xmit_queue # <<>>
        /\ t.state \in {"idle", "freed"} => t.xmit_queue = <<>>
        /\ t.state \in TunnelState
    BY EndFacts
  <1>2. t.timeout_handler /\ sent' = sent /\ delivered' = delivered
    BY DEF tunnel_handle_timeout
  <1>3. t.xmit_queue # <<>> /\ Up(t) /\ t.state # "freed"
    BY <1>1, <1>2 DEF TunnelState, Up, Quiet
  <1>4. CASE TooManyRetransmissions(b)
    BY <1>2, <1>4, FreeStep DEF tunnel_handle_timeout
  <1>5. CASE ~TooManyRetransmissions(b)
    <2>1. PICK n \in XmitCounts(b) :
              /\ tunnel' = [tunnel EXCEPT ![e] = tunnel_xmit_queued_messages(c, n)]
              /\ net' = net \cup To(e, Transmitted(b, n))
      BY <1>5 DEF tunnel_handle_timeout
    <2> DEFINE u == tunnel_xmit_queued_messages(c, n)
               out == Transmitted(b, n)
    <2>2. /\ tunnel' = [tunnel EXCEPT ![e] = u] /\ net' \subseteq net \cup To(e, out)
          /\ u = tunnel_xmit_queued_messages(c, n) /\ out = Transmitted(b, n)
          /\ c = DoubleTimeout(BackToSlowStart(t)) /\ b = BackToSlowStart(t)
      BY <2>1
    <2> HIDE DEF t, s, k, b, c, u, out
    <2>3. /\ ChanInv(c, s, k) /\ Limit(t) <= Limit(c) /\ ~NothingNew(c)
          /\ c.Nr = t.Nr
          /\ XmitCounts(BackToSlowStart(t)) = XmitCounts(c)
          /\ \A j \in Nat : Transmitted(BackToSlowStart(t), j) = Transmitted(c, j)
      <3>1. /\ s \in Seq(Message) /\ k \in Nat /\ ChanInv(t, s, k)
            /\ t.xmit_queue # <<>> /\ ~TooManyRetransmissions(BackToSlowStart(t))
            /\ c = DoubleTimeout(BackToSlowStart(t))
        BY <1>1, <1>3, <1>5, <2>2
      <3>. QED
        BY ONLY <3>1, TimeoutStep
    <2>4. n \in XmitCounts(c)
      BY <2>1, <2>2, <2>3
    <2>5. c \in Tunnel
      BY <2>3 DEF ChanInv
    <2>6. n \in Nat
      <3>1. Len(c.xmit_queue) \in Nat
        BY <2>5, TunnelFields
      <3>. QED
        BY <2>4, <3>1 DEF XmitCounts
    <2>7. out = Transmitted(c, n)
      BY <2>2, <2>3, <2>6
    <2>8. /\ ChanInv(u, s, k) /\ TimerCovers(u)
          /\ u.xmit_queue = c.xmit_queue /\ u.Nr = c.Nr /\ Limit(u) = Limit(c)
          /\ u.timeout_handler => c.timeout_handler \/ u.xmit_queue # <<>>
          /\ \A d \in Transmitted(c, n) : FrameOK(d, s, c.Nr, Limit(u))
      <3>1. /\ s \in Seq(Message) /\ k \in Nat /\ ChanInv(c, s, k)
            /\ n \in XmitCounts(c) /\ (NothingNew(c) => TimerCovers(c))
            /\ u = tunnel_xmit_queued_messages(c, n)
        BY <1>1, <2>2, <2>3, <2>4
      <3>. QED
        BY ONLY <3>1, XmitStep
    <2>9. u.timeout_handler <=> u.xmit_queue # <<>>
      <3>1. c.xmit_new \in Nat /\ c.xmit_new >= 1
        BY <2>5, TunnelFields
      <3>2. c.xmit_queue # <<>>
        BY <2>3, <3>1 DEF NothingNew
      <3>. QED
        BY <2>8, <3>2 DEF TimerCovers
    <2>10. c.Nr = Len(delivered[e])
      BY <1>1, <1>3, <2>3
    <2>11. EndState(e, u, s, delivered[e], k)
      BY <2>8, <2>9, <2>10, UpEnd
    <2>12. \A d \in out : OutOK(d, u, s, delivered[e])
      <3>1. \A d \in out : FrameOK(d, s, c.Nr, Limit(u))
        BY <2>7, <2>8
      <3>. QED
        BY <1>1, <2>10, <3>1, FramesOut
    <2>13. Limit(t) <= Limit(u)
      BY <2>3, <2>8
    <2>. QED
      BY <1>2, <1>3, <2>2, <2>11, <2>12, <2>13, StepSame DEF t, s, k
  <1>. QED
    BY <1>4, <1>5

(* Losing a datagram only shrinks the network. *)
LEMMA FewerDatagrams ==
    ASSUME TransportInv, net' \subseteq net,
           UNCHANGED <<tunnel, sent, delivered>>
    PROVE  TransportInv'
  <1>1. /\ tunnel \in [End -> Tunnel] /\ net \subseteq Datagram
        /\ sent \in [End -> Seq(Message)] /\ delivered \in [End -> Seq(Message)]
        /\ \A e \in End :
              EndState(e, tunnel[e], sent[e], delivered[e], Len(delivered[Peer(e)]))
        /\ \A d \in net : DatagramOK(d)
    BY Unfold
  <1>2. SCCRQFirst' /\ InOrderDelivery'
    BY DEF TransportInv, SCCRQFirst, InOrderDelivery
  <1>3. \A d \in net' : DatagramOK(d)'
    BY <1>1 DEF DatagramOK, Active, WindowBase
  <1>. QED
    BY <1>1, <1>2, <1>3, Fold

(* A fresh tunnel has an empty queue that is in order. *)
LEMMA FreshTunnel ==
    ASSUME NEW t \in Tunnel, WindowOK(t), t.state = "open",
           t.Ns = 0, t.Ns_on_wire = 0, t.peer_Nr = 0,
           t.xmit_queue = <<>>, t.xmit_new = 1
    PROVE  ChanInv(t, <<>>, 0) /\ Len(t.xmit_queue) < SeqHalf
  <1>1. t.peer_rws \in Nat /\ t.peer_rws >= 1 /\ Len(t.xmit_queue) = 0
    BY TunnelFields
  <1>2. QueueOK(t, <<>>)
    BY <1>1, HalfTurn DEF QueueOK
  <1>3. WireOK(t)
    BY <1>1 DEF WireOK
  <1>4. WindowBase(t) = 0 /\ 0 <= 0 + t.peer_rws
    BY <1>1 DEF WindowBase
  <1>5. ChannelOK(t, <<>>, 0)
    BY <1>2, <1>3, <1>4 DEF ChannelOK
  <1>. QED
    BY <1>1, <1>5, HalfTurn DEF ChanInv, Up

(* SCCRQ: the tunnel of the LNS comes into being. *)
LEMMA HandleSCCRQOK ==
    ASSUME TransportInv, NEW d \in net, HandleSCCRQ(d)
    PROVE  TransportInv'
  <1> DEFINE e == "lns"
             k == Len(delivered[Peer(e)])
             r == <<"SCCRQ">>
  <1>1. CASE tunnel[e].state # "idle"
    <2>1. net' \subseteq net /\ UNCHANGED <<tunnel, sent, delivered>>
      BY <1>1 DEF HandleSCCRQ
    <2>. QED
      BY <2>1, FewerDatagrams
  <1>2. CASE tunnel[e].state = "idle"
    <2>0. PICK m \in {"SCCRP", "StopCCN"} :
             LET t == Queue(TunnelForSCCRQ(m), m)
             IN  /\ \E n \in XmitCounts(t) :
                       /\ tunnel' = [tunnel EXCEPT ![e] = tunnel_xmit_queued_messages(t, n)]
                       /\ Consume(d, To(e, Transmitted(t, n)))
                 /\ sent' = [sent EXCEPT ![e] = <<m>>]
      BY <1>2 DEF HandleSCCRQ
    <2> DEFINE c == TunnelForSCCRQ(m)
               t == Queue(c, m)
               s == <<m>>
    <2>1. PICK n \in XmitCounts(t) :
              /\ tunnel' = [tunnel EXCEPT ![e] = tunnel_xmit_queued_messages(t, n)]
              /\ Consume(d, To(e, Transmitted(t, n)))
      BY <2>0
    <2>2. /\ sent' = [sent EXCEPT ![e] = s] /\ delivered' = [delivered EXCEPT ![e] = r]
          /\ d.to = e /\ d.msg = "SCCRQ"
      BY <1>2, <2>0 DEF HandleSCCRQ
    <2>3. e \in End /\ Peer(e) = "lac"
      BY DEF End, Peer
    <2>4. sent[e] = <<>> /\ delivered[e] = <<>>
      BY <1>2, <2>3 DEF TransportInv, EndOK
    <2>5. k = 0
      <3>1. k \in Nat /\ k <= Len(sent[e])
        BY <2>3, EndFacts
      <3>. QED
        BY <2>4, <3>1
    <2>6. /\ c \in Tunnel /\ WindowOK(c) /\ c.state = "open" /\ c.Nr = 1
          /\ c.Ns = 0 /\ c.Ns_on_wire = 0 /\ c.peer_Nr = 0
          /\ c.xmit_queue = <<>> /\ c.xmit_new = 1
      <3> DEFINE a == tunnel_new("open")
                 b == IF m = "SCCRP" THEN tunnel_set_params(a) ELSE a
      <3>1. /\ a \in Tunnel /\ WindowOK(a) /\ a.state = "open"
            /\ a.Ns = 0 /\ a.Ns_on_wire = 0 /\ a.peer_Nr = 0
            /\ a.xmit_queue = <<>> /\ a.xmit_new = 1
        BY NewTunnel DEF TunnelState
      <3>2. b = a \/ b = [a EXCEPT !.peer_rws = Rws, !.ssthresh = Rws]
        BY DEF tunnel_set_params
      <3>3. b \in Tunnel /\ WindowOK(b)
        <4> HIDE DEF a
        <4>1. b = a \/ b = tunnel_set_params(a)
          OBVIOUS
        <4> HIDE DEF b
        <4>. QED
          BY <3>1, <4>1, SetParamsStep
      <3> HIDE DEF a
      <3>4. /\ b.state = "open" /\ b.Ns = 0 /\ b.Ns_on_wire = 0 /\ b.peer_Nr = 0
            /\ b.xmit_queue = <<>> /\ b.xmit_new = 1
        BY <3>1, <3>2 DEF Tunnel
      <3>5. c = [b EXCEPT !.Nr = 1]
        BY DEF a, TunnelForSCCRQ
      <3> HIDE DEF b, c
      <3>. QED
        BY <3>3, <3>4, <3>5 DEF Tunnel, WindowOK
    <2> HIDE DEF c
    <2>7. ChanInv(c, <<>>, 0) /\ Len(c.xmit_queue) < SeqHalf
      BY <2>6, FreshTunnel
    <2>8. t = Queue(c, m)
      OBVIOUS
    <2> DEFINE u == tunnel_xmit_queued_messages(t, n)
               out == Transmitted(t, n)
    <2>9. /\ tunnel' = [tunnel EXCEPT ![e] = u]
          /\ net' \subseteq net \cup To(e, out)
          /\ u = tunnel_xmit_queued_messages(t, n) /\ out = Transmitted(t, n)
      BY <2>1 DEF Consume
    <2> HIDE DEF t, u, out
    <2>10. /\ <<>> \in Seq(Message) /\ s = Append(<<>>, m) /\ 0 \in Nat
           /\ s \in Seq(Message) /\ r \in Seq(Message) /\ m \in Message
           /\ Len(s) = 1 /\ Len(r) = 1 /\ s[1] = m
      BY <2>0 DEF Message, Request
    <2>11. ChanInv(t, s, 0) /\ ~NothingNew(t) /\ t.Nr = c.Nr
      <3> DEFINE z == <<>>
      <3>1. /\ z \in Seq(Message) /\ 0 \in Nat /\ m \in Message
            /\ ChanInv(c, z, 0) /\ Len(c.xmit_queue) < SeqHalf
            /\ t = Queue(c, m) /\ s = Append(z, m)
        BY <2>7, <2>8, <2>10
      <3> HIDE DEF z, s
      <3>2. /\ ChanInv(t, Append(z, m), 0) /\ ~NothingNew(t)
            /\ t.Nr = c.Nr /\ Limit(t) = Limit(c)
        BY ONLY <3>1, QueueStep
      <3>. QED
        BY <3>1, <3>2
    <2>12. Extends(sent[e], s)
      <3>1. \A i \in 1 .. 1 : i = 1
        OBVIOUS
      <3>. QED
        BY <2>4, <2>10, <3>1 DEF Extends
    <2>13. Delivers(e, r)
      <3>1. d \in Datagram /\ DatagramOK(d)
        BY Unfold
      <3>2. Peer(d.to) = "lac" /\ "lac" \in End
        BY <2>2, <2>3 DEF End
      <3>3. d.Ns < Len(sent["lac"]) /\ sent["lac"][d.Ns + 1] = "SCCRQ"
        BY <2>2, <3>1, <3>2 DEF DatagramOK
      <3>4. d.Ns \in Nat /\ Len(sent["lac"]) \in Nat
        <4>1. sent["lac"] \in Seq(Message)
          BY <3>2, EndFacts
        <4>. QED
          BY <3>1, <4>1, LenProperties DEF Datagram
      <3>5. d.Ns + 1 \in 1 .. Len(sent["lac"])
        BY <3>3, <3>4
      <3>6. d.Ns + 1 = 1
        BY <3>2, <3>3, <3>5 DEF TransportInv, SCCRQFirst
      <3>7. d.Ns = 0
        BY <3>4, <3>6
      <3>8. r = Append(delivered[e], d.msg) /\ Len(delivered[e]) = 0
        BY <2>2, <2>4
      <3>. QED
        BY <2>2, <2>10, <3>7, <3>8 DEF Delivers, Message
    <2> HIDE DEF s, r
    <2>14. /\ ChanInv(u, s, 0) /\ TimerCovers(u)
           /\ u.xmit_queue = t.xmit_queue /\ u.Nr = t.Nr /\ Limit(u) = Limit(t)
           /\ u.timeout_handler => t.timeout_handler \/ u.xmit_queue # <<>>
           /\ \A o \in out : FrameOK(o, s, t.Nr, Limit(u))
      <3>1. /\ s \in Seq(Message) /\ 0 \in Nat /\ ChanInv(t, s, 0)
            /\ n \in XmitCounts(t) /\ (NothingNew(t) => TimerCovers(t))
            /\ u = tunnel_xmit_queued_messages(t, n)
        BY <2>1, <2>9, <2>10, <2>11
      <3>2. /\ ChanInv(u, s, 0) /\ TimerCovers(u)
            /\ u.xmit_queue = t.xmit_queue /\ u.Nr = t.Nr /\ Limit(u) = Limit(t)
            /\ u.timeout_handler => t.timeout_handler \/ u.xmit_queue # <<>>
            /\ \A o \in Transmitted(t, n) : FrameOK(o, s, t.Nr, Limit(u))
        BY ONLY <3>1, XmitStep
      <3>. QED
        BY <2>9, <3>2
    <2>15. u.timeout_handler <=> u.xmit_queue # <<>>
      <3>1. t \in Tunnel
        BY <2>11 DEF ChanInv
      <3>2. t.xmit_new \in Nat /\ t.xmit_new >= 1
        BY <3>1, TunnelFields
      <3>3. t.xmit_queue # <<>>
        BY <2>11, <3>2 DEF NothingNew
      <3>. QED
        BY <2>14, <3>3 DEF TimerCovers
    <2>16. u.Nr = Len(r) /\ t.Nr = Len(r)
      BY <2>6, <2>10, <2>11, <2>14
    <2>17. EndState(e, u, s, r, k)
      BY <2>5, <2>14, <2>15, <2>16, UpEnd
    <2>18. \A o \in out : OutOK(o, u, s, r)
      BY <2>10, <2>14, <2>16, FramesOut
    <2> HIDE DEF e
    <2>. QED
      BY <2>2, <2>3, <2>4, <2>9, <2>10, <2>12, <2>13, <2>17, <2>18, StepOK
  <1>. QED
    BY <1>1, <1>2

-----------------------------------------------------------------------------
(* The SCCRQ that tunnel_establish queues and sends is in order. *)
LEMMA InitOK == Init => TransportInv
  <1> SUFFICES ASSUME Init PROVE TransportInv
    OBVIOUS
  <1> DEFINE c == tunnel_new("open")
             t == tunnel_enqueue_dgram(c, "SCCRQ")
             i == tunnel_new("idle")
             s == <<"SCCRQ">>
             z == <<>>
  <1>12. PICK n \in XmitCounts(t) :
            /\ tunnel = [e \in End |-> IF e = "lac"
                            THEN tunnel_xmit_queued_messages(t, n) ELSE i]
            /\ net = To("lac", Transmitted(t, n))
    BY DEF Init
  <1> DEFINE u == tunnel_xmit_queued_messages(t, n)
  <1>1. /\ tunnel = [e \in End |-> IF e = "lac" THEN u ELSE i]
        /\ net = To("lac", Transmitted(t, n))
        /\ sent = [e \in End |-> IF e = "lac" THEN s ELSE <<>>]
        /\ delivered = [e \in End |-> <<>>]
    BY <1>12 DEF Init
  <1>2. /\ c \in Tunnel /\ WindowOK(c) /\ c.state = "open"
        /\ c.Nr = 0 /\ c.Ns = 0 /\ c.Ns_on_wire = 0 /\ c.peer_Nr = 0
        /\ c.xmit_queue = <<>> /\ c.xmit_new = 1
    BY NewTunnel DEF TunnelState
  <1>3. /\ i \in Tunnel /\ WindowOK(i) /\ i.state = "idle" /\ i.Nr = 0
        /\ i.xmit_queue = <<>> /\ ~i.timeout_handler
    BY NewTunnel DEF TunnelState
  <1>4. /\ z \in Seq(Message) /\ 0 \in Nat /\ "SCCRQ" \in Message
        /\ s = Append(z, "SCCRQ") /\ s \in Seq(Message)
        /\ Len(s) = 1 /\ s[1] = "SCCRQ" /\ Len(z) = 0
    BY DEF Message
  <1>5. c.cwnd = 1
    BY DEF tunnel_new
  <1>6. t = [c EXCEPT !.xmit_queue = Append(c.xmit_queue, [Ns |-> c.Ns, msg |-> "SCCRQ"]),
                      !.Ns = c.Ns + 1]
    BY DEF tunnel_enqueue_dgram
  <1>7. t = Queue(c, "SCCRQ")
    BY DEF Queue
  <1>8. i = tunnel_new("idle")
    OBVIOUS
  <1> HIDE DEF c, i
  <1>9. /\ t.xmit_new = 1 /\ t.cwnd = 1 /\ t.Ns_on_wire = 0 /\ t.peer_Nr = 0
        /\ Len(t.xmit_queue) = 1
    <2>1. /\ t.xmit_new = 1 /\ t.cwnd = 1 /\ t.Ns_on_wire = 0 /\ t.peer_Nr = 0
          /\ t.xmit_queue = Append(c.xmit_queue, [Ns |-> c.Ns, msg |-> "SCCRQ"])
      BY <1>2, <1>5, <1>6 DEF Tunnel
    <2>2. \A x : Len(Append(<<>>, x)) = 1
      OBVIOUS
    <2>3. Len(t.xmit_queue) = 1
      BY <1>2, <2>1, <2>2
    <2>. QED
      BY <2>1, <2>3
  <1>10. ChanInv(c, z, 0) /\ Len(c.xmit_queue) < SeqHalf
    BY <1>2, FreshTunnel
  <1> HIDE DEF t, z, s
  <1>11. ChanInv(t, s, 0) /\ ~NothingNew(t) /\ t.Nr = 0
    <2>1. /\ z \in Seq(Message) /\ 0 \in Nat /\ "SCCRQ" \in Message
          /\ ChanInv(c, z, 0) /\ Len(c.xmit_queue) < SeqHalf
          /\ t = Queue(c, "SCCRQ")
      BY <1>4, <1>7, <1>10
    <2>2. /\ ChanInv(t, Append(z, "SCCRQ"), 0) /\ ~NothingNew(t)
          /\ t.Nr = c.Nr /\ Limit(t) = Limit(c)
      BY ONLY <2>1, QueueStep
    <2>. QED
      BY <1>2, <1>4, <2>2
  <1>13. u = tunnel_xmit_queued_messages(t, n)
    BY DEF t
  <1> HIDE DEF u
  <1>14. /\ ChanInv(u, s, 0) /\ TimerCovers(u)
         /\ u.xmit_queue = t.xmit_queue /\ u.Nr = t.Nr /\ Limit(u) = Limit(t)
         /\ u.timeout_handler => t.timeout_handler \/ u.xmit_queue # <<>>
         /\ \A d \in Transmitted(t, n) : FrameOK(d, s, t.Nr, Limit(u))
    <2>1. /\ s \in Seq(Message) /\ 0 \in Nat /\ ChanInv(t, s, 0)
          /\ n \in XmitCounts(t) /\ (NothingNew(t) => TimerCovers(t))
          /\ u = tunnel_xmit_queued_messages(t, n)
      BY <1>4, <1>11, <1>12, <1>13
    <2>. QED
      BY ONLY <2>1, XmitStep
  <1>15. EndState("lac", u, s, z, 0)
    <2>1. u.xmit_queue # <<>>
      <3>1. Len(u.xmit_queue) = 1
        BY <1>9, <1>14
      <3>. QED
        BY <3>1
    <2>2. u.timeout_handler <=> u.xmit_queue # <<>>
      BY <1>14, <2>1 DEF TimerCovers
    <2>3. u.Nr = Len(z)
      BY <1>4, <1>11, <1>14
    <2>. QED
      BY <1>14, <2>2, <2>3, UpEnd
  <1>16. EndState("lns", i, z, z, 0)
    BY <1>3, <1>4, <1>8 DEF EndState, Up, z
  <1>17. /\ tunnel["lac"] = u /\ tunnel["lns"] = i /\ sent["lac"] = s
         /\ sent["lns"] = z /\ delivered["lac"] = z /\ delivered["lns"] = z
         /\ Peer("lac") = "lns" /\ Peer("lns") = "lac" /\ End = {"lac", "lns"}
    BY <1>1 DEF End, Peer, z
  <1>18. u \in Tunnel
    BY <1>14 DEF ChanInv
  <1>19. ASSUME NEW d \in net PROVE d \in Datagram /\ DatagramOK(d)
    <2>1. PICK o \in Transmitted(t, n) :
              d = [to |-> "lns", Ns |-> o.Ns, Nr |-> o.Nr, msg |-> o.msg]
      BY <1>1, <1>17 DEF To
    <2>2. FrameOK(o, s, 0, Limit(u))
      BY <1>11, <1>14
    <2>3. /\ o.Nr = 0 /\ o.Ns \in Nat /\ o.Ns < 1 /\ o.Ns < Limit(u)
          /\ o.msg = s[o.Ns + 1]
      BY <1>4, <2>2 DEF FrameOK
    <2>4. o.Ns = 0 /\ o.msg = "SCCRQ"
      BY <1>4, <2>3
    <2>5. d.to = "lns" /\ d.Ns = 0 /\ d.Nr = 0 /\ d.msg = "SCCRQ"
      BY <2>1, <2>3, <2>4
    <2>6. d \in Datagram
      BY <1>4, <1>17, <2>1, <2>3, <2>4 DEF Datagram
    <2>7. 0 < Limit(u)
      BY <2>3, <2>4
    <2>. QED
      BY <1>4, <1>17, <2>5, <2>6, <2>7 DEF DatagramOK, Limit
  <1>20. TypeOK
    <2>1. tunnel \in [End -> Tunnel]
      BY <1>1, <1>3, <1>18
    <2>2. sent \in [End -> Seq(Message)] /\ delivered \in [End -> Seq(Message)]
      BY <1>1, <1>4 DEF z
    <2>. QED
      BY <1>19, <2>1, <2>2 DEF TypeOK
  <1>21. EndOK("lac") /\ EndOK("lns")
    BY <1>4, <1>15, <1>16, <1>17 DEF EndOK, EndState, Active, Up, z
  <1>22. SCCRQFirst
    <2>1. s # <<>> /\ \A j \in 1 .. Len(s) : j = 1
      BY <1>4
    <2>2. \A j \in 1 .. Len(z) : FALSE
      BY <1>4
    <2>. QED
      BY <1>4, <1>17, <2>1, <2>2 DEF SCCRQFirst
  <1>23. InOrderDelivery
    <2>1. \A j \in 1 .. Len(z) : FALSE
      BY <1>4
    <2>. QED
      BY <1>4, <1>17, <2>1 DEF InOrderDelivery
  <1>24. TimerIffUnacked
    BY <1>15, <1>16, <1>17 DEF TimerIffUnacked, EndState
  <1>. QED
    BY <1>17, <1>19, <1>20, <1>21, <1>22, <1>23, <1>24 DEF TransportInv

(* Every step of the transport preserves TransportInv. *)
LEMMA NextOK == TransportInv /\ [Next]_vars => TransportInv'
  <1> SUFFICES ASSUME TransportInv, [Next]_vars PROVE TransportInv'
    OBVIOUS
  <1>1. ASSUME NEW e \in End, NEW m \in Request, XmitControlMessage(e, m)
        PROVE  TransportInv'
    BY <1>1, XmitControlMessageOK
  <1>2. ASSUME NEW e \in End, NEW d \in net, ReceiveOutOfSequence(e, d)
        PROVE  TransportInv'
    BY <1>2, ReceiveOutOfSequenceOK
  <1>3. ASSUME NEW e \in End, NEW d \in net, ReceiveInSequence(e, d)
        PROVE  TransportInv'
    BY <1>3, ReceiveInSequenceOK
  <1>4. ASSUME NEW e \in End, NEW d \in net, ReceiveStopCCN(e, d)
        PROVE  TransportInv'
    BY <1>4, ReceiveStopCCNOK
  <1>5. ASSUME NEW e \in End, tunnel_do_ack(e)
        PROVE  TransportInv'
    BY <1>5, DoAckOK
  <1>6. ASSUME NEW e \in End, tunnel_handle_timeout(e)
        PROVE  TransportInv'
    BY <1>6, HandleTimeoutOK
  <1>7. ASSUME NEW e \in End, tunnel_finally_cleanup(e)
        PROVE  TransportInv'
    BY <1>7, FreeStep DEF tunnel_finally_cleanup
  <1>8. ASSUME NEW d \in net, HandleSCCRQ(d)
        PROVE  TransportInv'
    BY <1>8, HandleSCCRQOK
  <1>9. ASSUME NEW d \in net, Lose(d)
        PROVE  TransportInv'
    BY <1>9, FewerDatagrams DEF Lose
  <1>10. CASE UNCHANGED vars
    BY <1>10, FewerDatagrams DEF vars
  <1>. QED
    BY <1>1, <1>2, <1>3, <1>4, <1>5, <1>6, <1>7, <1>8, <1>9, <1>10 DEF Next

(* TransportInv is an invariant of the control transport: whatever the     *)
(* network loses, duplicates or reorders, and whenever timers fire.        *)
THEOREM TransportSafety == Spec => []TransportInv
  BY InitOK, NextOK, PTL DEF Spec

(* The two tunnels, the network and the histories keep their types: in     *)
(* particular cwnd and ssthresh stay between 1 and the receive window, and *)
(* the retransmission counter below its limit.                             *)
THEOREM TypeCorrect == Spec => []TypeOK
  <1>1. TransportInv => TypeOK
    BY DEF TransportInv
  <1>. QED
    BY <1>1, TransportSafety, PTL

(* Each end processes the messages of its peer once and in order.          *)
THEOREM DeliveryInOrder == Spec => []InOrderDelivery
  <1>1. TransportInv => InOrderDelivery
    BY DEF TransportInv
  <1>. QED
    BY <1>1, TransportSafety, PTL

(* No message leaves the transmit queue of tunnel.c as acknowledged before *)
(* the peer has processed it.                                              *)
THEOREM NothingDequeuedEarly == Spec => []NoEarlyDequeue
  <1>1. TransportInv => NoEarlyDequeue
    <2> SUFFICES ASSUME TransportInv, NEW e \in End, Active(e)
                 PROVE  Len(sent[e]) - Len(tunnel[e].xmit_queue)
                            <= Len(delivered[Peer(e)])
      BY DEF NoEarlyDequeue
    <2> DEFINE P == tunnel[e].peer_Nr
               L == Len(tunnel[e].xmit_queue)
               S == Len(sent[e])
               k == Len(delivered[Peer(e)])
    <2>1. ChanInv(tunnel[e], sent[e], k) /\ k \in Nat /\ tunnel[e] \in Tunnel
      BY EndFacts DEF Active, Up
    <2>2. P \in Nat /\ L \in Nat
      BY <2>1, TunnelFields
    <2>3. P + L = S /\ P <= k
      BY <2>1 DEF ChanInv, ChannelOK, QueueOK
    <2> HIDE DEF P, L, S, k
    <2>4. S - L <= k
      BY <2>1, <2>2, <2>3
    <2>. QED
      BY <2>4 DEF S, L, k
  <1>. QED
    BY <1>1, TransportSafety, PTL

(* The retransmission timer runs exactly while a message is unacknowledged. *)
THEOREM TimerWhileUnacked == Spec => []TimerIffUnacked
  <1>1. TransportInv => TimerIffUnacked
    BY DEF TransportInv
  <1>. QED
    BY <1>1, TransportSafety, PTL

(* The sender never goes beyond the receive window its peer announced. *)
THEOREM ReceiveWindowRespected == Spec => []FlowControl
  <1>1. TransportInv => FlowControl
    <2> SUFFICES ASSUME TransportInv, NEW d \in net, d.msg # "ZLB",
                        Active(Peer(d.to))
                 PROVE  d.Ns < tunnel[Peer(d.to)].peer_Nr
                                   + tunnel[Peer(d.to)].peer_rws
      BY DEF FlowControl
    <2> DEFINE t == tunnel[Peer(d.to)]
    <2>1. d \in Datagram /\ d.Ns < WindowBase(t) + t.peer_rws
      BY Unfold DEF DatagramOK
    <2>2. Peer(d.to) \in End /\ d.Ns \in Nat
      BY <2>1 DEF Datagram, End, Peer
    <2>3. t \in Tunnel
      BY <2>2, Unfold
    <2> HIDE DEF t
    <2>4. t.Ns_on_wire \in Nat /\ t.peer_Nr \in Nat /\ t.peer_rws \in Nat
      BY <2>3, TunnelFields
    <2>5. WindowBase(t) \in Nat /\ WindowBase(t) <= t.peer_Nr
      BY <2>4 DEF WindowBase
    <2>6. d.Ns < t.peer_Nr + t.peer_rws
      BY <2>1, <2>2, <2>4, <2>5
    <2>. QED
      BY <2>6 DEF t
  <1>. QED
    BY <1>1, TransportSafety, PTL
=============================================================================

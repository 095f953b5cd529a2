--------------------------- MODULE LinuxTimerProofs ---------------------------
(***************************************************************************)
(* OnePlaceUnlessLost, TimerForTop and NeverEarlyUnlessDisturbed for any   *)
(* events, times and number of periodic timers.                            *)
(*                                                                         *)
(* The inductive invariant adds where the event in the main program's      *)
(* hands is at each point that SIGALRM may interrupt, that a periodic      *)
(* timer is on the queue or has its callback running, and, while the       *)
(* handler runs a callback, that what is left on the queue is not early    *)
(* counted from now.  A second one, Accounted, rests on it and says that   *)
(* no event is missing but those in lost, and which of these are still on  *)
(* the free list while the main program has read it.                       *)
(***************************************************************************)
EXTENDS LinuxTimer, FiniteSetTheorems, SequenceTheorems, WellFoundedInduction, TLAPS

MainStates ==
    [pc : {"start", "select", "process", "create", "settime", "stop",
           "cancelled", "recycle"},
     event : Event \cup {NULL}, list : Seq(Event)]

TimerTypes ==
    /\ it_value \in [Event -> Nat] /\ it_interval \in [Event -> 0..MaxTime]
    /\ flags \in [Event -> SUBSET {"CANCELLED", "DELETED"}]
    /\ itimer \in Nat /\ pending \in BOOLEAN /\ masked \in BOOLEAN
    /\ main \in MainStates /\ due \in [Event -> 0..MaxTime]
    /\ halted \in {"no", "null", "assert", "exit"} /\ disturbed \in BOOLEAN

(* The queue q, the free list fl and the handler's event a are apart; f    *)
(* are the flags.                                                          *)
Apart(q, fl, a, f) ==
    /\ q \in Seq(Event) /\ fl \in Seq(Event) /\ a \in Event \cup {NULL}
    /\ IsInjective(q) /\ IsInjective(fl) /\ ToSet(q) \cap ToSet(fl) = {}
    /\ a \notin ToSet(q) \cup ToSet(fl)
    /\ \A e \in ToSet(q) \cup ({a} \ {NULL}) : f[e] = {}

(* The event that the main program has read from the free list is still    *)
(* on it; one that it has taken off it, or off the queue, is nowhere else; *)
(* the list to which it will return one is still a part of the free list.  *)
HandsOK(m, q, fl, a, f) ==
    /\ m.pc = "create" => m.event \in ToSet(fl)
    /\ m.pc \in {"create", "settime"} => f[m.event] = {}
    /\ m.pc \in {"settime", "cancelled", "recycle"} =>
          m.event \in Event /\ m.event \notin ToSet(q) \cup ToSet(fl) \cup {a}
    /\ m.pc = "recycle" => IsInjective(m.list) /\ ToSet(m.list) \subseteq ToSet(fl)

(* The periodic timers are on the queue or have their callback running. *)
PeriodicsOK(ts, q, a, interval) ==
    /\ ts \in Seq(Event) /\ IsInjective(ts) /\ Len(ts) <= Periodics
    /\ \A e \in ToSet(ts) : interval[e] > 0 /\ e \in ToSet(q) \cup {a}

(* TimerForTop of queue q, it_values v, handler's event a, time left t. *)
TopOK(q, v, a, t, p) ==
    q # <<>> /\ a = NULL => t <= v[Head(q)] /\ (t > 0 \/ p)

(* No event of queue q is due later than its it_values v have it go off. *)
OnTime(q, v, d) == \A k \in 1..Len(q) : d[q[k]] <= Sums(v, q)[k]

(* The it_values with the time t that is left on the timer at the top. *)
Left(q, v, t) == IF q = <<>> THEN v ELSE [v EXCEPT ![Head(q)] = t]

(* NeverEarlyUnlessDisturbed, and what it needs: a signal that waits was   *)
(* sent when the timer ran out; the timer is off while the handler runs.   *)
NotEarly(q, v, a, t, p, d) ==
    /\ a = NULL => /\ p \/ t > 0 => q # <<>>
                   /\ p => t = 0 /\ d[Head(q)] = 0
                   /\ OnTime(q, Left(q, v, t), d)
    /\ a # NULL => t = 0 /\ ~p /\ d[a] = 0 /\ OnTime(q, v, d)

(* The times c and d are the same for the events S. *)
SameOn(S, c, d) == \A x \in S : c[x] = d[x]

(* Sequence z is q with e linked in after the n-th. *)
IsLinkedIn(z, q, n, e) ==
    /\ Len(z) = Len(q) + 1 /\ z[n + 1] = e
    /\ \A i \in 1..n : z[i] = q[i]
    /\ \A i \in (n + 2)..(Len(q) + 1) : z[i] = q[i - 1]

(* S adds up the it_values v of q. *)
IsSum(S, v, q) ==
    /\ S \in [0..Len(q) -> Nat] /\ S[0] = 0
    /\ \A k \in 1..Len(q) : S[k] = S[k - 1] + v[q[k]]

(* A adds up the numbers a and B the numbers b, which are those of a with  *)
(* t - A[n] put in after the n-th and taken off the next.                  *)
Shifted(l, n, t, a, b, A, B) ==
    /\ l \in Nat /\ n \in 0..l /\ t \in Nat
    /\ a \in [1..l -> Nat] /\ b \in [1..(l + 1) -> Nat]
    /\ A \in [0..l -> Nat] /\ A[0] = 0 /\ \A k \in 1..l : A[k] = A[k - 1] + a[k]
    /\ B \in [0..(l + 1) -> Nat] /\ B[0] = 0 /\ \A k \in 1..(l + 1) : B[k] = B[k - 1] + b[k]
    /\ \A k \in 1..n : b[k] = a[k]
    /\ b[n + 1] = t - A[n] /\ (n < l => b[n + 2] = a[n + 1] - (t - A[n]))
    /\ \A k \in (n + 3)..(l + 1) : b[k] = a[k - 1]

(* Then B is A with t put in after the n-th. *)
ShiftedSums(l, n, t, A, B) ==
    /\ \A k \in 0..n : B[k] = A[k]
    /\ B[n + 1] = t
    /\ \A k \in (n + 2)..(l + 1) : B[k] = A[k - 1]

(* Insert puts e behind the n-th event of q, and that makes z and w.       *)
PlacedAt(n, z, w, v, q, e, t) ==
    /\ Sums(v, q)[n] <= t /\ (n < Len(q) => t < Sums(v, q)[n + 1])
    /\ z = InsertAt(q, n + 1, e)
    /\ w = [x \in Event |-> IF x = e THEN t - Sums(v, q)[n]
                            ELSE IF n < Len(q) /\ x = q[n + 1]
                                 THEN v[x] - (t - Sums(v, q)[n]) ELSE v[x]]

(* Queue z and it_values w are q and v with e, to go off after t: the      *)
(* first event and its it_value stay unless e is the first.                *)
InsertedOK(z, w, v, q, e, t) ==
    /\ z \in Seq(Event) /\ w \in [Event -> Nat]
    /\ IsInjective(z) /\ ToSet(z) = ToSet(q) \cup {e} /\ z # <<>>
    /\ \/ Head(z) = e /\ w[e] = t
       \/ q # <<>> /\ Head(z) = Head(q) /\ Head(q) # e /\ w[Head(q)] = v[Head(q)]

(* Queue p is queue q from its o-th event on, perhaps without its last     *)
(* ones, and no it_value is less; what is left out goes off at once.       *)
Later(p, v, q, w, o) ==
    /\ v \in [Event -> Nat] /\ w \in [Event -> Nat] /\ p \in Seq(Event) /\ q \in Seq(Event)
    /\ o \in Nat /\ Len(p) + o <= Len(q) /\ Sums(w, q)[o] = 0
    /\ \A i \in 1..Len(p) : p[i] = q[i + o] /\ w[p[i]] <= v[p[i]]

(* The events off the lists, with main program m and handler's event a. *)
Hands(m, a) ==
    ({a} \ {NULL}) \cup {e \in {m.event} : m.pc \in {"settime", "cancelled", "recycle"}}

(* Every event is on queue q, on free list fl, in hand or in l, which are  *)
(* apart, but that the events of l are still on the free list while the    *)
(* main program has read it: those before the event that timer_create      *)
(* takes, or those that are not on the list that timer_delete writes back. *)
Places(m, q, fl, a, l) ==
    /\ l \subseteq Event
    /\ Event \subseteq ToSet(q) \cup ToSet(fl) \cup Hands(m, a) \cup l
    /\ l \cap (ToSet(q) \cup Hands(m, a)) = {}
    /\ m.pc \notin {"create", "recycle"} => l \cap ToSet(fl) = {}
    /\ m.pc = "create" =>
          \A j, k \in 1..Len(fl) : fl[k] = m.event => (fl[j] \in l <=> j < k)
    /\ m.pc = "recycle" => \A e \in ToSet(fl) : e \in l <=> e \notin ToSet(m.list)

Accounted == Places(main, event_queue, event_freelist, alarm, lost)

TimerInv ==
    /\ TimerTypes
    /\ Apart(event_queue, event_freelist, alarm, flags)
    /\ HandsOK(main, event_queue, event_freelist, alarm, flags)
    /\ PeriodicsOK(tds, event_queue, alarm, it_interval)
    /\ TopOK(event_queue, it_value, alarm, itimer, pending)
    /\ ~disturbed => halted # "null"
                     /\ NotEarly(event_queue, it_value, alarm, itimer, pending, due)

-----------------------------------------------------------------------------
(* Lists. *)

(* Every non-empty set of naturals has a least element. *)
LEMMA LeastNatural ==
    ASSUME NEW T, T \subseteq Nat, T # {}
    PROVE  \E x \in T : \A y \in T : x <= y
  <1>1. IsWellFoundedOn(OpToRel(<, Nat), Nat)
    BY NatLessThanWellFounded
  <1>2. PICK x \in T : \A y \in T : ~(<<y, x>> \in OpToRel(<, Nat))
    BY <1>1, WFMin
  <1>3. \A y \in T : y < x => <<y, x>> \in OpToRel(<, Nat)
    BY DEF OpToRel
  <1>4. \A y \in T : ~(y < x)
    BY <1>2, <1>3
  <1>5. x \in Nat /\ \A y \in T : y \in Nat
    OBVIOUS
  <1>6. \A y \in T : x <= y
    BY <1>4, <1>5
  <1>. QED
    BY <1>6

(* One more at the end of a list. *)
LEMMA AtTheEnd ==
    ASSUME NEW S, NEW w \in Seq(S), NEW x \in S
    PROVE  /\ Append(w, x) \in Seq(S)
           /\ ToSet(Append(w, x)) = ToSet(w) \cup {x}
           /\ IsInjective(w) /\ x \notin ToSet(w) => IsInjective(Append(w, x))
  <1>1. /\ Append(w, x) \in Seq(S) /\ Len(w) \in Nat /\ DOMAIN w = 1..Len(w)
        /\ DOMAIN Append(w, x) = 1..(Len(w) + 1)
        /\ \A i \in 1..Len(w) : Append(w, x)[i] = w[i]
        /\ Append(w, x)[Len(w) + 1] = x
    OBVIOUS
  <1>2. ToSet(Append(w, x)) = ToSet(w) \cup {x}
    <2>1. ToSet(Append(w, x)) \subseteq ToSet(w) \cup {x}
      BY <1>1 DEF ToSet
    <2>2. ASSUME NEW y \in ToSet(w) PROVE y \in ToSet(Append(w, x))
      <3>1. PICK i \in 1..Len(w) : y = w[i]
        BY <1>1, <2>2 DEF ToSet
      <3>2. i \in 1..(Len(w) + 1) /\ Append(w, x)[i] = y
        BY <1>1, <3>1
      <3>. QED
        BY <1>1, <3>2 DEF ToSet
    <2>3. x \in ToSet(Append(w, x))
      <3>1. Len(w) + 1 \in 1..(Len(w) + 1)
        BY <1>1
      <3>. QED
        BY <1>1, <3>1 DEF ToSet
    <2>. QED
      BY <2>1, <2>2, <2>3
  <1>3. ASSUME IsInjective(w), x \notin ToSet(w) PROVE IsInjective(Append(w, x))
    <2>1. \A i \in 1..Len(w) : w[i] # x
      BY <1>1, <1>3 DEF ToSet
    <2>. QED
      BY <1>1, <1>3, <2>1 DEF IsInjective
  <1>. QED
    BY <1>1, <1>2, <1>3

(* One more at the front. *)
LEMMA AtTheFront ==
    ASSUME NEW S, NEW w \in Seq(S), NEW x \in S
    PROVE  /\ <<x>> \o w \in Seq(S)
           /\ ToSet(<<x>> \o w) = ToSet(w) \cup {x}
           /\ IsInjective(w) /\ x \notin ToSet(w) => IsInjective(<<x>> \o w)
  <1> DEFINE v == <<x>> \o w
  <1>1. /\ v \in Seq(S) /\ Len(w) \in Nat /\ DOMAIN w = 1..Len(w)
        /\ DOMAIN v = 1..(Len(w) + 1) /\ v[1] = x
        /\ \A i \in 1..Len(w) : v[i + 1] = w[i]
        /\ \A i \in 2..(Len(w) + 1) : v[i] = w[i - 1]
    OBVIOUS
  <1> HIDE DEF v
  <1>2. ToSet(v) = ToSet(w) \cup {x}
    <2>1. ASSUME NEW i \in 1..(Len(w) + 1) PROVE v[i] \in ToSet(w) \cup {x}
      <3>1. CASE i = 1
        BY <1>1, <3>1
      <3>2. CASE i # 1
        <4>1. v[i] = w[i - 1] /\ i - 1 \in 1..Len(w)
          BY <1>1, <3>2
        <4>. QED
          BY <1>1, <4>1 DEF ToSet
      <3>. QED
        BY <3>1, <3>2
    <2>2. ASSUME NEW y \in ToSet(w) PROVE y \in ToSet(v)
      <3>1. PICK i \in 1..Len(w) : y = w[i]
        BY <1>1, <2>2 DEF ToSet
      <3>2. i + 1 \in 1..(Len(w) + 1) /\ v[i + 1] = y
        BY <1>1, <3>1
      <3>. QED
        BY <1>1, <3>2 DEF ToSet
    <2>3. x \in ToSet(v)
      <3>1. 1 \in 1..(Len(w) + 1)
        BY <1>1
      <3>. QED
        BY <1>1, <3>1 DEF ToSet
    <2>. QED
      <3>1. ToSet(v) = {v[i] : i \in 1..(Len(w) + 1)}
        BY <1>1 DEF ToSet
      <3>2. ToSet(v) \subseteq ToSet(w) \cup {x}
        BY <2>1, <3>1
      <3>. QED
        BY <2>2, <2>3, <3>2
  <1>3. ASSUME IsInjective(w), x \notin ToSet(w) PROVE IsInjective(v)
    <2>1. \A i \in 1..Len(w) : w[i] # x
      BY <1>1, <1>3 DEF ToSet
    <2>2. ASSUME NEW i \in 1..(Len(w) + 1), NEW j \in 1..(Len(w) + 1), v[i] = v[j]
          PROVE  i = j
      <3>1. CASE i = 1 \/ j = 1
        BY <1>1, <2>1, <2>2, <3>1
      <3>2. CASE i # 1 /\ j # 1
        <4>1. i - 1 \in 1..Len(w) /\ j - 1 \in 1..Len(w) /\ w[i - 1] = w[j - 1]
          BY <1>1, <2>2, <3>2
        <4>2. i - 1 = j - 1
          BY <1>1, <1>3, <4>1 DEF IsInjective
        <4>. QED
          BY <4>2
      <3>. QED
        BY <3>1, <3>2
    <2>. QED
      BY <1>1, <2>2 DEF IsInjective
  <1>. QED
    BY <1>1, <1>2, <1>3 DEF v

(* A walk goes on to the next, and will not come back to the first. *)
LEMMA TheRest ==
    ASSUME NEW S, NEW w \in Seq(S), w # <<>>, IsInjective(w)
    PROVE  /\ Tail(w) \in Seq(S) /\ IsInjective(Tail(w))
           /\ ToSet(Tail(w)) = ToSet(w) \ {Head(w)} /\ Head(w) \in ToSet(w)
  <1> DEFINE v == Tail(w)
  <1>1. /\ v \in Seq(S) /\ Len(w) \in Nat /\ Len(w) >= 1 /\ DOMAIN w = 1..Len(w)
        /\ DOMAIN v = 1..(Len(w) - 1) /\ Head(w) = w[1]
        /\ \A i \in 1..(Len(w) - 1) : v[i] = w[i + 1]
        /\ \A i \in 2..Len(w) : v[i - 1] = w[i]
    OBVIOUS
  <1> HIDE DEF v
  <1>2. IsInjective(v)
    <2>1. ASSUME NEW i \in 1..(Len(w) - 1), NEW j \in 1..(Len(w) - 1), v[i] = v[j]
          PROVE  i = j
      <3>1. w[i + 1] = w[j + 1] /\ i + 1 \in 1..Len(w) /\ j + 1 \in 1..Len(w)
        BY <1>1, <2>1
      <3>2. i + 1 = j + 1
        BY <1>1, <3>1 DEF IsInjective
      <3>. QED
        BY <3>2
    <2>. QED
      BY <1>1, <2>1 DEF IsInjective
  <1>3. ToSet(v) \subseteq ToSet(w) \ {Head(w)}
    <2>1. ASSUME NEW i \in 1..(Len(w) - 1) PROVE v[i] \in ToSet(w) \ {Head(w)}
      <3>1. i + 1 \in 1..Len(w) /\ v[i] = w[i + 1] /\ i + 1 # 1 /\ 1 \in 1..Len(w)
        BY <1>1
      <3>2. w[i + 1] # w[1]
        BY <1>1, <3>1 DEF IsInjective
      <3>. QED
        BY <1>1, <3>1, <3>2 DEF ToSet
    <2>. QED
      BY <1>1, <2>1 DEF ToSet
  <1>4. ToSet(w) \ {Head(w)} \subseteq ToSet(v)
    <2>1. ASSUME NEW y \in ToSet(w), y # Head(w) PROVE y \in ToSet(v)
      <3>1. PICK i \in 1..Len(w) : y = w[i]
        BY <1>1, <2>1 DEF ToSet
      <3>2. i - 1 \in 1..(Len(w) - 1) /\ v[i - 1] = y
        BY <1>1, <2>1, <3>1
      <3>. QED
        BY <1>1, <3>2 DEF ToSet
    <2>. QED
      BY <2>1
  <1>5. Head(w) \in ToSet(w)
    BY <1>1 DEF ToSet
  <1>. QED
    BY <1>1, <1>2, <1>3, <1>4, <1>5 DEF v

(* Induction up to n, with a set for the induction hypothesis. *)
LEMMA Upwards ==
    ASSUME NEW n \in Nat, NEW T, 0 \in T, \A k \in 1..n : k - 1 \in T => k \in T
    PROVE  \A k \in 0..n : k \in T
  <1> DEFINE M == (0..n) \ T
  <1>1. M = {}
    <2> SUFFICES ASSUME M # {} PROVE FALSE
      OBVIOUS
    <2>1. PICK x \in M : \A y \in M : x <= y
      <3>1. M \subseteq Nat
        OBVIOUS
      <3> HIDE DEF M
      <3>. QED
        BY <3>1, LeastNatural
    <2>2. x \in 1..n /\ x - 1 \in 0..n /\ ~(x <= x - 1)
      BY <2>1
    <2>3. x - 1 \in T
      BY <2>1, <2>2
    <2>. QED
      BY <2>1, <2>2, <2>3
  <1>. QED
    BY <1>1

(* An event that is linked in after the n-th. *)
LEMMA LinkedIn ==
    ASSUME NEW S, NEW q \in Seq(S), NEW n \in 0..Len(q), NEW e \in S
    PROVE  InsertAt(q, n + 1, e) \in Seq(S) /\ IsLinkedIn(InsertAt(q, n + 1, e), q, n, e)
  <1> DEFINE a == SubSeq(q, 1, n)
             b == SubSeq(q, n + 1, Len(q))
  <1>0. Len(q) \in Nat /\ n \in Int /\ n + 1 \in Int
    OBVIOUS
  <1>1. a \in Seq(S) /\ Len(a) = n /\ \A i \in 1..n : a[i] = q[i]
    <2>1. \A i \in 1..n : q[i] \in S
      OBVIOUS
    <2>. QED
      BY <1>0, <2>1, SubSeqProperties
  <1>2. b \in Seq(S) /\ Len(b) = Len(q) - n /\ \A i \in 1..(Len(q) - n) : b[i] = q[n + i]
    <2>1. \A i \in (n + 1)..Len(q) : q[i] \in S
      OBVIOUS
    <2>. QED
      BY <1>0, <2>1, SubSeqProperties
  <1>3. InsertAt(q, n + 1, e) = a \o <<e>> \o b
    <2>1. (n + 1) - 1 = n
      BY <1>0
    <2>. QED
      BY <2>1 DEF InsertAt
  <1> HIDE DEF a, b
  <1> DEFINE c == a \o <<e>>
  <1>4. c \in Seq(S) /\ Len(c) = n + 1 /\ (\A i \in 1..n : c[i] = a[i]) /\ c[n + 1] = e
    BY <1>0, <1>1
  <1> HIDE DEF c
  <1> DEFINE d == c \o b
  <1>5. /\ d \in Seq(S) /\ Len(d) = Len(q) + 1 /\ \A i \in 1..(n + 1) : d[i] = c[i]
        /\ \A i \in (n + 2)..(Len(q) + 1) : d[i] = b[i - (n + 1)]
    <2>0. c \in Seq(S) /\ b \in Seq(S)
      BY <1>2, <1>4
    <2>1. /\ d \in Seq(S) /\ Len(d) = Len(c) + Len(b)
          /\ \A i \in 1..Len(c) : d[i] = c[i]
          /\ \A i \in (Len(c) + 1)..(Len(c) + Len(b)) : d[i] = b[i - Len(c)]
      BY <2>0
    <2>2. Len(c) = n + 1 /\ Len(b) = Len(q) - n /\ Len(c) + 1 = n + 2
      BY <1>0, <1>2, <1>4
    <2>3. (n + 1) + (Len(q) - n) = Len(q) + 1
      BY <1>0
    <2>. QED
      BY <2>1, <2>2, <2>3
  <1>6. \A i \in (n + 2)..(Len(q) + 1) : b[i - (n + 1)] = q[i - 1]
    BY <1>0, <1>2
  <1>7. InsertAt(q, n + 1, e) = d
    BY <1>3 DEF c
  <1> HIDE DEF d
  <1>. QED
    BY <1>0, <1>1, <1>4, <1>5, <1>6, <1>7 DEF IsLinkedIn

(* It is linked in once. *)
LEMMA LinkedOnce ==
    ASSUME NEW S, NEW q \in Seq(S), NEW n \in 0..Len(q), NEW e \in S,
           IsInjective(q), e \notin ToSet(q)
    PROVE  /\ ToSet(InsertAt(q, n + 1, e)) = ToSet(q) \cup {e}
           /\ IsInjective(InsertAt(q, n + 1, e))
  <1> DEFINE z == InsertAt(q, n + 1, e)
  <1>1. /\ z \in Seq(S) /\ Len(z) = Len(q) + 1
        /\ \A i \in 1..n : z[i] = q[i]
        /\ z[n + 1] = e
        /\ \A i \in (n + 2)..(Len(q) + 1) : z[i] = q[i - 1]
    <2>1. z \in Seq(S) /\ IsLinkedIn(z, q, n, e)
      BY LinkedIn
    <2> HIDE DEF z
    <2>. QED
      BY <2>1 DEF IsLinkedIn
  <1> HIDE DEF z
  <1>2. Len(q) \in Nat /\ DOMAIN q = 1..Len(q) /\ DOMAIN z = 1..(Len(q) + 1) /\ n \in Nat
    BY <1>1
  <1>3. \A i \in 1..(Len(q) + 1) : i # n + 1 =>
            \E j \in 1..Len(q) : z[i] = q[j] /\ j = IF i <= n THEN i ELSE i - 1
    BY <1>1, <1>2
  <1>4. ToSet(z) \subseteq ToSet(q) \cup {e}
    <2>1. \A i \in 1..(Len(q) + 1) : z[i] \in ToSet(q) \cup {e}
      BY <1>1, <1>2, <1>3 DEF ToSet
    <2>. QED
      BY <1>2, <2>1 DEF ToSet
  <1>5. \A j \in 1..Len(q) : \E i \in 1..(Len(q) + 1) : z[i] = q[j]
    <2>1. ASSUME NEW j \in 1..Len(q) PROVE \E i \in 1..(Len(q) + 1) : z[i] = q[j]
      <3>1. CASE j <= n
        BY <1>1, <1>2, <3>1
      <3>2. CASE j > n
        <4>1. j + 1 \in (n + 2)..(Len(q) + 1) /\ (j + 1) - 1 = j /\ j + 1 \in 1..(Len(q) + 1)
          BY <1>2, <3>2
        <4>2. z[j + 1] = q[j]
          BY <1>1, <4>1
        <4>. QED
          BY <4>1, <4>2
      <3>. QED
        BY <1>2, <3>1, <3>2
    <2>. QED
      BY <2>1
  <1>6. ToSet(q) \cup {e} \subseteq ToSet(z)
    <2>1. \A j \in 1..Len(q) : q[j] \in ToSet(z)
      BY <1>2, <1>5 DEF ToSet
    <2>2. n + 1 \in 1..(Len(q) + 1)
      BY <1>2
    <2>3. e \in ToSet(z)
      BY <1>1, <1>2, <2>2 DEF ToSet
    <2>. QED
      BY <1>2, <2>1, <2>3 DEF ToSet
  <1>7. \A j \in 1..Len(q) : q[j] # e
    BY <1>2 DEF ToSet
  <1>8. ASSUME NEW i \in 1..(Len(q) + 1), NEW j \in 1..(Len(q) + 1), z[i] = z[j] PROVE i = j
    <2>1. CASE i = n + 1 \/ j = n + 1
      BY <1>1, <1>3, <1>7, <1>8, <2>1
    <2>2. CASE i # n + 1 /\ j # n + 1
      <3>1. PICK k \in 1..Len(q) : z[i] = q[k] /\ k = IF i <= n THEN i ELSE i - 1
        BY <1>3, <2>2
      <3>2. PICK l \in 1..Len(q) : z[j] = q[l] /\ l = IF j <= n THEN j ELSE j - 1
        BY <1>3, <2>2
      <3>3. k = l
        BY <1>2, <1>8, <3>1, <3>2 DEF IsInjective
      <3>. QED
        BY <1>2, <2>2, <3>1, <3>2, <3>3
    <2>. QED
      BY <2>1, <2>2
  <1>9. IsInjective(z)
    BY <1>2, <1>8 DEF IsInjective
  <1>. QED
    BY <1>4, <1>6, <1>9 DEF z

(* The k-th is linked out. *)
LEMMA LinkedOut ==
    ASSUME NEW S, NEW q \in Seq(S), NEW k \in 1..Len(q), IsInjective(q)
    PROVE  /\ RemoveAt(q, k) \in Seq(S) /\ Len(RemoveAt(q, k)) = Len(q) - 1
           /\ \A i \in 1..(k - 1) : RemoveAt(q, k)[i] = q[i]
           /\ ToSet(RemoveAt(q, k)) = ToSet(q) \ {q[k]}
           /\ IsInjective(RemoveAt(q, k))
  <1> DEFINE a == SubSeq(q, 1, k - 1)
             b == SubSeq(q, k + 1, Len(q))
  <1>0. Len(q) \in Nat /\ k \in Int /\ k - 1 \in Int /\ k + 1 \in Int
    OBVIOUS
  <1>1. a \in Seq(S) /\ Len(a) = k - 1 /\ \A i \in 1..(k - 1) : a[i] = q[i]
    <2>1. \A i \in 1..(k - 1) : q[i] \in S
      OBVIOUS
    <2>. QED
      BY <1>0, <2>1, SubSeqProperties
  <1>2. b \in Seq(S) /\ Len(b) = Len(q) - k /\ \A i \in 1..(Len(q) - k) : b[i] = q[k + i]
    <2>1. \A i \in (k + 1)..Len(q) : q[i] \in S
      OBVIOUS
    <2>. QED
      BY <1>0, <2>1, SubSeqProperties
  <1>3. RemoveAt(q, k) = a \o b
    BY DEF RemoveAt
  <1> HIDE DEF a, b
  <1>z. PICK m : m = k - 1
    OBVIOUS
  <1> DEFINE d == a \o b
  <1>4. /\ d \in Seq(S) /\ Len(d) = Len(q) - 1 /\ \A i \in 1..(k - 1) : d[i] = a[i]
        /\ \A i \in k..(Len(q) - 1) : d[i] = b[i - (k - 1)]
    <2>1. m \in Nat /\ m < Len(q) /\ k = m + 1 /\ Len(a) = m /\ Len(b) = Len(q) - (m + 1)
      BY <1>z, <1>0, <1>1, <1>2
    <2>2. /\ d \in Seq(S) /\ Len(d) = Len(a) + Len(b)
          /\ \A i \in 1..(Len(a) + Len(b)) : d[i] = IF i <= Len(a) THEN a[i] ELSE b[i - Len(a)]
      BY <1>1, <1>2, ConcatProperties
    <2> HIDE DEF d
    <2>3. Len(a) + Len(b) = Len(q) - 1
      BY <1>0, <2>1
    <2>4. \A i \in 1..(k - 1) : d[i] = a[i]
      <3>1. ASSUME NEW i \in 1..(k - 1) PROVE d[i] = a[i]
        <4>1. i \in 1..(Len(a) + Len(b)) /\ i <= Len(a)
          BY <1>0, <2>1, <2>3
        <4>. QED
          BY <2>2, <4>1
      <3>. QED
        BY <3>1
    <2>5. \A i \in k..(Len(q) - 1) : d[i] = b[i - (k - 1)]
      <3>1. ASSUME NEW i \in k..(Len(q) - 1) PROVE d[i] = b[i - (k - 1)]
        <4>1. i \in 1..(Len(a) + Len(b)) /\ ~(i <= Len(a)) /\ i - Len(a) = i - (k - 1)
          BY <1>0, <2>1, <2>3
        <4>. QED
          BY <2>2, <4>1
      <3>. QED
        BY <3>1
    <2>. QED
      BY <2>2, <2>3, <2>4, <2>5
  <1>5. \A i \in k..(Len(q) - 1) : b[i - (k - 1)] = q[i + 1]
    <2>1. ASSUME NEW i \in k..(Len(q) - 1) PROVE b[i - (k - 1)] = q[i + 1]
      <3>1. i - (k - 1) \in 1..(Len(q) - k) /\ k + (i - (k - 1)) = i + 1
        BY <1>0
      <3>. QED
        BY <1>2, <3>1
    <2>. QED
      BY <2>1
  <1>6. RemoveAt(q, k) = d
    BY <1>3
  <1> HIDE DEF d
  <1>7. /\ DOMAIN d = 1..(Len(q) - 1) /\ DOMAIN q = 1..Len(q)
        /\ \A i \in 1..(Len(q) - 1) : d[i] = IF i < k THEN q[i] ELSE q[i + 1]
    <2>1. DOMAIN d = 1..(Len(q) - 1) /\ DOMAIN q = 1..Len(q)
      BY <1>4
    <2>2. ASSUME NEW i \in 1..(Len(q) - 1), i < k PROVE d[i] = q[i]
      BY <1>0, <1>1, <1>4, <2>2
    <2>3. ASSUME NEW i \in 1..(Len(q) - 1), ~(i < k) PROVE d[i] = q[i + 1]
      <3>1. i \in k..(Len(q) - 1)
        BY <1>0, <2>3
      <3>. QED
        BY <1>4, <1>5, <3>1
    <2>. QED
      BY <2>1, <2>2, <2>3
  <1>8. ASSUME NEW i \in 1..(Len(q) - 1), NEW j \in 1..(Len(q) - 1), d[i] = d[j] PROVE i = j
    <2>1. PICK l \in 1..Len(q) : d[i] = q[l] /\ l = IF i < k THEN i ELSE i + 1
      BY <1>0, <1>7
    <2>2. PICK r \in 1..Len(q) : d[j] = q[r] /\ r = IF j < k THEN j ELSE j + 1
      BY <1>0, <1>7
    <2>3. l = r
      BY <1>7, <1>8, <2>1, <2>2 DEF IsInjective
    <2>. QED
      BY <1>0, <2>1, <2>2, <2>3
  <1>9. IsInjective(d)
    BY <1>7, <1>8 DEF IsInjective
  <1>10. ToSet(d) \subseteq ToSet(q) \ {q[k]}
    <2>1. ASSUME NEW i \in 1..(Len(q) - 1) PROVE d[i] \in ToSet(q) \ {q[k]}
      <3>1. PICK l \in 1..Len(q) : d[i] = q[l] /\ l = IF i < k THEN i ELSE i + 1
        BY <1>0, <1>7
      <3>2. l # k
        BY <1>0, <3>1
      <3>3. q[l] # q[k]
        BY <1>7, <3>2 DEF IsInjective
      <3>. QED
        BY <1>7, <3>1, <3>3 DEF ToSet
    <2>. QED
      BY <1>7, <2>1 DEF ToSet
  <1>11. ToSet(q) \ {q[k]} \subseteq ToSet(d)
    <2>1. ASSUME NEW j \in 1..Len(q), j # k PROVE q[j] \in ToSet(d)
      <3>1. CASE j < k
        <4>1. j \in 1..(Len(q) - 1) /\ d[j] = q[j]
          BY <1>0, <1>7, <3>1
        <4>. QED
          BY <1>7, <4>1 DEF ToSet
      <3>2. CASE j > k
        <4>1. j - 1 \in 1..(Len(q) - 1) /\ ~(j - 1 < k) /\ (j - 1) + 1 = j
          BY <1>0, <3>2
        <4>2. d[j - 1] = q[j]
          BY <1>7, <4>1
        <4>. QED
          BY <1>7, <4>1, <4>2 DEF ToSet
      <3>. QED
        BY <1>0, <2>1, <3>1, <3>2
    <2>. QED
      BY <1>7, <2>1 DEF ToSet
  <1>. QED
    BY <1>1, <1>4, <1>6, <1>9, <1>10, <1>11

-----------------------------------------------------------------------------
(* The times of the queue. *)

(* Sums adds up the it_values. *)
LEMMA SumsType ==
    ASSUME NEW v \in [Event -> Nat], NEW q \in Seq(Event)
    PROVE  IsSum(Sums(v, q), v, q)
  <1> DEFINE n == Len(q)
             Run(m, g) == g[0] = 0 /\ \A i \in 1..m : g[i] = g[i - 1] + v[q[i]]
             T == {m \in Nat : \E g \in [0..m -> Nat] : Run(m, g)}
             Eq(g) == g = [k \in 0..n |-> IF k = 0 THEN 0 ELSE g[k - 1] + v[q[k]]]
             run == CHOOSE g : Eq(g)
  <1>0. n \in Nat /\ \A i \in 1..n : v[q[i]] \in Nat
    OBVIOUS
  <1>1. Sums(v, q) = run
    BY DEF Sums
  <1> HIDE DEF n
  <1>2. 0 \in T
    <2>1. [i \in 0..0 |-> 0] \in [0..0 -> Nat] /\ Run(0, [i \in 0..0 |-> 0])
      OBVIOUS
    <2>. QED
      BY <2>1
  <1>3. ASSUME NEW k \in 1..n, k - 1 \in T PROVE k \in T
    <2>1. PICK g \in [0..(k - 1) -> Nat] : Run(k - 1, g)
      BY <1>3
    <2> DEFINE h == [i \in 0..k |-> IF i = k THEN g[k - 1] + v[q[k]] ELSE g[i]]
    <2>2. h \in [0..k -> Nat]
      BY <1>0, <2>1
    <2>3. Run(k, h)
      <3>0. k \in Nat /\ k >= 1 /\ 0 \in 0..k /\ k # 0
        BY <1>0
      <3>1. h[0] = 0
        BY <2>1, <3>0
      <3>2. ASSUME NEW i \in 1..k PROVE h[i] = h[i - 1] + v[q[i]]
        <4>1. i \in 0..k /\ i - 1 \in 0..k /\ i - 1 # k
          BY <3>0
        <4>2. h[i - 1] = g[i - 1]
          BY <4>1
        <4>3. CASE i = k
          BY <4>1, <4>2, <4>3
        <4>4. CASE i # k
          <5>1. i \in 1..(k - 1)
            BY <3>0, <4>4
          <5>2. h[i] = g[i]
            BY <4>1, <4>4
          <5>. QED
            BY <2>1, <4>2, <5>1, <5>2
        <4>. QED
          BY <4>3, <4>4
      <3>. QED
        BY <3>1, <3>2
    <2>4. k \in Nat
      BY <1>0
    <2> HIDE DEF h, Run
    <2>. QED
      BY <2>2, <2>3, <2>4
  <1>4. n \in T
    <2> HIDE DEF T
    <2>1. \A k \in 1..n : k - 1 \in T => k \in T
      BY <1>3
    <2>2. \A k \in 0..n : k \in T
      BY <1>0, <1>2, <2>1, Upwards
    <2>. QED
      BY <1>0, <2>2
  <1>5. PICK g \in [0..n -> Nat] : Run(n, g)
    BY <1>4
  <1>6. Eq(g)
    BY <1>0, <1>5
  <1>7. Eq(run)
    BY <1>6
  <1>8. run = [k \in 0..n |-> IF k = 0 THEN 0 ELSE run[k - 1] + v[q[k]]]
    BY <1>7
  <1> HIDE DEF run
  <1>9. run[0] = 0 /\ \A k \in 1..n : run[k] = run[k - 1] + v[q[k]]
    BY <1>0, <1>8
  <1>10. \A k \in 0..n : run[k] \in Nat
    <2> DEFINE G == {k \in Nat : run[k] \in Nat}
    <2>1. 0 \in G
      BY <1>9
    <2>2. ASSUME NEW k \in 1..n, k - 1 \in G PROVE k \in G
      <3>1. run[k - 1] \in Nat /\ run[k] = run[k - 1] + v[q[k]] /\ v[q[k]] \in Nat /\ k \in Nat
        BY <1>0, <1>9, <2>2
      <3>. QED
        BY <3>1
    <2> HIDE DEF G
    <2>3. \A k \in 0..n : k \in G
      BY <1>0, <2>1, <2>2, Upwards
    <2>. QED
      BY <2>3 DEF G
  <1>11. run \in [0..n -> Nat]
    BY <1>8, <1>10
  <1>12. IsSum(run, v, q)
    BY <1>9, <1>11 DEF n, IsSum
  <1>. QED
    BY <1>1, <1>12

(* One number put in among others moves no sum but its own. *)
LEMMA SumsShift ==
    \A l, n, t, a, b, A, B : Shifted(l, n, t, a, b, A, B) => ShiftedSums(l, n, t, A, B)
  <1>1. ASSUME NEW l, NEW n, NEW t, NEW a, NEW b, NEW A, NEW B, Shifted(l, n, t, a, b, A, B)
        PROVE  ShiftedSums(l, n, t, A, B)
    <2>1. /\ l \in Nat /\ n \in 0..l /\ t \in Nat
          /\ a \in [1..l -> Nat] /\ b \in [1..(l + 1) -> Nat]
      BY <1>1 DEF Shifted
    <2>2. A \in [0..l -> Nat] /\ A[0] = 0 /\ \A k \in 1..l : A[k] = A[k - 1] + a[k]
      BY <1>1 DEF Shifted
    <2>3. B \in [0..(l + 1) -> Nat] /\ B[0] = 0 /\ \A k \in 1..(l + 1) : B[k] = B[k - 1] + b[k]
      BY <1>1 DEF Shifted
    <2>4. \A k \in 1..n : b[k] = a[k]
      BY <1>1 DEF Shifted
    <2>5. b[n + 1] = t - A[n] /\ (n < l => b[n + 2] = a[n + 1] - (t - A[n]))
      BY <1>1 DEF Shifted
    <2>6. \A k \in (n + 3)..(l + 1) : b[k] = a[k - 1]
      BY <1>1 DEF Shifted
    <2>7. \A k \in 0..n : B[k] = A[k]
      <3> DEFINE T == {k \in Nat : B[k] = A[k]}
      <3>1. 0 \in T
        BY <2>2, <2>3
      <3>2. ASSUME NEW k \in 1..n, k - 1 \in T PROVE k \in T
        <4>1. k \in 1..l /\ k \in 1..(l + 1) /\ k \in Nat
          BY <2>1
        <4>2. B[k] = B[k - 1] + b[k] /\ A[k] = A[k - 1] + a[k] /\ b[k] = a[k] /\ B[k - 1] = A[k - 1]
          BY <2>2, <2>3, <2>4, <3>2, <4>1
        <4>. QED
          BY <4>1, <4>2
      <3>3. n \in Nat
        BY <2>1
      <3> HIDE DEF T
      <3>4. \A k \in 1..n : k - 1 \in T => k \in T
        BY <3>2
      <3>5. \A k \in 0..n : k \in T
        BY <3>1, <3>3, <3>4, Upwards
      <3>. QED
        BY <3>5 DEF T
    <2>8. B[n + 1] = t
      <3>1. n + 1 \in 1..(l + 1) /\ (n + 1) - 1 = n /\ n \in 0..n
        BY <2>1
      <3>2. B[n + 1] = B[n] + b[n + 1] /\ B[n] = A[n]
        BY <2>3, <2>7, <3>1
      <3>3. A[n] \in Nat
        BY <2>1, <2>2
      <3>. QED
        BY <2>1, <2>5, <3>2, <3>3
    <2>9. ASSUME n < l PROVE B[n + 2] = A[n + 1]
      <3>1. n + 2 \in 1..(l + 1) /\ (n + 2) - 1 = n + 1 /\ n + 1 \in 1..l /\ (n + 1) - 1 = n
        BY <2>1, <2>9
      <3>2. B[n + 2] = B[n + 1] + b[n + 2] /\ A[n + 1] = A[n] + a[n + 1]
        BY <2>2, <2>3, <3>1
      <3>3. A[n] \in Nat /\ a[n + 1] \in Nat
        BY <2>1, <2>2, <3>1
      <3>4. b[n + 2] = a[n + 1] - (t - A[n])
        BY <2>5, <2>9
      <3>. QED
        BY <2>1, <2>8, <3>2, <3>3, <3>4
    <2>10. ASSUME n < l PROVE \A k \in (n + 2)..(l + 1) : B[k] = A[k - 1]
      <3> DEFINE T == {k \in Nat : B[(n + 2) + k] = A[(n + 1) + k]}
      <3>1. PICK m \in Nat : m = l - (n + 1)
        BY <2>1, <2>10
      <3>2. 0 \in T
        BY <2>1, <2>9, <2>10
      <3>3. ASSUME NEW k \in 1..m, k - 1 \in T PROVE k \in T
        <4>1. PICK i : i = (n + 1) + k
          OBVIOUS
        <4>2. /\ i \in 1..l /\ i + 1 \in 1..(l + 1) /\ i + 1 \in (n + 3)..(l + 1)
              /\ (i + 1) - 1 = i /\ k \in Nat /\ i + 1 = (n + 2) + k
              /\ (n + 2) + (k - 1) = i /\ (n + 1) + (k - 1) = i - 1
          BY <2>1, <3>1, <4>1
        <4>3. B[i + 1] = B[i] + b[i + 1] /\ A[i] = A[i - 1] + a[i] /\ b[i + 1] = a[i]
          BY <2>2, <2>3, <2>6, <4>2
        <4>4. B[(n + 2) + (k - 1)] = A[(n + 1) + (k - 1)]
          BY <3>3
        <4>5. B[i] = A[i - 1]
          BY <4>2, <4>4
        <4>6. B[i + 1] = A[i]
          BY <4>3, <4>5
        <4>7. B[(n + 2) + k] = A[(n + 1) + k]
          BY <4>1, <4>2, <4>6
        <4>. QED
          BY <4>2, <4>7
      <3> HIDE DEF T
      <3>4. \A k \in 1..m : k - 1 \in T => k \in T
        BY <3>3
      <3>5. \A k \in 0..m : k \in T
        BY <3>2, <3>4, Upwards
      <3>6. ASSUME NEW k \in (n + 2)..(l + 1) PROVE B[k] = A[k - 1]
        <4>1. PICK j : j = k - (n + 2)
          OBVIOUS
        <4>2. j \in 0..m /\ (n + 2) + j = k /\ (n + 1) + j = k - 1
          BY <2>1, <3>1, <4>1
        <4>3. B[(n + 2) + j] = A[(n + 1) + j]
          BY <3>5, <4>2 DEF T
        <4>. QED
          BY <4>2, <4>3
      <3>. QED
        BY <3>6
    <2>11. \A k \in (n + 2)..(l + 1) : B[k] = A[k - 1]
      <3>1. CASE n = l
        BY <2>1, <3>1
      <3>2. CASE n < l
        BY <2>10, <3>2
      <3>. QED
        BY <2>1, <3>1, <3>2
    <2>. QED
      BY <2>7, <2>8, <2>11 DEF ShiftedSums
  <1>. QED
    BY <1>1

(* Where Insert puts an event, and what it does to the it_values. *)
LEMMA Placed ==
    ASSUME NEW v \in [Event -> Nat], NEW q \in Seq(Event), NEW e \in Event, NEW t \in Nat
    PROVE  \E n \in 0..Len(q) :
               PlacedAt(n, Insert(v, q, e, t).queue, Insert(v, q, e, t).value, v, q, e, t)
  <1> DEFINE places == {k \in 0..Len(q) : Sums(v, q)[k] <= t}
             M == {m \in 0..Len(q) : Len(q) - m \in places}
  <1>0. Len(q) \in Nat
    OBVIOUS
  <1>1. 0 \in places
    <2>1. Sums(v, q)[0] = 0
      BY SumsType DEF IsSum
    <2>. QED
      BY <1>0, <2>1
  <1>2. M \subseteq Nat /\ M # {}
    <2>1. Len(q) - Len(q) = 0 /\ Len(q) \in 0..Len(q)
      BY <1>0
    <2> HIDE DEF places
    <2>2. Len(q) \in M
      BY <1>1, <2>1
    <2>. QED
      BY <1>0, <2>2
  <1>3. PICK m \in M : \A y \in M : m <= y
    <2> HIDE DEF M
    <2>. QED
      BY <1>2, LeastNatural
  <1>4. Len(q) - m \in places /\ \A j \in places : j <= Len(q) - m
    <2>1. ASSUME NEW j \in places PROVE j <= Len(q) - m
      <3>1. j \in 0..Len(q)
        OBVIOUS
      <3>2. Len(q) - j \in 0..Len(q) /\ Len(q) - (Len(q) - j) = j
        BY <1>0, <3>1
      <3>3. Len(q) - j \in M
        <4> HIDE DEF places
        <4>. QED
          BY <3>2
      <3>4. m <= Len(q) - j /\ m \in 0..Len(q)
        BY <1>3, <3>3
      <3>. QED
        BY <1>0, <3>1, <3>4
    <2>. QED
      BY <2>1
  <1>5. PICK n : n = CHOOSE k \in places : \A j \in places : j <= k
    OBVIOUS
  <1>6. n \in places /\ \A j \in places : j <= n
    <2> HIDE DEF places
    <2>. QED
      BY <1>4, <1>5
  <1>7. n \in 0..Len(q) /\ Sums(v, q)[n] <= t
    BY <1>6
  <1>8. ASSUME n < Len(q) PROVE t < Sums(v, q)[n + 1]
    <2>1. n + 1 \in 0..Len(q) /\ ~(n + 1 <= n)
      BY <1>0, <1>7, <1>8
    <2>2. n + 1 \notin places
      BY <1>6, <2>1
    <2>3. Sums(v, q)[n + 1] \in Nat
      BY <2>1, SumsType DEF IsSum
    <2>. QED
      BY <2>1, <2>2, <2>3
  <1>9. Insert(v, q, e, t) =
           [queue |-> InsertAt(q, n + 1, e),
            value |-> [x \in Event |-> IF x = e THEN t - Sums(v, q)[n]
                                       ELSE IF n < Len(q) /\ x = q[n + 1]
                                            THEN v[x] - (t - Sums(v, q)[n]) ELSE v[x]]]
    BY <1>5 DEF Insert
  <1>10. PlacedAt(n, Insert(v, q, e, t).queue, Insert(v, q, e, t).value, v, q, e, t)
    BY <1>7, <1>8, <1>9 DEF PlacedAt
  <1>. QED
    BY <1>7, <1>10

(* An event that is not on the queue, set to go off after t, is put on it, *)
(* and no it_value becomes negative.                                       *)
LEMMA Inserted ==
    ASSUME NEW v \in [Event -> Nat], NEW q \in Seq(Event), NEW e \in Event, NEW t \in Nat,
           IsInjective(q), e \notin ToSet(q)
    PROVE  InsertedOK(Insert(v, q, e, t).queue, Insert(v, q, e, t).value, v, q, e, t)
  <1>a. PICK z, w : z = Insert(v, q, e, t).queue /\ w = Insert(v, q, e, t).value
    OBVIOUS
  <1>0. PICK n \in 0..Len(q) : PlacedAt(n, z, w, v, q, e, t)
    BY <1>a, Placed
  <1>1. /\ Sums(v, q)[n] <= t /\ (n < Len(q) => t < Sums(v, q)[n + 1])
        /\ z = InsertAt(q, n + 1, e)
        /\ w = [x \in Event |-> IF x = e THEN t - Sums(v, q)[n]
                                ELSE IF n < Len(q) /\ x = q[n + 1]
                                     THEN v[x] - (t - Sums(v, q)[n]) ELSE v[x]]
    BY <1>0 DEF PlacedAt
  <1>2. PICK s : s = Sums(v, q)[n]
    OBVIOUS
  <1>3. s \in Nat /\ s <= t /\ t - s \in Nat
    <2>1. Sums(v, q) \in [0..Len(q) -> Nat]
      BY SumsType DEF IsSum
    <2>2. s \in Nat
      BY <1>2, <2>1
    <2>3. s <= t
      BY <1>1, <1>2
    <2>. QED
      BY <2>2, <2>3
  <1>4. /\ z \in Seq(Event) /\ Len(z) = Len(q) + 1 /\ z[n + 1] = e
        /\ \A i \in 1..n : z[i] = q[i]
    <2>1. z \in Seq(Event) /\ IsLinkedIn(z, q, n, e)
      BY <1>1, LinkedIn
    <2>. QED
      BY <2>1 DEF IsLinkedIn
  <1>5. IsInjective(z) /\ ToSet(z) = ToSet(q) \cup {e}
    BY <1>1, LinkedOnce
  <1>6. w = [x \in Event |-> IF x = e THEN t - s
                             ELSE IF n < Len(q) /\ x = q[n + 1] THEN v[x] - (t - s) ELSE v[x]]
    BY <1>1, <1>2
  <1>7. ASSUME n < Len(q) PROVE v[q[n + 1]] - (t - s) \in Nat
    <2>1. n + 1 \in 1..Len(q) /\ (n + 1) - 1 = n
      BY <1>7
    <2>2. Sums(v, q)[n + 1] = s + v[q[n + 1]] /\ v[q[n + 1]] \in Nat
      <3>1. q[n + 1] \in Event
        BY <2>1
      <3>2. IsSum(Sums(v, q), v, q)
        BY SumsType
      <3>3. Sums(v, q)[n + 1] = Sums(v, q)[n] + v[q[n + 1]]
        BY <2>1, <3>2 DEF IsSum
      <3>. QED
        BY <1>2, <3>1, <3>3
    <2>3. t < s + v[q[n + 1]]
      BY <1>1, <1>7, <2>2
    <2>. QED
      BY <1>3, <2>2, <2>3
  <1>8. w \in [Event -> Nat]
    BY <1>3, <1>6, <1>7
  <1>9. Head(z) = z[1] /\ z # <<>>
    BY <1>4
  <1>10. ASSUME n = 0 PROVE InsertedOK(z, w, v, q, e, t)
    <2>1. s = 0
      BY <1>2, <1>10, SumsType DEF IsSum
    <2>2. Head(z) = e
      BY <1>4, <1>9, <1>10
    <2>3. w[e] = t
      BY <1>6, <2>1
    <2>. QED
      BY <1>4, <1>5, <1>8, <1>9, <2>2, <2>3 DEF InsertedOK
  <1>11. ASSUME n # 0 PROVE InsertedOK(z, w, v, q, e, t)
    <2>1. 1 \in 1..n /\ 1 \in 1..Len(q) /\ n + 1 # 1 /\ DOMAIN q = 1..Len(q)
      BY <1>11
    <2>2. q # <<>> /\ Head(q) = q[1] /\ q[1] \in Event /\ q[1] \in ToSet(q)
      BY <2>1 DEF ToSet
    <2>3. Head(z) = Head(q)
      BY <1>4, <1>9, <2>1, <2>2
    <2>4. n < Len(q) => q[n + 1] # q[1]
      BY <2>1 DEF IsInjective
    <2>5. w[q[1]] = v[q[1]] /\ q[1] # e
      BY <1>6, <2>2, <2>4
    <2>. QED
      BY <1>4, <1>5, <1>8, <1>9, <2>2, <2>3, <2>5 DEF InsertedOK
  <1>. QED
    BY <1>a, <1>10, <1>11

(* Setting one event makes no event early. *)
LEMMA InsertedOnTime ==
    ASSUME NEW v \in [Event -> Nat], NEW q \in Seq(Event), NEW e \in Event, NEW t \in Nat,
           IsInjective(q), e \notin ToSet(q),
           NEW z, NEW w, z = Insert(v, q, e, t).queue, w = Insert(v, q, e, t).value,
           NEW d, OnTime(q, v, d), NEW c, c[e] = t, SameOn(ToSet(q), c, d)
    PROVE  OnTime(z, w, c)
  <1>0. PICK n \in 0..Len(q) : PlacedAt(n, z, w, v, q, e, t)
    BY Placed
  <1>1. /\ z = InsertAt(q, n + 1, e)
        /\ w = [x \in Event |-> IF x = e THEN t - Sums(v, q)[n]
                                ELSE IF n < Len(q) /\ x = q[n + 1]
                                     THEN v[x] - (t - Sums(v, q)[n]) ELSE v[x]]
    BY <1>0 DEF PlacedAt
  <1>2. z \in Seq(Event) /\ w \in [Event -> Nat]
    BY Inserted DEF InsertedOK
  <1>3. n \in Nat /\ Len(q) \in Nat /\ DOMAIN q = 1..Len(q)
    OBVIOUS
  <1>4. PICK A : A = Sums(v, q)
    OBVIOUS
  <1>5. PICK B : B = Sums(w, z)
    OBVIOUS
  <1>6. IsSum(A, v, q) /\ IsSum(B, w, z)
    BY <1>2, <1>4, <1>5, SumsType
  <1>7. /\ Len(z) = Len(q) + 1 /\ z[n + 1] = e
        /\ \A i \in 1..n : z[i] = q[i]
        /\ \A i \in (n + 2)..(Len(q) + 1) : z[i] = q[i - 1]
    <2>1. IsLinkedIn(z, q, n, e)
      BY <1>1, LinkedIn
    <2>. QED
      BY <2>1 DEF IsLinkedIn
  <1>8. /\ A \in [0..Len(q) -> Nat] /\ A[0] = 0
        /\ \A k \in 1..Len(q) : A[k] = A[k - 1] + v[q[k]]
    BY <1>6 DEF IsSum
  <1>9. /\ B \in [0..(Len(q) + 1) -> Nat] /\ B[0] = 0
        /\ \A k \in 1..(Len(q) + 1) : B[k] = B[k - 1] + w[z[k]]
    BY <1>6, <1>7 DEF IsSum
  <1>10. PICK a : a = [k \in 1..Len(q) |-> v[q[k]]]
    OBVIOUS
  <1>11. PICK b : b = [k \in 1..(Len(q) + 1) |-> w[z[k]]]
    OBVIOUS
  <1>12. a \in [1..Len(q) -> Nat] /\ \A k \in 1..Len(q) : A[k] = A[k - 1] + a[k]
    <2>1. \A k \in 1..Len(q) : q[k] \in Event
      OBVIOUS
    <2>2. \A k \in 1..Len(q) : v[q[k]] \in Nat
      BY <2>1
    <2>. QED
      BY <1>8, <1>10, <2>2
  <1>13. b \in [1..(Len(q) + 1) -> Nat] /\ \A k \in 1..(Len(q) + 1) : B[k] = B[k - 1] + b[k]
    <2>1. \A k \in 1..(Len(q) + 1) : z[k] \in Event
      BY <1>2, <1>7
    <2>2. \A k \in 1..(Len(q) + 1) : w[z[k]] \in Nat
      BY <1>2, <2>1
    <2>. QED
      BY <1>9, <1>11, <2>2
  <1>14. \A i \in 1..Len(q) : q[i] \in Event /\ q[i] # e /\ q[i] \in ToSet(q)
    BY <1>3 DEF ToSet
  <1>15. ASSUME NEW i \in 1..Len(q), i # n + 1 PROVE w[q[i]] = v[q[i]]
    <2>1. n < Len(q) => q[i] # q[n + 1]
      <3>1. n < Len(q) => n + 1 \in DOMAIN q /\ i \in DOMAIN q
        BY <1>3
      <3>. QED
        BY <1>15, <3>1 DEF IsInjective
    <2>. QED
      BY <1>1, <1>14, <2>1
  <1>16. \A k \in 1..n : b[k] = a[k]
    <2>1. ASSUME NEW k \in 1..n PROVE b[k] = a[k]
      <3>1. k \in 1..Len(q) /\ k \in 1..(Len(q) + 1) /\ k # n + 1
        BY <1>3
      <3>2. b[k] = w[z[k]] /\ a[k] = v[q[k]] /\ z[k] = q[k]
        BY <1>7, <1>10, <1>11, <3>1
      <3>. QED
        BY <1>15, <3>1, <3>2
    <2>. QED
      BY <2>1
  <1>17. b[n + 1] = t - A[n]
    <2>1. n + 1 \in 1..(Len(q) + 1)
      BY <1>3
    <2>2. b[n + 1] = w[e]
      BY <1>7, <1>11, <2>1
    <2>3. w[e] = t - A[n]
      BY <1>1, <1>4
    <2>. QED
      BY <2>2, <2>3
  <1>18. ASSUME n < Len(q) PROVE b[n + 2] = a[n + 1] - (t - A[n])
    <2>1. /\ n + 2 \in 1..(Len(q) + 1) /\ n + 2 \in (n + 2)..(Len(q) + 1) /\ (n + 2) - 1 = n + 1
          /\ n + 1 \in 1..Len(q)
      BY <1>3, <1>18
    <2>2. b[n + 2] = w[z[n + 2]] /\ z[n + 2] = q[n + 1] /\ a[n + 1] = v[q[n + 1]]
      BY <1>7, <1>10, <1>11, <2>1
    <2>3. w[q[n + 1]] = v[q[n + 1]] - (t - A[n])
      BY <1>1, <1>4, <1>14, <1>18, <2>1
    <2>. QED
      BY <2>2, <2>3
  <1>19. \A k \in (n + 3)..(Len(q) + 1) : b[k] = a[k - 1]
    <2>1. ASSUME NEW k \in (n + 3)..(Len(q) + 1) PROVE b[k] = a[k - 1]
      <3>1. /\ k \in 1..(Len(q) + 1) /\ k \in (n + 2)..(Len(q) + 1) /\ k - 1 \in 1..Len(q)
            /\ k - 1 # n + 1
        BY <1>3
      <3>2. b[k] = w[z[k]] /\ z[k] = q[k - 1] /\ a[k - 1] = v[q[k - 1]]
        BY <1>7, <1>10, <1>11, <3>1
      <3>3. w[q[k - 1]] = v[q[k - 1]]
        BY <1>15, <3>1
      <3>. QED
        BY <3>2, <3>3
    <2>. QED
      BY <2>1
  <1>20. Shifted(Len(q), n, t, a, b, A, B)
    BY <1>3, <1>8, <1>9, <1>12, <1>13, <1>16, <1>17, <1>18, <1>19 DEF Shifted
  <1>21. ShiftedSums(Len(q), n, t, A, B)
    BY <1>20, SumsShift
  <1>22. /\ \A k \in 0..n : B[k] = A[k]
         /\ B[n + 1] = t
         /\ \A k \in (n + 2)..(Len(q) + 1) : B[k] = A[k - 1]
    BY <1>21 DEF ShiftedSums
  <1>23. \A k \in 1..Len(q) : d[q[k]] <= A[k] /\ c[q[k]] = d[q[k]]
    BY <1>4, <1>14 DEF OnTime, SameOn
  <1>24. ASSUME NEW k \in 1..(Len(q) + 1) PROVE c[z[k]] <= B[k]
    <2>1. CASE k <= n
      <3>1. k \in 1..n /\ k \in 1..Len(q) /\ k \in 0..n
        BY <1>3, <2>1
      <3>2. z[k] = q[k] /\ B[k] = A[k]
        BY <1>7, <1>22, <3>1
      <3>. QED
        BY <1>23, <3>1, <3>2
    <2>2. CASE k = n + 1
      <3>1. c[z[k]] = t /\ B[k] = t
        BY <1>7, <1>22, <2>2
      <3>. QED
        BY <3>1
    <2>3. CASE k > n + 1
      <3>1. k \in (n + 2)..(Len(q) + 1) /\ k - 1 \in 1..Len(q)
        BY <1>3, <2>3
      <3>2. z[k] = q[k - 1] /\ B[k] = A[k - 1]
        BY <1>7, <1>22, <3>1
      <3>. QED
        BY <1>23, <3>1, <3>2
    <2>. QED
      BY <1>3, <2>1, <2>2, <2>3
  <1>25. \A k \in 1..Len(z) : c[z[k]] <= Sums(w, z)[k]
    BY <1>5, <1>7, <1>24
  <1>. QED
    BY <1>25 DEF OnTime

(* What is left of a queue is not early if no it_value is less. *)
LEMMA LaterOnTime ==
    \A p, v, q, w, o, d :
        Later(p, v, q, w, o) /\ d \in [Event -> Nat] /\ OnTime(q, w, d) => OnTime(p, v, d)
  <1>1. ASSUME NEW p, NEW v, NEW q, NEW w, NEW o, NEW d,
               Later(p, v, q, w, o), d \in [Event -> Nat], OnTime(q, w, d)
        PROVE  OnTime(p, v, d)
    <2>1. /\ v \in [Event -> Nat] /\ w \in [Event -> Nat] /\ p \in Seq(Event) /\ q \in Seq(Event)
          /\ o \in Nat /\ Len(p) + o <= Len(q)
      BY <1>1 DEF Later
    <2>2. \A i \in 1..Len(p) : p[i] = q[i + o] /\ w[p[i]] <= v[p[i]]
      BY <1>1 DEF Later
    <2>3. PICK A, B : A = Sums(w, q) /\ B = Sums(v, p)
      OBVIOUS
    <2>4. A[o] = 0
      BY <1>1, <2>3 DEF Later
    <2>5. IsSum(A, w, q) /\ IsSum(B, v, p)
      BY <2>1, <2>3, SumsType
    <2>6. A \in [0..Len(q) -> Nat] /\ \A k \in 1..Len(q) : A[k] = A[k - 1] + w[q[k]]
      BY <2>5 DEF IsSum
    <2>7. B \in [0..Len(p) -> Nat] /\ B[0] = 0 /\ \A k \in 1..Len(p) : B[k] = B[k - 1] + v[p[k]]
      BY <2>5 DEF IsSum
    <2>8. PICK l \in Nat, m \in Nat : Len(p) = l /\ Len(q) = m
      BY <2>1
    <2>a. o \in Nat /\ l + o <= m
      BY <2>1, <2>8
    <2>b. \A k \in 1..Len(p) : p[k] \in Event
      BY <2>1
    <2> DEFINE T == {k \in Nat : A[k + o] <= B[k]}
    <2>9. 0 \in T
      BY <2>1, <2>4, <2>7
    <2>10. ASSUME NEW k \in 1..Len(p), k - 1 \in T PROVE k \in T
      <3>1. /\ k + o \in 1..Len(q) /\ (k + o) - 1 = (k - 1) + o /\ k \in Nat /\ p[k] \in Event
            /\ (k - 1) + o \in 0..Len(q) /\ k - 1 \in 0..Len(p)
        <4>1. k \in 1..l
          BY <2>8
        <4>2. /\ k + o \in 1..m /\ (k + o) - 1 = (k - 1) + o /\ k \in Nat
              /\ (k - 1) + o \in 0..m /\ k - 1 \in 0..l
          BY <2>a, <4>1
        <4>. QED
          BY <2>8, <2>b, <4>2
      <3>2. A[k + o] = A[(k - 1) + o] + w[q[k + o]]
        BY <2>6, <3>1
      <3>3. B[k] = B[k - 1] + v[p[k]]
        BY <2>7
      <3>4. q[k + o] = p[k] /\ w[p[k]] <= v[p[k]]
        BY <2>2
      <3>5. w[p[k]] \in Nat /\ v[p[k]] \in Nat
        BY <2>1, <3>1
      <3>6. A[(k - 1) + o] \in Nat /\ B[k - 1] \in Nat /\ A[(k - 1) + o] <= B[k - 1]
        BY <2>6, <2>7, <2>10, <3>1
      <3>7. A[k + o] <= B[k]
        BY <3>2, <3>3, <3>4, <3>5, <3>6
      <3>. QED
        BY <3>1, <3>7
    <2> HIDE DEF T
    <2>11. \A k \in 1..Len(p) : k - 1 \in T => k \in T
      BY <2>10
    <2>12. \A k \in 0..Len(p) : k \in T
      BY <2>8, <2>9, <2>11, Upwards
    <2>13. ASSUME NEW k \in 1..Len(p) PROVE d[p[k]] <= B[k]
      <3>1. k + o \in 1..Len(q) /\ k + o \in 0..Len(q) /\ k \in 0..Len(p) /\ p[k] \in Event
        <4>1. k \in 1..l
          BY <2>8
        <4>2. k + o \in 1..m /\ k + o \in 0..m /\ k \in 0..l
          BY <2>a, <4>1
        <4>. QED
          BY <2>8, <2>b, <4>2
      <3>2. d[q[k + o]] <= A[k + o]
        BY <1>1, <2>3, <3>1 DEF OnTime
      <3>3. A[k + o] <= B[k]
        BY <2>12, <3>1 DEF T
      <3>4. q[k + o] = p[k]
        BY <2>2
      <3>5. d[p[k]] \in Nat /\ A[k + o] \in Nat /\ B[k] \in Nat
        BY <1>1, <2>6, <2>7, <3>1
      <3>. QED
        BY <3>2, <3>3, <3>4, <3>5
    <2>. QED
      BY <2>3, <2>13 DEF OnTime
  <1>. QED
    BY <1>1

(* With the time t at the top, the k-th event goes off t and the it_values *)
(* from the second on later.                                               *)
LEMMA LeftSums ==
    ASSUME NEW v \in [Event -> Nat], NEW q \in Seq(Event), q # <<>>, IsInjective(q), NEW t \in Nat
    PROVE  /\ Left(q, v, t) \in [Event -> Nat]
           /\ \A k \in 1..Len(q) :
                 Sums(Left(q, v, t), q)[k] = t + Sums(v, q)[k] - v[Head(q)]
  <1>1. PICK w : w = Left(q, v, t)
    OBVIOUS
  <1>2. /\ Len(q) \in Nat /\ 1 \in 1..Len(q) /\ Head(q) = q[1] /\ q[1] \in Event
        /\ DOMAIN q = 1..Len(q)
    OBVIOUS
  <1>3. w = [v EXCEPT ![q[1]] = t]
    BY <1>1, <1>2 DEF Left
  <1>4. w \in [Event -> Nat] /\ w[q[1]] = t
    BY <1>2, <1>3
  <1>5. \A k \in 2..Len(q) : w[q[k]] = v[q[k]]
    <2>1. ASSUME NEW k \in 2..Len(q) PROVE w[q[k]] = v[q[k]]
      <3>1. k \in 1..Len(q) /\ k # 1
        BY <1>2
      <3>2. q[k] # q[1] /\ q[k] \in Event
        BY <1>2, <3>1 DEF IsInjective
      <3>. QED
        BY <1>3, <3>2
    <2>. QED
      BY <2>1
  <1>6. PICK A, B : A = Sums(v, q) /\ B = Sums(w, q)
    OBVIOUS
  <1>7. IsSum(A, v, q) /\ IsSum(B, w, q)
    BY <1>4, <1>6, SumsType
  <1>8. A \in [0..Len(q) -> Nat] /\ A[0] = 0 /\ \A k \in 1..Len(q) : A[k] = A[k - 1] + v[q[k]]
    BY <1>7 DEF IsSum
  <1>9. B \in [0..Len(q) -> Nat] /\ B[0] = 0 /\ \A k \in 1..Len(q) : B[k] = B[k - 1] + w[q[k]]
    BY <1>7 DEF IsSum
  <1>10. PICK u : u = v[q[1]]
    OBVIOUS
  <1>11. u \in Nat
    BY <1>2, <1>10
  <1> DEFINE T == {k \in Nat : B[k + 1] = t + A[k + 1] - u}
  <1>12. 0 \in T
    <2>1. 1 - 1 = 0 /\ 0 + 1 = 1
      OBVIOUS
    <2>2. B[1] = 0 + t /\ A[1] = 0 + u
      BY <1>2, <1>4, <1>8, <1>9, <1>10, <2>1
    <2>3. B[1] = t + A[1] - u
      BY <1>11, <2>2
    <2>. QED
      BY <2>1, <2>3
  <1>13. PICK m \in Nat : m = Len(q) - 1
    <2>1. Len(q) - 1 \in Nat
      BY <1>2
    <2>. QED
      BY <2>1
  <1>14. ASSUME NEW k \in 1..m, k - 1 \in T PROVE k \in T
    <2>1. /\ k + 1 \in 1..Len(q) /\ k + 1 \in 2..Len(q) /\ (k + 1) - 1 = k /\ (k - 1) + 1 = k
          /\ k \in 0..Len(q) /\ k \in Nat
      BY <1>2, <1>13
    <2>2. q[k + 1] \in Event
      BY <2>1
    <2>3. /\ B[k + 1] = B[k] + w[q[k + 1]] /\ A[k + 1] = A[k] + v[q[k + 1]]
          /\ w[q[k + 1]] = v[q[k + 1]]
      BY <1>5, <1>8, <1>9, <2>1
    <2>4. B[k] = t + A[k] - u
      BY <1>14, <2>1
    <2>5. PICK x \in Nat, y \in Nat : x = A[k] /\ y = v[q[k + 1]]
      BY <1>8, <2>1, <2>2
    <2>6. B[k + 1] = (t + x - u) + y /\ A[k + 1] = x + y
      BY <2>3, <2>4, <2>5
    <2>7. B[k + 1] = t + A[k + 1] - u
      BY <1>11, <2>6
    <2>. QED
      BY <2>1, <2>7
  <1> HIDE DEF T
  <1>15. \A k \in 1..m : k - 1 \in T => k \in T
    BY <1>14
  <1>16. \A k \in 0..m : k \in T
    BY <1>12, <1>15, Upwards
  <1>17. ASSUME NEW k \in 1..Len(q) PROVE B[k] = t + A[k] - u
    <2>1. PICK j \in 0..m : j + 1 = k
      <3>1. k - 1 \in 0..m /\ (k - 1) + 1 = k
        BY <1>2, <1>13
      <3>. QED
        BY <3>1
    <2>2. B[j + 1] = t + A[j + 1] - u
      BY <1>16 DEF T
    <2>. QED
      BY <2>1, <2>2
  <1>. QED
    BY <1>1, <1>2, <1>4, <1>6, <1>10, <1>17

-----------------------------------------------------------------------------
(* The operators of the free list and of timer_cancel. *)

(* The events are all on the free list, each once. *)
LEMMA AllFree ==
    /\ SetToSeq(Event) \in Seq(Event) /\ IsInjective(SetToSeq(Event))
    /\ ToSet(SetToSeq(Event)) = Event
  <1>1. PICK n : n = Cardinality(Event)
    OBVIOUS
  <1>2. n \in Nat /\ ExistsBijection(1..n, Event)
    BY <1>1, TimerAssumption, FS_CardinalityType
  <1>3. PICK f \in Bijection(1..n, Event) : TRUE
    BY <1>2 DEF ExistsBijection
  <1>4. f \in [1..n -> Event] /\ \A i, j \in 1..n : f[i] = f[j] => i = j
    BY <1>3 DEF Bijection, Injection, IsInjective
  <1>5. IsInjective(f)
    BY <1>4 DEF IsInjective
  <1>6. PICK g : g = SetToSeq(Event)
    OBVIOUS
  <1>7. g = CHOOSE h \in [1..n -> Event] : IsInjective(h)
    BY <1>1, <1>6 DEF SetToSeq
  <1>8. g \in [1..n -> Event] /\ IsInjective(g)
    BY <1>4, <1>5, <1>7
  <1>9. g \in Seq(Event)
    BY <1>2, <1>8
  <1>10. Cardinality(1..n) = n
    <2>1. 1 \in Int /\ n \in Int /\ n - 1 + 1 = n
      BY <1>2
    <2>. QED
      BY <1>2, <2>1, FS_Interval
  <1>11. g \in Surjection(1..n, Event)
    <2>1. g \in Injection(1..n, Event)
      BY <1>8 DEF Injection
    <2>. QED
      BY <1>1, <1>10, <2>1, TimerAssumption, FS_Injection
  <1>12. ToSet(g) = Event
    BY <1>8, <1>11 DEF Surjection, ToSet
  <1>. QED
    BY <1>6, <1>8, <1>9, <1>12

(* Some timers are periodic. *)
LEMMA PeriodicsType == Periodics \in Nat
  <1>1. Cardinality(Event) \in Nat
    BY TimerAssumption, FS_CardinalityType
  <1>. QED
    BY <1>1, TimerAssumption

(* Where timer_cancel finds an event. *)
LEMMA Found ==
    ASSUME NEW q \in Seq(Event), NEW e \in ToSet(q)
    PROVE  /\ SelectInSeq(q, LAMBDA x : x = e) \in 1..Len(q)
           /\ q[SelectInSeq(q, LAMBDA x : x = e)] = e
  <1> DEFINE I == {i \in 1..Len(q) : q[i] = e}
  <1>1. DOMAIN q = 1..Len(q)
    OBVIOUS
  <1>2. I # {} /\ I \subseteq Nat
    BY <1>1 DEF ToSet
  <1>3. SelectInSeq(q, LAMBDA x : x = e) = IF I # {} THEN Min(I) ELSE 0
    BY DEF SelectInSeq
  <1>4. Min(I) \in I
    <2> HIDE DEF I
    <2>1. \E x \in I : \A y \in I : x <= y
      BY <1>2, LeastNatural
    <2>. QED
      BY <2>1 DEF Min
  <1>. QED
    BY <1>2, <1>3, <1>4

(* What comes behind the k-th. *)
LEMMA Behind ==
    ASSUME NEW S, NEW q \in Seq(S), IsInjective(q), NEW k \in 1..Len(q)
    PROVE  /\ SubSeq(q, k + 1, Len(q)) \in Seq(S) /\ IsInjective(SubSeq(q, k + 1, Len(q)))
           /\ ToSet(SubSeq(q, k + 1, Len(q))) \subseteq ToSet(q) \ {q[k]}
  <1> DEFINE b == SubSeq(q, k + 1, Len(q))
  <1>z. Len(q) \in Nat /\ k \in Int /\ k + 1 \in Int
    OBVIOUS
  <1>0. Len(q) \in Nat /\ k \in Int /\ DOMAIN q = 1..Len(q)
    OBVIOUS
  <1>1. b \in Seq(S) /\ Len(b) = Len(q) - k /\ \A i \in 1..(Len(q) - k) : b[i] = q[k + i]
    <2>1. \A i \in (k + 1)..Len(q) : q[i] \in S
      OBVIOUS
    <2>. QED
      BY <1>z, <2>1, SubSeqProperties
  <1> HIDE DEF b
  <1>2. DOMAIN b = 1..(Len(q) - k)
    BY <1>1
  <1>3. \A i \in 1..(Len(q) - k) : k + i \in 1..Len(q) /\ k + i # k
    BY <1>0
  <1>4. \A i \in 1..(Len(q) - k) : b[i] \in ToSet(q) \ {q[k]}
    <2>1. ASSUME NEW i \in 1..(Len(q) - k) PROVE b[i] \in ToSet(q) \ {q[k]}
      <3>1. k + i \in DOMAIN q /\ k \in DOMAIN q /\ k + i # k /\ b[i] = q[k + i]
        BY <1>0, <1>1, <1>3
      <3>2. q[k + i] # q[k]
        BY <3>1 DEF IsInjective
      <3>. QED
        BY <3>1, <3>2 DEF ToSet
    <2>. QED
      BY <2>1
  <1>5. ASSUME NEW i \in 1..(Len(q) - k), NEW j \in 1..(Len(q) - k), b[i] = b[j] PROVE i = j
    <2>1. k + i \in DOMAIN q /\ k + j \in DOMAIN q /\ q[k + i] = q[k + j]
      BY <1>0, <1>1, <1>3, <1>5
    <2>2. k + i = k + j
      BY <2>1 DEF IsInjective
    <2>. QED
      BY <1>0, <2>2
  <1>6. IsInjective(b)
    BY <1>2, <1>5 DEF IsInjective
  <1>7. ToSet(b) \subseteq ToSet(q) \ {q[k]}
    BY <1>2, <1>4 DEF ToSet
  <1>. QED
    BY <1>1, <1>6, <1>7 DEF b

-----------------------------------------------------------------------------
(* The steps. *)

(* The invariant from its parts. *)
LEMMA FromParts ==
    ASSUME TimerTypes',
           Apart(event_queue', event_freelist', alarm', flags'),
           HandsOK(main', event_queue', event_freelist', alarm', flags'),
           PeriodicsOK(tds', event_queue', alarm', it_interval'),
           TopOK(event_queue', it_value', alarm', itimer', pending'),
           ~disturbed' => halted' # "null"
                          /\ NotEarly(event_queue', it_value', alarm', itimer', pending', due')
    PROVE  TimerInv'
  BY DEF TimerInv

(* Steps of the main program that leave the queue and the timer alone. *)
LEMMA QueueSame ==
    ASSUME TimerInv, TimerTypes', halted' # "null",
           UNCHANGED <<event_queue, it_value, it_interval, itimer, pending, tds, alarm, history>>,
           Apart(event_queue, event_freelist', alarm, flags'),
           HandsOK(main', event_queue, event_freelist', alarm, flags')
    PROVE  TimerInv'
  BY FromParts DEF TimerInv, history

(* Steps of the main program that change no more than its place. *)
LEMMA PlaceSame ==
    ASSUME TimerInv, halted' \in {"no", "assert", "exit"}, masked' \in BOOLEAN,
           UNCHANGED <<timers, itimer, pending, tds, alarm, history>>,
           \/ main' = main
           \/ \E pc \in {"select", "process", "stop"} : Goto(pc, NULL, <<>>)
    PROVE  TimerInv'
  <1>1. TimerTypes /\ main \in MainStates
    BY DEF TimerInv, TimerTypes
  <1>2. main' \in MainStates /\ HandsOK(main', event_queue, event_freelist, alarm, flags)
    <2>1. CASE main' = main
      BY <1>1, <2>1 DEF TimerInv
    <2>2. ASSUME NEW pc \in {"select", "process", "stop"}, Goto(pc, NULL, <<>>)
          PROVE  main' \in MainStates /\ HandsOK(main', event_queue, event_freelist, alarm, flags)
      <3>1. main' = [pc |-> pc, event |-> NULL, list |-> <<>>] /\ <<>> \in Seq(Event)
        BY <2>2 DEF Goto
      <3>2. main' \in MainStates
        BY <3>1 DEF MainStates
      <3>3. main'.pc = pc
        BY <3>1
      <3>. QED
        BY <3>2, <3>3 DEF HandsOK
    <2>. QED
      BY <2>1, <2>2
  <1>3. halted' # "null" /\ halted' \in {"no", "null", "assert", "exit"}
    OBVIOUS
  <1>4. TimerTypes'
    BY <1>1, <1>2, <1>3 DEF TimerTypes, timers, history
  <1>5. Apart(event_queue, event_freelist, alarm, flags)
    BY DEF TimerInv
  <1>. QED
    BY <1>2, <1>3, <1>4, <1>5, QueueSame DEF timers

(* Time passes. *)
LEMMA TickStep ==
    ASSUME TimerInv, Tick
    PROVE  TimerInv'
  <1>1. /\ halted = "no" /\ (itimer > 0 \/ alarm # NULL)
        /\ itimer' = IF itimer > 0 THEN itimer - 1 ELSE 0
        /\ pending' = (pending \/ itimer = 1)
        /\ due' = [e \in Event |-> IF due[e] > 0 THEN due[e] - 1 ELSE 0]
    BY DEF Tick
  <1>2. UNCHANGED <<timers, masked, main, tds, alarm, halted, disturbed>>
    BY DEF Tick
  <1>3. UNCHANGED <<event_queue, event_freelist, it_value, it_interval, flags>>
    BY <1>2 DEF timers
  <1>4. /\ TimerTypes /\ itimer \in Nat /\ due \in [Event -> 0..MaxTime] /\ MaxTime \in Nat
        /\ it_value \in [Event -> Nat] /\ pending \in BOOLEAN
    BY TimerAssumption DEF TimerInv, TimerTypes
  <1>5. itimer' \in Nat /\ due' \in [Event -> 0..MaxTime]
    BY <1>1, <1>4
  <1>6. TimerTypes'
    <2>1. pending' \in BOOLEAN
      BY <1>1, Zenon
    <2>. QED
      BY <1>2, <1>3, <1>4, <1>5, <2>1 DEF TimerTypes
  <1>7. TopOK(event_queue', it_value', alarm', itimer', pending')
    <2>1. SUFFICES ASSUME event_queue # <<>>, alarm = NULL
                   PROVE  itimer' <= it_value[Head(event_queue)] /\ (itimer' > 0 \/ pending')
      BY <1>2, <1>3 DEF TopOK
    <2>2. itimer > 0 /\ itimer <= it_value[Head(event_queue)]
      BY <1>1, <2>1 DEF TimerInv, TopOK
    <2>3. Head(event_queue) \in Event
      BY <2>1 DEF TimerInv, Apart
    <2>4. it_value[Head(event_queue)] \in Nat
      BY <1>4, <2>3
    <2>5. itimer' = itimer - 1 /\ (itimer = 1 => pending')
      BY <1>1, <2>2
    <2>. QED
      BY <1>4, <2>2, <2>4, <2>5
  <1>8. ASSUME ~disturbed
        PROVE  NotEarly(event_queue, it_value, alarm, itimer', pending', due')
    <2>1. NotEarly(event_queue, it_value, alarm, itimer, pending, due)
      BY <1>8 DEF TimerInv
    <2>2. \A e \in Event : due'[e] \in Nat /\ due'[e] <= due[e] /\ (due[e] <= 1 => due'[e] = 0)
                           /\ (due'[e] = 0 \/ due'[e] = due[e] - 1) /\ due[e] \in Nat
      BY <1>1, <1>4
    <2>3. event_queue \in Seq(Event) /\ IsInjective(event_queue)
      BY DEF TimerInv, Apart
    <2>4. CASE alarm # NULL
      <3>1. itimer = 0 /\ ~pending /\ due[alarm] = 0 /\ OnTime(event_queue, it_value, due)
        BY <2>1, <2>4 DEF NotEarly
      <3>2. itimer' = 0 /\ ~pending'
        <4>1. itimer' = 0 /\ itimer # 1
          BY <1>1, <3>1
        <4>2. ~pending'
          BY <1>1, <3>1, <4>1, Zenon
        <4>. QED
          BY <4>1, <4>2
      <3>3. alarm \in Event
        BY <2>4 DEF TimerInv, Apart
      <3>4. due'[alarm] = 0
        BY <2>2, <3>1, <3>3
      <3>5. OnTime(event_queue, it_value, due')
        <4>1. ASSUME NEW k \in 1..Len(event_queue)
              PROVE  due'[event_queue[k]] <= Sums(it_value, event_queue)[k]
          <5>1. event_queue[k] \in Event /\ k \in 0..Len(event_queue)
            BY <2>3
          <5>2. due[event_queue[k]] <= Sums(it_value, event_queue)[k]
            BY <3>1 DEF OnTime
          <5>3. Sums(it_value, event_queue)[k] \in Nat
            BY <1>4, <2>3, <5>1, SumsType DEF IsSum
          <5>. QED
            BY <2>2, <5>1, <5>2, <5>3
        <4>. QED
          BY <4>1 DEF OnTime
      <3>. QED
        BY <2>4, <3>2, <3>4, <3>5 DEF NotEarly
    <2>5. CASE alarm = NULL
      <3>1. /\ event_queue # <<>> /\ itimer > 0 /\ ~pending
            /\ OnTime(event_queue, Left(event_queue, it_value, itimer), due)
        BY <1>1, <1>4, <2>1, <2>5 DEF NotEarly
      <3>2. PICK t \in Nat : t = itimer - 1
        <4>1. itimer - 1 \in Nat
          BY <1>4, <3>1
        <4>. QED
          BY <4>1
      <3>3. itimer' = t /\ itimer = t + 1
        BY <1>1, <1>4, <3>1, <3>2
      <3>4. ASSUME NEW k \in 1..Len(event_queue)
            PROVE  due'[event_queue[k]] <= Sums(Left(event_queue, it_value, t), event_queue)[k]
        <4>1. event_queue[k] \in Event /\ k \in 0..Len(event_queue)
              /\ Head(event_queue) \in Event
          BY <2>3, <3>1
        <4>2. due[event_queue[k]] <= Sums(Left(event_queue, it_value, itimer), event_queue)[k]
          BY <3>1 DEF OnTime
        <4>3. Sums(Left(event_queue, it_value, itimer), event_queue)[k]
                = itimer + Sums(it_value, event_queue)[k] - it_value[Head(event_queue)]
          BY <1>4, <2>3, <3>1, LeftSums
        <4>4. /\ Sums(Left(event_queue, it_value, t), event_queue)[k]
                   = t + Sums(it_value, event_queue)[k] - it_value[Head(event_queue)]
              /\ Left(event_queue, it_value, t) \in [Event -> Nat]
          BY <1>4, <2>3, <3>1, LeftSums
        <4>5. Sums(it_value, event_queue)[k] \in Nat /\ it_value[Head(event_queue)] \in Nat
          BY <1>4, <2>3, <4>1, SumsType DEF IsSum
        <4>6. Sums(Left(event_queue, it_value, t), event_queue)[k] \in Nat
          BY <2>3, <4>1, <4>4, SumsType DEF IsSum
        <4>7. PICK a \in Nat, b \in Nat, c \in Nat, d \in Nat, d2 \in Nat :
                  /\ a = Sums(it_value, event_queue)[k] /\ b = it_value[Head(event_queue)]
                  /\ c = Sums(Left(event_queue, it_value, t), event_queue)[k]
                  /\ d = due[event_queue[k]] /\ d2 = due'[event_queue[k]]
          BY <2>2, <4>1, <4>5, <4>6
        <4>8. d <= itimer + a - b /\ c = t + a - b /\ (d2 = 0 \/ d2 = d - 1)
          BY <2>2, <4>1, <4>2, <4>3, <4>4, <4>7
        <4>9. d2 <= c
          BY <3>3, <4>8
        <4>. QED
          BY <4>7, <4>9
      <3>5. OnTime(event_queue, Left(event_queue, it_value, t), due')
        BY <3>4 DEF OnTime
      <3>6. pending' => itimer' = 0 /\ due'[Head(event_queue)] = 0
        <4>1. SUFFICES ASSUME pending' PROVE itimer' = 0 /\ due'[Head(event_queue)] = 0
          OBVIOUS
        <4>2. t = 0
          <5>1. itimer = 1
            BY <1>1, <3>1, <4>1, Zenon
          <5>. QED
            BY <3>3, <5>1
        <4>3. Head(event_queue) = event_queue[1] /\ 1 \in 1..Len(event_queue)
              /\ Head(event_queue) \in Event
          BY <2>3, <3>1
        <4>4. due[Head(event_queue)] <= Sums(Left(event_queue, it_value, itimer), event_queue)[1]
          BY <3>1, <4>3 DEF OnTime
        <4>5. Sums(Left(event_queue, it_value, itimer), event_queue)[1]
                = itimer + Sums(it_value, event_queue)[1] - it_value[Head(event_queue)]
          BY <1>4, <2>3, <3>1, <4>3, LeftSums
        <4>6. Sums(it_value, event_queue)[1] = it_value[Head(event_queue)]
              /\ it_value[Head(event_queue)] \in Nat
          <5>1. IsSum(Sums(it_value, event_queue), it_value, event_queue)
            BY <1>4, <2>3, SumsType
          <5>2. 1 - 1 = 0
            OBVIOUS
          <5>. QED
            BY <1>4, <4>3, <5>1, <5>2 DEF IsSum
        <4>7. due[Head(event_queue)] <= 1
          BY <3>3, <4>2, <4>4, <4>5, <4>6
        <4>. QED
          BY <2>2, <3>3, <4>2, <4>3, <4>7
      <3>. QED
        BY <2>5, <3>1, <3>3, <3>5, <3>6 DEF NotEarly
    <2>. QED
      BY <2>4, <2>5
  <1>9. ~disturbed' => halted' # "null"
                       /\ NotEarly(event_queue', it_value', alarm', itimer', pending', due')
    BY <1>1, <1>2, <1>3, <1>8
  <1>10. /\ Apart(event_queue', event_freelist', alarm', flags')
         /\ HandsOK(main', event_queue', event_freelist', alarm', flags')
         /\ PeriodicsOK(tds', event_queue', alarm', it_interval')
    BY <1>2, <1>3 DEF TimerInv
  <1>. QED
    BY <1>6, <1>7, <1>9, <1>10, FromParts

(* timer_create has read the free list. *)
LEMMA CreateStep ==
    ASSUME TimerInv, timer_create
    PROVE  TimerInv'
  <1>1. /\ masked' = masked \/ masked' = TRUE
        /\ UNCHANGED <<event_queue, event_freelist, it_value, it_interval, itimer, pending,
                       tds, alarm, history>>
    BY DEF timer_create
  <1>2. masked' \in BOOLEAN
    BY <1>1 DEF TimerInv, TimerTypes
  <1>3. CASE halted' = "assert" /\ UNCHANGED <<main, flags>>
    BY <1>1, <1>2, <1>3, PlaceSame DEF timers
  <1>4. CASE /\ event_freelist # <<>>
             /\ Goto("create", Head(event_freelist), <<>>)
             /\ flags' = [flags EXCEPT ![Head(event_freelist)] = {}]
             /\ UNCHANGED halted
    <2>1. PICK e : e = Head(event_freelist)
      OBVIOUS
    <2>2. TimerTypes /\ flags \in [Event -> SUBSET {"CANCELLED", "DELETED"}]
      BY DEF TimerInv, TimerTypes
    <2>3. Apart(event_queue, event_freelist, alarm, flags)
      BY DEF TimerInv
    <2>4. e \in Event /\ e \in ToSet(event_freelist)
      <3>1. event_freelist \in Seq(Event) /\ IsInjective(event_freelist)
        BY <2>3 DEF Apart
      <3>. QED
        BY <1>4, <2>1, <3>1, TheRest
    <2>5. main' = [pc |-> "create", event |-> e, list |-> <<>>] /\ <<>> \in Seq(Event)
      BY <1>4, <2>1 DEF Goto
    <2>6. flags' \in [Event -> SUBSET {"CANCELLED", "DELETED"}] /\ flags'[e] = {}
          /\ \A x \in Event : flags[x] = {} => flags'[x] = {}
      BY <1>4, <2>1, <2>2, <2>4
    <2>7. main' \in MainStates
      BY <2>4, <2>5 DEF MainStates
    <2>8. TimerTypes'
      BY <1>1, <1>2, <1>4, <2>2, <2>6, <2>7 DEF TimerTypes, history
    <2>9. Apart(event_queue, event_freelist, alarm, flags')
      <3>1. ToSet(event_queue) \subseteq Event
        BY <2>3 DEF Apart, ToSet
      <3>. QED
        BY <2>3, <2>6, <3>1 DEF Apart
    <2>10. HandsOK(main', event_queue, event_freelist, alarm, flags')
      <3>1. main'.pc = "create" /\ main'.event = e
        BY <2>5
      <3>. QED
        BY <2>4, <2>6, <3>1 DEF HandsOK
    <2>11. halted' # "null"
      BY <1>4 DEF timer_create, At, Running
    <2>. QED
      BY <1>1, <2>8, <2>9, <2>10, <2>11, QueueSame
  <1>. QED
    BY <1>3, <1>4 DEF timer_create

(* timer_create writes the free list. *)
LEMMA CreatedStep ==
    ASSUME TimerInv, timer_created
    PROVE  TimerInv'
  <1>1. /\ main.pc = "create" /\ alarm = NULL /\ halted = "no"
        /\ Goto("settime", main.event, <<>>)
        /\ UNCHANGED <<event_queue, it_value, it_interval, flags, itimer, pending,
                       masked, tds, alarm, halted, history>>
    BY DEF timer_created, At, Running
  <1>2. PICK k \in DOMAIN event_freelist :
          /\ event_freelist[k] = main.event
          /\ event_freelist' = SubSeq(event_freelist, k + 1, Len(event_freelist))
    BY DEF timer_created
  <1>3. /\ TimerTypes /\ Apart(event_queue, event_freelist, alarm, flags)
        /\ HandsOK(main, event_queue, event_freelist, alarm, flags)
    BY DEF TimerInv
  <1>4. event_freelist \in Seq(Event) /\ IsInjective(event_freelist) /\ k \in 1..Len(event_freelist)
    BY <1>2, <1>3 DEF Apart
  <1>5. PICK e : e = main.event
    OBVIOUS
  <1>6. e \in Event /\ e \in ToSet(event_freelist) /\ flags[e] = {}
    BY <1>1, <1>2, <1>3, <1>4, <1>5 DEF HandsOK
  <1>7. /\ event_freelist' \in Seq(Event) /\ IsInjective(event_freelist')
        /\ ToSet(event_freelist') \subseteq ToSet(event_freelist) \ {e}
    BY <1>2, <1>4, <1>5, Behind
  <1>8. main' = [pc |-> "settime", event |-> e, list |-> <<>>] /\ <<>> \in Seq(Event)
    BY <1>1, <1>5 DEF Goto
  <1>9. main' \in MainStates
    BY <1>6, <1>8 DEF MainStates
  <1>10. TimerTypes'
    BY <1>1, <1>3, <1>9 DEF TimerTypes, history
  <1>11. Apart(event_queue, event_freelist', alarm, flags')
    BY <1>1, <1>3, <1>7 DEF Apart
  <1>12. HandsOK(main', event_queue, event_freelist', alarm, flags')
    <2>1. main'.pc = "settime" /\ main'.event = e
      BY <1>8
    <2>2. e \notin ToSet(event_queue) /\ e # alarm
      BY <1>3, <1>6 DEF Apart
    <2>. QED
      BY <1>1, <1>6, <1>7, <2>1, <2>2 DEF HandsOK
  <1>13. halted' # "null"
    BY <1>1
  <1>. QED
    BY <1>1, <1>10, <1>11, <1>12, <1>13, QueueSame

(* timer_delete has cancelled the event and read the free list. *)
LEMMA DeletedStep ==
    ASSUME TimerInv, timer_deleted
    PROVE  TimerInv'
  <1>1. /\ main.pc = "cancelled" /\ alarm = NULL /\ halted = "no"
        /\ flags' = [flags EXCEPT ![main.event] = @ \cup {"DELETED"}]
        /\ Goto("recycle", main.event, event_freelist)
        /\ UNCHANGED <<event_queue, event_freelist, it_value, it_interval, itimer, pending,
                       masked, tds, alarm, halted, history>>
    BY DEF timer_deleted, At, Running
  <1>2. /\ TimerTypes /\ Apart(event_queue, event_freelist, alarm, flags)
        /\ HandsOK(main, event_queue, event_freelist, alarm, flags)
        /\ flags \in [Event -> SUBSET {"CANCELLED", "DELETED"}]
    BY DEF TimerInv, TimerTypes
  <1>3. PICK e : e = main.event
    OBVIOUS
  <1>4. e \in Event /\ e \notin ToSet(event_queue) \cup ToSet(event_freelist) \cup {alarm}
    BY <1>1, <1>2, <1>3 DEF HandsOK
  <1>5. flags' \in [Event -> SUBSET {"CANCELLED", "DELETED"}]
        /\ \A x \in Event : x # e => flags'[x] = flags[x]
    BY <1>1, <1>2, <1>3, <1>4
  <1>6. main' = [pc |-> "recycle", event |-> e, list |-> event_freelist]
        /\ event_freelist \in Seq(Event) /\ IsInjective(event_freelist)
    BY <1>1, <1>2, <1>3 DEF Goto, Apart
  <1>7. main' \in MainStates
    BY <1>4, <1>6 DEF MainStates
  <1>8. TimerTypes'
    BY <1>1, <1>2, <1>5, <1>7 DEF TimerTypes, history
  <1>9. Apart(event_queue, event_freelist', alarm, flags')
    <2>1. ToSet(event_queue) \subseteq Event
      BY <1>2 DEF Apart, ToSet
    <2>. QED
      BY <1>1, <1>2, <1>4, <1>5, <2>1 DEF Apart
  <1>10. HandsOK(main', event_queue, event_freelist', alarm, flags')
    <2>1. main'.pc = "recycle" /\ main'.event = e /\ main'.list = event_freelist
      BY <1>6
    <2>. QED
      BY <1>1, <1>4, <1>6, <2>1 DEF HandsOK
  <1>11. halted' # "null"
    BY <1>1
  <1>. QED
    BY <1>1, <1>8, <1>9, <1>10, <1>11, QueueSame

(* timer_delete writes the free list. *)
LEMMA RecycleStep ==
    ASSUME TimerInv, recycle
    PROVE  TimerInv'
  <1>1. /\ main.pc = "recycle" /\ alarm = NULL /\ halted = "no"
        /\ Goto("stop", NULL, <<>>)
        /\ event_freelist' = <<main.event>> \o main.list
        /\ UNCHANGED <<event_queue, it_value, it_interval, flags, itimer, pending,
                       masked, tds, alarm, halted, history>>
    BY DEF recycle, At, Running
  <1>2. /\ TimerTypes /\ Apart(event_queue, event_freelist, alarm, flags)
        /\ HandsOK(main, event_queue, event_freelist, alarm, flags)
        /\ main \in MainStates
    BY DEF TimerInv, TimerTypes
  <1>3. PICK e, l : e = main.event /\ l = main.list
    OBVIOUS
  <1>4. /\ e \in Event /\ e \notin ToSet(event_queue) \cup ToSet(event_freelist) \cup {alarm}
        /\ IsInjective(l) /\ ToSet(l) \subseteq ToSet(event_freelist)
    BY <1>1, <1>2, <1>3 DEF HandsOK
  <1>5. l \in Seq(Event)
    BY <1>2, <1>3 DEF MainStates
  <1>6. /\ event_freelist' \in Seq(Event) /\ IsInjective(event_freelist')
        /\ ToSet(event_freelist') = ToSet(l) \cup {e}
    <2>1. e \notin ToSet(l) /\ event_freelist' = <<e>> \o l
      BY <1>1, <1>3, <1>4
    <2>. QED
      BY <1>4, <1>5, <2>1, AtTheFront
  <1>7. main' = [pc |-> "stop", event |-> NULL, list |-> <<>>] /\ <<>> \in Seq(Event)
    BY <1>1 DEF Goto
  <1>8. main' \in MainStates
    BY <1>7 DEF MainStates
  <1>9. TimerTypes'
    BY <1>1, <1>2, <1>8 DEF TimerTypes, history
  <1>10. Apart(event_queue, event_freelist', alarm, flags')
    BY <1>1, <1>2, <1>4, <1>6 DEF Apart
  <1>11. HandsOK(main', event_queue, event_freelist', alarm, flags')
    <2>1. main'.pc = "stop"
      BY <1>7
    <2>. QED
      BY <2>1 DEF HandsOK
  <1>12. halted' # "null"
    BY <1>1
  <1>. QED
    BY <1>1, <1>9, <1>10, <1>11, <1>12, QueueSame

(* A timer that runs for its first event: the time left on it, put at the  *)
(* top, is the it_value of the top.                                        *)
LEMMA LeftSame ==
    ASSUME NEW q \in Seq(Event), NEW v \in [Event -> Nat], NEW t, q # <<>> => t = v[Head(q)]
    PROVE  Left(q, v, t) = v
  <1>1. CASE q = <<>>
    BY <1>1 DEF Left
  <1>2. CASE q # <<>>
    <2>1. Left(q, v, t) = [v EXCEPT ![Head(q)] = t]
      BY <1>2 DEF Left
    <2>2. Head(q) \in Event /\ t = v[Head(q)]
      BY <1>2
    <2>. QED
      BY <2>1, <2>2
  <1>. QED
    BY <1>1, <1>2

(* What timer_settime puts at the top before it sets a timer. *)
LEMMA TopSet ==
    ASSUME TimerInv, alarm = NULL
    PROVE  /\ TopTimeLeft \in [Event -> Nat]
           /\ event_queue # <<>> => itimer <= TopTimeLeft[Head(event_queue)]
           /\ ~pending => /\ event_queue # <<>> => itimer = TopTimeLeft[Head(event_queue)]
                          /\ TopTimeLeft = Left(event_queue, it_value, itimer)
  <1>1. /\ it_value \in [Event -> Nat] /\ itimer \in Nat
        /\ TopOK(event_queue, it_value, alarm, itimer, pending)
        /\ event_queue \in Seq(Event)
    BY DEF TimerInv, TimerTypes, Apart
  <1>2. CASE event_queue = <<>>
    <2>1. TopTimeLeft = it_value
      BY <1>2 DEF TopTimeLeft
    <2>. QED
      BY <1>1, <1>2, <2>1 DEF Left
  <1>3. CASE event_queue # <<>>
    <2>1. Head(event_queue) \in Event /\ it_value[Head(event_queue)] \in Nat
      BY <1>1, <1>3
    <2>2. itimer <= it_value[Head(event_queue)] /\ (itimer > 0 \/ pending)
      BY <1>1, <1>3 DEF TopOK
    <2>3. CASE itimer > 0
      <3>1. TopTimeLeft = [it_value EXCEPT ![Head(event_queue)] = itimer]
        BY <1>3, <2>2, <2>3 DEF TopTimeLeft
      <3>2. TopTimeLeft \in [Event -> Nat] /\ TopTimeLeft[Head(event_queue)] = itimer
        BY <1>1, <2>1, <3>1
      <3>3. TopTimeLeft = Left(event_queue, it_value, itimer)
        BY <1>3, <3>1 DEF Left
      <3>. QED
        BY <1>1, <3>2, <3>3
    <2>4. CASE ~(itimer > 0)
      <3>1. TopTimeLeft = it_value
        BY <2>4 DEF TopTimeLeft
      <3>2. pending
        BY <2>2, <2>4
      <3>. QED
        BY <1>1, <2>2, <3>1, <3>2
    <2>. QED
      BY <2>3, <2>4
  <1>. QED
    BY <1>2, <1>3

(* timer_settime of an event that is nowhere else. *)
LEMMA EventSet ==
    ASSUME TimerInv, NEW e \in Event, NEW t \in Times, NEW period \in 0..MaxTime,
           e \notin ToSet(event_queue) \cup ToSet(event_freelist) \cup {alarm},
           flags[e] = {}, alarm = NULL, SetTime(e, t, period)
    PROVE  /\ it_value' \in [Event -> Nat] /\ it_interval' \in [Event -> 0..MaxTime]
           /\ it_interval'[e] = period /\ \A x \in Event : x # e => it_interval'[x] = it_interval[x]
           /\ itimer' \in Nat /\ due' \in [Event -> 0..MaxTime]
           /\ masked' = FALSE /\ disturbed' \in BOOLEAN
           /\ Apart(event_queue', event_freelist, alarm, flags)
           /\ ToSet(event_queue') = ToSet(event_queue) \cup {e}
           /\ TopOK(event_queue', it_value', alarm, itimer', pending)
           /\ ~disturbed' => /\ ~disturbed
                             /\ NotEarly(event_queue', it_value', alarm, itimer', pending, due')
  <1>1. PICK v : v = TopTimeLeft
    OBVIOUS
  <1>2. PICK z, w : z = Insert(v, event_queue, e, t).queue /\ w = Insert(v, event_queue, e, t).value
    OBVIOUS
  <1>3. /\ event_queue' = z /\ it_value' = w
        /\ it_interval' = [it_interval EXCEPT ![e] = period]
        /\ itimer' = IF Head(z) = e THEN w[e] ELSE itimer
        /\ due' = [due EXCEPT ![e] = t] /\ masked' = FALSE
        /\ disturbed' = (disturbed \/ pending)
    BY <1>1, <1>2 DEF SetTime, Disturbs
  <1>4. /\ it_interval \in [Event -> 0..MaxTime] /\ itimer \in Nat /\ due \in [Event -> 0..MaxTime]
        /\ event_queue \in Seq(Event) /\ IsInjective(event_queue)
        /\ Apart(event_queue, event_freelist, alarm, flags)
    BY DEF TimerInv, TimerTypes, Apart
  <1>5. t \in Nat /\ t > 0 /\ t \in 0..MaxTime
    BY TimerAssumption DEF Times
  <1>6. /\ v \in [Event -> Nat]
        /\ event_queue # <<>> => itimer <= v[Head(event_queue)]
        /\ ~pending => /\ event_queue # <<>> => itimer = v[Head(event_queue)]
                       /\ v = Left(event_queue, it_value, itimer)
    BY <1>1, TopSet
  <1>7. InsertedOK(z, w, v, event_queue, e, t)
    BY <1>2, <1>4, <1>5, <1>6, Inserted
  <1>8. /\ z \in Seq(Event) /\ w \in [Event -> Nat]
        /\ IsInjective(z) /\ ToSet(z) = ToSet(event_queue) \cup {e} /\ z # <<>>
    BY <1>7 DEF InsertedOK
  <1>9. \/ Head(z) = e /\ w[e] = t
        \/ event_queue # <<>> /\ Head(z) = Head(event_queue) /\ Head(event_queue) # e
           /\ w[Head(event_queue)] = v[Head(event_queue)]
    BY <1>7 DEF InsertedOK
  <1>10. it_interval' \in [Event -> 0..MaxTime] /\ due' \in [Event -> 0..MaxTime]
         /\ it_interval'[e] = period /\ \A x \in Event : x # e => it_interval'[x] = it_interval[x]
    BY <1>3, <1>4, <1>5
  <1>11. itimer' \in Nat
    BY <1>3, <1>4, <1>8
  <1>12. disturbed' \in BOOLEAN
    BY <1>3, Zenon
  <1>13. Apart(event_queue', event_freelist, alarm, flags)
    BY <1>3, <1>4, <1>8 DEF Apart
  <1>14. /\ itimer' <= w[Head(z)] /\ (itimer' > 0 \/ pending)
         /\ ~pending => itimer' = w[Head(z)]
    <2>1. CASE Head(z) = e /\ w[e] = t
      <3>1. itimer' = t /\ w[Head(z)] = t
        BY <1>3, <2>1
      <3>. QED
        BY <1>5, <3>1
    <2>2. CASE event_queue # <<>> /\ Head(z) = Head(event_queue) /\ Head(event_queue) # e
               /\ w[Head(event_queue)] = v[Head(event_queue)]
      <3>1. itimer' = itimer /\ w[Head(z)] = v[Head(event_queue)]
        BY <1>3, <2>2
      <3>2. itimer > 0 \/ pending
        BY <2>2 DEF TimerInv, TopOK
      <3>. QED
        BY <1>6, <2>2, <3>1, <3>2
    <2>. QED
      BY <1>9, <2>1, <2>2
  <1>15. TopOK(event_queue', it_value', alarm, itimer', pending)
    BY <1>3, <1>14 DEF TopOK
  <1>16. ASSUME ~disturbed'
         PROVE  ~disturbed /\ NotEarly(event_queue', it_value', alarm, itimer', pending, due')
    <2>1. ~disturbed /\ ~pending
      BY <1>3, <1>16, Zenon
    <2>2. NotEarly(event_queue, it_value, alarm, itimer, pending, due)
      BY <2>1 DEF TimerInv
    <2>3. OnTime(event_queue, v, due)
      BY <1>6, <2>1, <2>2 DEF NotEarly
    <2>4. PICK c : c = due'
      OBVIOUS
    <2>5. c[e] = t /\ SameOn(ToSet(event_queue), c, due)
      <3>1. ToSet(event_queue) \subseteq Event
        BY <1>4 DEF ToSet
      <3>. QED
        BY <1>3, <1>4, <2>4, <3>1 DEF SameOn
    <2>6. OnTime(z, w, c)
      <3>1. e \notin ToSet(event_queue)
        OBVIOUS
      <3>2. event_queue \in Seq(Event) /\ IsInjective(event_queue)
            /\ v \in [Event -> Nat] /\ t \in Nat
        BY <1>4, <1>5, <1>6
      <3>. QED
        BY <1>2, <2>3, <2>5, <3>1, <3>2, InsertedOnTime
    <2>7. PICK i : i = itimer'
      OBVIOUS
    <2>8. Left(z, w, i) = w
      BY <1>8, <1>14, <2>1, <2>7, LeftSame
    <2>9. NotEarly(z, w, alarm, i, pending, c)
      BY <1>8, <2>1, <2>6, <2>8 DEF NotEarly
    <2>. QED
      BY <1>3, <2>1, <2>4, <2>7, <2>9
  <1>. QED
    BY <1>3, <1>8, <1>10, <1>11, <1>12, <1>13, <1>15, <1>16

(* timer_settime, of a periodic timer or for one occasion. *)
LEMMA SetTimeStep ==
    ASSUME TimerInv, timer_settime
    PROVE  TimerInv'
  <1>1. main.pc = "settime" /\ alarm = NULL /\ halted = "no"
    BY DEF timer_settime, At, Running
  <1>2. PICK e : e = main.event
    OBVIOUS
  <1>3. PICK t \in Times, period \in 0..MaxTime, pc \in {"start", "process"} :
          /\ SetTime(e, t, period) /\ Goto(pc, NULL, <<>>)
          /\ \/ Len(tds) < Periodics /\ period > 0 /\ tds' = Append(tds, e)
             \/ tds' = tds
    <2>1. PICK t \in Times :
            \/ /\ Len(tds) < Periodics
               /\ SetTime(e, t, t)
               /\ tds' = Append(tds, e) /\ Goto("start", NULL, <<>>)
            \/ /\ Len(tds) = Periodics
               /\ SetTime(e, t, 0)
               /\ UNCHANGED tds /\ Goto("process", NULL, <<>>)
      BY <1>2 DEF timer_settime
    <2>2. t \in 0..MaxTime /\ t > 0 /\ 0 \in 0..MaxTime
      BY TimerAssumption DEF Times
    <2>. QED
      BY <2>1, <2>2
  <1>4. /\ TimerTypes /\ HandsOK(main, event_queue, event_freelist, alarm, flags)
        /\ PeriodicsOK(tds, event_queue, alarm, it_interval)
    BY DEF TimerInv
  <1>5. e \in Event /\ e \notin ToSet(event_queue) \cup ToSet(event_freelist) \cup {alarm}
        /\ flags[e] = {}
    BY <1>1, <1>2, <1>4 DEF HandsOK
  <1>6. UNCHANGED <<event_freelist, flags, pending, alarm, halted>>
    BY <1>3 DEF SetTime
  <1>7. /\ it_value' \in [Event -> Nat] /\ it_interval' \in [Event -> 0..MaxTime]
        /\ it_interval'[e] = period /\ \A x \in Event : x # e => it_interval'[x] = it_interval[x]
        /\ itimer' \in Nat /\ due' \in [Event -> 0..MaxTime]
        /\ masked' = FALSE /\ disturbed' \in BOOLEAN
        /\ Apart(event_queue', event_freelist, alarm, flags)
        /\ ToSet(event_queue') = ToSet(event_queue) \cup {e}
        /\ TopOK(event_queue', it_value', alarm, itimer', pending)
        /\ ~disturbed' => /\ ~disturbed
                          /\ NotEarly(event_queue', it_value', alarm, itimer', pending, due')
    BY <1>1, <1>3, <1>5, EventSet
  <1>8. main' = [pc |-> pc, event |-> NULL, list |-> <<>>] /\ <<>> \in Seq(Event)
    BY <1>3 DEF Goto
  <1>9. main' \in MainStates /\ main'.pc = pc
    BY <1>8 DEF MainStates
  <1>10. TimerTypes'
    BY <1>4, <1>6, <1>7, <1>9 DEF TimerTypes
  <1>11. HandsOK(main', event_queue', event_freelist', alarm', flags')
    BY <1>9 DEF HandsOK
  <1>12. PeriodicsOK(tds', event_queue', alarm', it_interval')
    <2>1. /\ tds \in Seq(Event) /\ IsInjective(tds) /\ Len(tds) <= Periodics
          /\ \A x \in ToSet(tds) : it_interval[x] > 0 /\ x \in ToSet(event_queue) \cup {alarm}
      BY <1>4 DEF PeriodicsOK
    <2>2. ToSet(tds) \subseteq Event /\ e \notin ToSet(tds)
      <3>1. ToSet(tds) \subseteq Event
        BY <2>1 DEF ToSet
      <3>2. ToSet(tds) \subseteq ToSet(event_queue) \cup {alarm}
        BY <2>1
      <3>. QED
        BY <1>5, <3>1, <3>2
    <2>3. \A x \in ToSet(tds) : it_interval'[x] > 0 /\ x \in ToSet(event_queue') \cup {alarm}
      BY <1>7, <2>1, <2>2
    <2>4. CASE tds' = tds
      BY <1>6, <2>1, <2>3, <2>4 DEF PeriodicsOK
    <2>5. CASE Len(tds) < Periodics /\ period > 0 /\ tds' = Append(tds, e)
      <3>1. Append(tds, e) \in Seq(Event) /\ IsInjective(Append(tds, e))
            /\ ToSet(Append(tds, e)) = ToSet(tds) \cup {e}
        BY <1>5, <2>1, <2>2, AtTheEnd
      <3>2. Len(Append(tds, e)) = Len(tds) + 1 /\ Len(tds) \in Nat
        BY <2>1
      <3>3. Len(Append(tds, e)) <= Periodics
        BY <2>5, <3>2, TimerAssumption, PeriodicsType
      <3>4. it_interval'[e] > 0 /\ e \in ToSet(event_queue')
        BY <1>7, <2>5
      <3>. QED
        BY <1>6, <2>3, <2>5, <3>1, <3>3, <3>4 DEF PeriodicsOK
    <2>. QED
      BY <1>3, <2>4, <2>5
  <1>13. ~disturbed' => halted' # "null"
                        /\ NotEarly(event_queue', it_value', alarm', itimer', pending', due')
    BY <1>1, <1>6, <1>7
  <1>14. /\ Apart(event_queue', event_freelist', alarm', flags')
         /\ TopOK(event_queue', it_value', alarm', itimer', pending')
    BY <1>6, <1>7
  <1>. QED
    BY <1>10, <1>11, <1>12, <1>13, <1>14, FromParts


(* The first event of a queue goes off; the others are not early from now. *)
LEMMA PoppedOnTime ==
    ASSUME NEW q \in Seq(Event), q # <<>>, NEW v \in [Event -> Nat], NEW w \in [Event -> Nat],
           NEW d \in [Event -> Nat], OnTime(q, w, d), w[Head(q)] = 0,
           \A x \in Event : w[x] <= v[x]
    PROVE  d[Head(q)] = 0 /\ OnTime(Tail(q), v, d)
  <1>1. /\ Len(q) \in Nat /\ 1 \in 1..Len(q) /\ Head(q) = q[1] /\ q[1] \in Event
        /\ Tail(q) \in Seq(Event) /\ Len(Tail(q)) = Len(q) - 1
        /\ \A i \in 1..(Len(q) - 1) : Tail(q)[i] = q[i + 1]
    OBVIOUS
  <1>2. PICK p : p = Tail(q)
    OBVIOUS
  <1>3. PICK A : A = Sums(w, q)
    OBVIOUS
  <1>4. A[0] = 0 /\ \A k \in 1..Len(q) : A[k] = A[k - 1] + w[q[k]]
    BY <1>3, SumsType DEF IsSum
  <1>5. A[1] = 0
    <2>1. A[1] = A[1 - 1] + w[q[1]] /\ 1 - 1 = 0
      BY <1>1, <1>4
    <2>. QED
      BY <1>1, <1>4, <2>1
  <1>6. \A i \in 1..Len(p) : p[i] = q[i + 1] /\ p[i] \in Event
    BY <1>1, <1>2
  <1>7. \A i \in 1..Len(p) : p[i] = q[i + 1] /\ w[p[i]] <= v[p[i]]
    BY <1>6
  <1>8. p \in Seq(Event) /\ 1 \in Nat /\ Len(p) + 1 <= Len(q)
    BY <1>1, <1>2
  <1>9. Later(p, v, q, w, 1)
    BY <1>3, <1>5, <1>7, <1>8 DEF Later
  <1>10. OnTime(p, v, d)
    BY <1>9, LaterOnTime
  <1>11. d[q[1]] <= A[1] /\ d[q[1]] \in Nat
    BY <1>1, <1>3 DEF OnTime
  <1>. QED
    BY <1>1, <1>2, <1>5, <1>10, <1>11

(* The first event leaves the queue for the handler. *)
LEMMA Popped ==
    ASSUME NEW q, NEW fl, NEW a, NEW f, NEW m, NEW ts, NEW interval, NEW e,
           q # <<>>, e = Head(q),
           Apart(q, fl, a, f), HandsOK(m, q, fl, NULL, f),
           PeriodicsOK(ts, q, NULL, interval)
    PROVE  /\ Apart(Tail(q), fl, e, f) /\ HandsOK(m, Tail(q), fl, e, f)
           /\ PeriodicsOK(ts, Tail(q), e, interval)
           /\ e \in Event /\ e # NULL
  <1>1. q \in Seq(Event) /\ fl \in Seq(Event) /\ IsInjective(q) /\ IsInjective(fl)
        /\ ToSet(q) \cap ToSet(fl) = {} /\ \A x \in ToSet(q) : f[x] = {}
    BY DEF Apart
  <1>2. PICK r : r = Tail(q)
    OBVIOUS
  <1>3. r \in Seq(Event) /\ IsInjective(r) /\ ToSet(r) = ToSet(q) \ {e} /\ e \in ToSet(q)
    BY <1>1, <1>2, TheRest
  <1>4. ToSet(q) \subseteq Event
    BY <1>1 DEF ToSet
  <1>5. e \in Event /\ e # NULL
    BY <1>3, <1>4, TimerAssumption
  <1>6. Apart(r, fl, e, f)
    BY <1>1, <1>3, <1>5 DEF Apart
  <1>7. HandsOK(m, r, fl, e, f)
    BY <1>1, <1>3 DEF HandsOK
  <1>8. PeriodicsOK(ts, r, e, interval)
    <2>1. /\ ts \in Seq(Event) /\ IsInjective(ts) /\ Len(ts) <= Periodics
          /\ \A x \in ToSet(ts) : interval[x] > 0 /\ x \in ToSet(q) \cup {NULL}
      BY DEF PeriodicsOK
    <2>2. ToSet(ts) \subseteq Event
      BY <2>1 DEF ToSet
    <2>3. \A x \in ToSet(ts) : x \in ToSet(r) \cup {e}
      BY <1>3, <2>1, <2>2, TimerAssumption
    <2>. QED
      BY <2>1, <2>3 DEF PeriodicsOK
  <1>. QED
    BY <1>2, <1>5, <1>6, <1>7, <1>8

(* The handler is called. *)
LEMMA AlarmStep ==
    ASSUME TimerInv, alarm_handler
    PROVE  TimerInv'
  <1>1. /\ halted = "no" /\ alarm = NULL /\ pending /\ pending' = FALSE
        /\ UNCHANGED <<event_freelist, it_value, it_interval, flags, itimer, masked, main,
                       tds, history>>
    BY DEF alarm_handler, Running
  <1>2. /\ TimerTypes /\ Apart(event_queue, event_freelist, NULL, flags)
        /\ HandsOK(main, event_queue, event_freelist, NULL, flags)
        /\ PeriodicsOK(tds, event_queue, NULL, it_interval)
        /\ ~disturbed => NotEarly(event_queue, it_value, NULL, itimer, pending, due)
    BY <1>1 DEF TimerInv
  <1>3. /\ it_value \in [Event -> Nat] /\ due \in [Event -> Nat]
    BY <1>2, TimerAssumption DEF TimerTypes
  <1>4. CASE event_queue # <<>> /\ Pop(event_queue) /\ UNCHANGED halted
    <2>1. PICK q, e : q = event_queue /\ e = Head(q)
      OBVIOUS
    <2>2. event_queue' = Tail(q) /\ alarm' = e /\ q # <<>> /\ halted' = "no"
      BY <1>1, <1>4, <2>1 DEF Pop
    <2>3. /\ Apart(Tail(q), event_freelist, e, flags)
          /\ HandsOK(main, Tail(q), event_freelist, e, flags)
          /\ PeriodicsOK(tds, Tail(q), e, it_interval)
          /\ e \in Event /\ e # NULL
      BY <1>2, <2>1, <2>2, Popped
    <2>4. TimerTypes'
      BY <1>1, <1>2, <2>2 DEF TimerTypes, history
    <2>5. TopOK(event_queue', it_value', alarm', itimer', pending')
      BY <2>2, <2>3 DEF TopOK
    <2>6. ASSUME ~disturbed
          PROVE  itimer = 0 /\ due[e] = 0 /\ OnTime(Tail(q), it_value, due)
      <3>1. NotEarly(q, it_value, NULL, itimer, pending, due)
        BY <1>2, <2>1, <2>6
      <3>2. itimer = 0 /\ OnTime(q, Left(q, it_value, 0), due)
        BY <1>1, <3>1 DEF NotEarly
      <3>3. PICK w : w = Left(q, it_value, 0)
        OBVIOUS
      <3>4. q \in Seq(Event) /\ Head(q) = e
        BY <1>2, <2>1 DEF Apart
      <3>5. w = [it_value EXCEPT ![e] = 0]
        BY <2>2, <3>3, <3>4 DEF Left
      <3>6. w \in [Event -> Nat] /\ w[e] = 0
        BY <1>3, <2>3, <3>5
      <3>7. \A x \in Event : w[x] <= it_value[x]
        BY <1>3, <3>5
      <3>8. due[Head(q)] = 0 /\ OnTime(Tail(q), it_value, due)
        BY <1>3, <2>2, <3>2, <3>3, <3>4, <3>6, <3>7, PoppedOnTime
      <3>. QED
        BY <3>2, <3>4, <3>8
    <2>7. ~disturbed' => halted' # "null"
                         /\ NotEarly(event_queue', it_value', alarm', itimer', pending', due')
      <3>1. ASSUME ~disturbed PROVE NotEarly(Tail(q), it_value, e, itimer, FALSE, due)
        BY <2>3, <2>6, <3>1 DEF NotEarly
      <3>. QED
        BY <1>1, <2>2, <3>1 DEF history
    <2>. QED
      BY <1>1, <2>2, <2>3, <2>4, <2>5, <2>7, FromParts
  <1>5. CASE event_queue = <<>> /\ halted' = "null" /\ UNCHANGED <<event_queue, alarm>>
    <2>1. disturbed
      BY <1>1, <1>2, <1>5 DEF NotEarly
    <2>2. disturbed'
      BY <1>1, <2>1 DEF history
    <2>3. TimerTypes'
      BY <1>1, <1>2, <1>5 DEF TimerTypes, history
    <2>4. TopOK(event_queue', it_value', alarm', itimer', pending')
      BY <1>5 DEF TopOK
    <2>. QED
      BY <1>1, <1>2, <1>5, <2>2, <2>3, <2>4, FromParts
  <1>. QED
    BY <1>4, <1>5 DEF alarm_handler

(* The callback of a timer without an interval has returned. *)
LEMMA OneShotEnded ==
    ASSUME TimerInv, alarm # NULL, OneShotEnds, ~(it_interval[alarm] > 0)
    PROVE  /\ flags' \in [Event -> SUBSET {"CANCELLED", "DELETED"}]
           /\ Apart(event_queue, event_freelist', NULL, flags')
           /\ HandsOK(main, event_queue, event_freelist', NULL, flags')
           /\ PeriodicsOK(tds, event_queue, NULL, it_interval)
  <1>1. PICK a : a = alarm
    OBVIOUS
  <1>2. /\ Apart(event_queue, event_freelist, a, flags)
        /\ HandsOK(main, event_queue, event_freelist, a, flags)
        /\ PeriodicsOK(tds, event_queue, a, it_interval)
        /\ flags \in [Event -> SUBSET {"CANCELLED", "DELETED"}]
    BY <1>1 DEF TimerInv, TimerTypes
  <1>3. /\ event_queue \in Seq(Event) /\ event_freelist \in Seq(Event) /\ a \in Event
        /\ IsInjective(event_queue) /\ IsInjective(event_freelist)
        /\ ToSet(event_queue) \cap ToSet(event_freelist) = {}
        /\ a \notin ToSet(event_queue) /\ a \notin ToSet(event_freelist)
        /\ \A x \in ToSet(event_queue) : flags[x] = {}
    BY <1>1, <1>2 DEF Apart
  <1>4. /\ flags' = [flags EXCEPT ![a] = @ \cup {"CANCELLED", "DELETED"}]
        /\ event_freelist' = <<a>> \o event_freelist
    BY <1>1 DEF OneShotEnds
  <1>5. flags' \in [Event -> SUBSET {"CANCELLED", "DELETED"}]
        /\ \A x \in Event : x # a => flags'[x] = flags[x]
    BY <1>2, <1>3, <1>4
  <1>6. /\ event_freelist' \in Seq(Event) /\ IsInjective(event_freelist')
        /\ ToSet(event_freelist') = ToSet(event_freelist) \cup {a}
    BY <1>3, <1>4, AtTheFront
  <1>7. ToSet(event_queue) \subseteq Event /\ ToSet(event_freelist) \subseteq Event
    BY <1>3 DEF ToSet
  <1>8. Apart(event_queue, event_freelist', NULL, flags')
    BY <1>3, <1>5, <1>6, <1>7, TimerAssumption DEF Apart
  <1>9. HandsOK(main, event_queue, event_freelist', NULL, flags')
    <2>1. main.pc = "create" => main.event \in ToSet(event_freelist')
      BY <1>2, <1>6 DEF HandsOK
    <2>2. main.pc \in {"create", "settime"} => flags'[main.event] = {}
      <3>1. main.pc \in {"create", "settime"} =>
                main.event \in Event /\ main.event # a /\ flags[main.event] = {}
        BY <1>2, <1>3, <1>7 DEF HandsOK
      <3>. QED
        BY <1>5, <3>1
    <2>3. main.pc \in {"settime", "cancelled", "recycle"} =>
              main.event \in Event
              /\ main.event \notin ToSet(event_queue) \cup ToSet(event_freelist') \cup {NULL}
      BY <1>2, <1>6, TimerAssumption DEF HandsOK
    <2>4. main.pc = "recycle" =>
              IsInjective(main.list) /\ ToSet(main.list) \subseteq ToSet(event_freelist')
      BY <1>2, <1>6 DEF HandsOK
    <2>. QED
      BY <2>1, <2>2, <2>3, <2>4 DEF HandsOK
  <1>10. PeriodicsOK(tds, event_queue, NULL, it_interval)
    <2>1. /\ tds \in Seq(Event) /\ IsInjective(tds) /\ Len(tds) <= Periodics
          /\ \A x \in ToSet(tds) : it_interval[x] > 0 /\ x \in ToSet(event_queue) \cup {a}
      BY <1>2 DEF PeriodicsOK
    <2>2. a \notin ToSet(tds)
      BY <1>1, <2>1
    <2>3. \A x \in ToSet(tds) : it_interval[x] > 0 /\ x \in ToSet(event_queue) \cup {NULL}
      BY <2>1, <2>2
    <2>. QED
      BY <2>1, <2>3 DEF PeriodicsOK
  <1>. QED
    BY <1>5, <1>8, <1>9, <1>10

(* The callback of a periodic timer has returned, and it is back on the    *)
(* queue z.                                                                *)
LEMMA PutBack ==
    ASSUME TimerInv, alarm # NULL, NEW z, z \in Seq(Event), IsInjective(z),
           ToSet(z) = ToSet(event_queue) \cup {alarm}
    PROVE  /\ Apart(z, event_freelist, NULL, flags)
           /\ HandsOK(main, z, event_freelist, NULL, flags)
           /\ PeriodicsOK(tds, z, NULL, it_interval)
  <1>1. /\ Apart(event_queue, event_freelist, alarm, flags)
        /\ HandsOK(main, event_queue, event_freelist, alarm, flags)
        /\ PeriodicsOK(tds, event_queue, alarm, it_interval)
    BY DEF TimerInv
  <1>2. /\ event_freelist \in Seq(Event) /\ alarm \in Event /\ IsInjective(event_freelist)
        /\ ToSet(event_queue) \cap ToSet(event_freelist) = {}
        /\ alarm \notin ToSet(event_freelist) /\ flags[alarm] = {}
        /\ \A x \in ToSet(event_queue) : flags[x] = {}
    BY <1>1 DEF Apart
  <1>3. ToSet(z) \subseteq Event /\ ToSet(event_freelist) \subseteq Event
    BY <1>2 DEF ToSet
  <1>4. Apart(z, event_freelist, NULL, flags)
    BY <1>2, <1>3, TimerAssumption DEF Apart
  <1>5. HandsOK(main, z, event_freelist, NULL, flags)
    BY <1>1, TimerAssumption DEF HandsOK
  <1>6. PeriodicsOK(tds, z, NULL, it_interval)
    BY <1>1 DEF PeriodicsOK
  <1>. QED
    BY <1>4, <1>5, <1>6

(* The handler goes on with queue z and it_values w: it runs the callback  *)
(* of the next event, or sets the timer and returns.                       *)
LEMMA HandlerGoesOn ==
    ASSUME TimerInv, alarm # NULL, halted = "no",
           NEW z, NEW w \in [Event -> Nat],
           due' \in [Event -> 0..MaxTime], flags' \in [Event -> SUBSET {"CANCELLED", "DELETED"}],
           Apart(z, event_freelist', NULL, flags'),
           HandsOK(main, z, event_freelist', NULL, flags'),
           PeriodicsOK(tds, z, NULL, it_interval),
           ~disturbed => OnTime(z, w, due'),
           \/ AtOnce(z, w) /\ Pop(z) /\ it_value' = w /\ UNCHANGED itimer
           \/ ~AtOnce(z, w) /\ event_queue' = z /\ alarm' = NULL /\ Reissue(z, w, itimer),
           UNCHANGED <<it_interval, pending, masked, main, tds, halted, disturbed>>
    PROVE  TimerInv'
  <1>1. TimerTypes /\ itimer \in Nat
    BY DEF TimerInv, TimerTypes
  <1>2. ~disturbed => itimer = 0 /\ ~pending
    BY DEF TimerInv, NotEarly
  <1>3. z \in Seq(Event)
    BY DEF Apart
  <1>4. PICK d : d = due'
    OBVIOUS
  <1>5. d \in [Event -> Nat] /\ (~disturbed => OnTime(z, w, d))
    BY <1>4, TimerAssumption
  <1>6. CASE AtOnce(z, w) /\ Pop(z) /\ it_value' = w /\ UNCHANGED itimer
    <2>1. PICK e : e = Head(z)
      OBVIOUS
    <2>2. z # <<>> /\ w[e] = 0 /\ event_queue' = Tail(z) /\ alarm' = e
      BY <1>6, <2>1 DEF AtOnce, Pop
    <2>3. PICK fl, f : fl = event_freelist' /\ f = flags'
      OBVIOUS
    <2>4. /\ Apart(z, fl, NULL, f) /\ HandsOK(main, z, fl, NULL, f)
      BY <2>3
    <2>5. /\ Apart(Tail(z), fl, e, f) /\ HandsOK(main, Tail(z), fl, e, f)
          /\ PeriodicsOK(tds, Tail(z), e, it_interval)
          /\ e \in Event /\ e # NULL
      BY <2>1, <2>2, <2>4, Popped
    <2>6. TimerTypes'
      BY <1>1, <1>6 DEF TimerTypes
    <2>7. TopOK(event_queue', it_value', alarm', itimer', pending')
      BY <2>2, <2>5 DEF TopOK
    <2>8. ASSUME ~disturbed PROVE NotEarly(Tail(z), w, e, itimer, pending, d)
      <3>1. OnTime(z, w, d)
        BY <1>5, <2>8
      <3>2. \A x \in Event : w[x] <= w[x]
        OBVIOUS
      <3>3. w[Head(z)] = 0
        BY <2>1, <2>2
      <3>4. d[Head(z)] = 0 /\ OnTime(Tail(z), w, d)
        BY <1>3, <1>5, <2>2, <3>1, <3>2, <3>3, PoppedOnTime
      <3>. QED
        BY <1>2, <2>1, <2>5, <2>8, <3>4 DEF NotEarly
    <2>9. ~disturbed' => halted' # "null"
                         /\ NotEarly(event_queue', it_value', alarm', itimer', pending', due')
      BY <1>4, <1>6, <2>2, <2>8
    <2>. QED
      BY <2>2, <2>3, <2>5, <2>6, <2>7, <2>9, FromParts
  <1>7. CASE ~AtOnce(z, w) /\ event_queue' = z /\ alarm' = NULL /\ Reissue(z, w, itimer)
    <2>1. it_value' = w /\ (z = <<>> => itimer' = itimer)
          /\ (z # <<>> => itimer' = w[Head(z)] /\ w[Head(z)] \in Nat /\ w[Head(z)] > 0)
      <3>1. CASE z = <<>>
        BY <1>7, <3>1 DEF Reissue
      <3>2. CASE z # <<>>
        <4>1. Head(z) \in Event
          BY <1>3, <3>2
        <4>2. w[Head(z)] \in Nat /\ w[Head(z)] # 0
          BY <1>7, <3>2, <4>1 DEF AtOnce
        <4>3. timerroundup(w[Head(z)]) = w[Head(z)]
          BY <4>2 DEF timerroundup
        <4>4. itimer' = timerroundup(w[Head(z)])
              /\ it_value' = [w EXCEPT ![Head(z)] = timerroundup(@)]
          BY <1>7, <3>2 DEF Reissue
        <4>5. it_value' = w
          BY <4>1, <4>3, <4>4
        <4>. QED
          BY <3>2, <4>2, <4>3, <4>4, <4>5
      <3>. QED
        BY <3>1, <3>2
    <2>2. PICK i : i = itimer'
      OBVIOUS
    <2>3. itimer' \in Nat
      BY <1>1, <2>1
    <2>4. TimerTypes'
      BY <1>1, <2>1, <2>3 DEF TimerTypes
    <2>5. TopOK(event_queue', it_value', alarm', itimer', pending')
      <3>1. z # <<>> => itimer' <= w[Head(z)] /\ itimer' > 0
        BY <2>1
      <3>. QED
        BY <1>7, <2>1, <3>1 DEF TopOK
    <2>6. ASSUME ~disturbed PROVE NotEarly(z, w, NULL, i, pending, d)
      <3>1. OnTime(z, w, d) /\ ~pending
        BY <1>2, <1>5, <2>6
      <3>2. Left(z, w, i) = w
        BY <1>3, <2>1, <2>2, LeftSame
      <3>3. i > 0 => z # <<>>
        BY <1>2, <2>1, <2>2, <2>6
      <3>. QED
        BY <3>1, <3>2, <3>3 DEF NotEarly
    <2>7. ~disturbed' => halted' # "null"
                         /\ NotEarly(event_queue', it_value', alarm', itimer', pending', due')
      BY <1>4, <1>7, <2>1, <2>2, <2>6
    <2>8. /\ Apart(event_queue', event_freelist', alarm', flags')
          /\ HandsOK(main', event_queue', event_freelist', alarm', flags')
          /\ PeriodicsOK(tds', event_queue', alarm', it_interval')
      BY <1>7
    <2>. QED
      BY <2>4, <2>5, <2>7, <2>8, FromParts
  <1>. QED
    BY <1>6, <1>7

(* A callback returns. *)
LEMMA CallbackStep ==
    ASSUME TimerInv, callback_returns
    PROVE  TimerInv'
  <1>1. /\ halted = "no" /\ alarm # NULL
        /\ UNCHANGED <<it_interval, pending, masked, main, tds, halted, disturbed>>
    BY DEF callback_returns
  <1>2. /\ it_value \in [Event -> Nat] /\ it_interval \in [Event -> 0..MaxTime]
        /\ due \in [Event -> 0..MaxTime] /\ flags \in [Event -> SUBSET {"CANCELLED", "DELETED"}]
    BY DEF TimerInv, TimerTypes
  <1>3. /\ event_queue \in Seq(Event) /\ IsInjective(event_queue)
        /\ alarm \in Event /\ alarm \notin ToSet(event_queue)
    BY <1>1 DEF TimerInv, Apart
  <1>4. ~disturbed => OnTime(event_queue, it_value, due)
    BY <1>1 DEF TimerInv, NotEarly
  <1>5. CASE ~(it_interval[alarm] > 0)
    <2>1. /\ OneShotEnds
          /\ \/ AtOnce(event_queue, it_value) /\ Pop(event_queue) /\ it_value' = it_value
                /\ UNCHANGED itimer
             \/ ~AtOnce(event_queue, it_value) /\ event_queue' = event_queue /\ alarm' = NULL
                /\ Reissue(event_queue, it_value, itimer)
      BY <1>5 DEF callback_returns
    <2>2. /\ flags' \in [Event -> SUBSET {"CANCELLED", "DELETED"}]
          /\ Apart(event_queue, event_freelist', NULL, flags')
          /\ HandsOK(main, event_queue, event_freelist', NULL, flags')
          /\ PeriodicsOK(tds, event_queue, NULL, it_interval)
      BY <1>1, <1>5, <2>1, OneShotEnded
    <2>3. due' = due
      BY <2>1 DEF OneShotEnds
    <2>4. due' \in [Event -> 0..MaxTime] /\ (~disturbed => OnTime(event_queue, it_value, due'))
      BY <1>2, <1>4, <2>3
    <2>. QED
      BY <1>1, <1>2, <2>1, <2>2, <2>4, HandlerGoesOn
  <1>6. CASE it_interval[alarm] > 0
    <2>1. PICK a, t : a = alarm /\ t = it_interval[a]
      OBVIOUS
    <2>2. PICK z, w : /\ z = Insert(it_value, event_queue, a, t).queue
                      /\ w = Insert(it_value, event_queue, a, t).value
      OBVIOUS
    <2>3. /\ due' = [due EXCEPT ![a] = t]
          /\ UNCHANGED <<event_freelist, flags>>
          /\ \/ AtOnce(z, w) /\ Pop(z) /\ it_value' = w /\ UNCHANGED itimer
             \/ ~AtOnce(z, w) /\ event_queue' = z /\ alarm' = NULL /\ Reissue(z, w, itimer)
      BY <1>6, <2>1, <2>2 DEF callback_returns
    <2>4. t \in Nat /\ t \in 0..MaxTime /\ a \in Event /\ a \notin ToSet(event_queue)
      BY <1>2, <1>3, <2>1, TimerAssumption
    <2>5. InsertedOK(z, w, it_value, event_queue, a, t)
      BY <1>2, <1>3, <2>2, <2>4, Inserted
    <2>6. /\ z \in Seq(Event) /\ w \in [Event -> Nat] /\ IsInjective(z)
          /\ ToSet(z) = ToSet(event_queue) \cup {alarm}
      BY <2>1, <2>5 DEF InsertedOK
    <2>7. /\ Apart(z, event_freelist, NULL, flags)
          /\ HandsOK(main, z, event_freelist, NULL, flags)
          /\ PeriodicsOK(tds, z, NULL, it_interval)
      BY <1>1, <2>6, PutBack
    <2>8. due' \in [Event -> 0..MaxTime]
      BY <1>2, <2>3, <2>4
    <2>9. ASSUME ~disturbed PROVE OnTime(z, w, due')
      <3>1. PICK c : c = due'
        OBVIOUS
      <3>2. c[a] = t /\ SameOn(ToSet(event_queue), c, due)
        <4>1. ToSet(event_queue) \subseteq Event
          BY <1>3 DEF ToSet
        <4>. QED
          BY <1>2, <2>3, <2>4, <3>1, <4>1 DEF SameOn
      <3>3. OnTime(event_queue, it_value, due)
        BY <1>4, <2>9
      <3>4. OnTime(z, w, c)
        <4>1. event_queue \in Seq(Event) /\ IsInjective(event_queue)
              /\ a \notin ToSet(event_queue) /\ a \in Event
              /\ it_value \in [Event -> Nat] /\ t \in Nat
          BY <1>2, <1>3, <2>4
        <4>. QED
          BY <2>2, <3>2, <3>3, <4>1, InsertedOnTime
      <3>. QED
        BY <3>1, <3>4
    <2>10. /\ Apart(z, event_freelist', NULL, flags')
           /\ HandsOK(main, z, event_freelist', NULL, flags')
           /\ flags' \in [Event -> SUBSET {"CANCELLED", "DELETED"}]
      BY <1>2, <2>3, <2>7
    <2>. QED
      BY <1>1, <2>3, <2>6, <2>7, <2>8, <2>9, <2>10, HandlerGoesOn
  <1>. QED
    BY <1>5, <1>6

(* The timer is set for the first event of a queue. *)
LEMMA Reissued ==
    ASSUME NEW q \in Seq(Event), NEW v \in [Event -> Nat], Reissue(q, v, 0)
    PROVE  /\ it_value' \in [Event -> Nat] /\ itimer' \in Nat
           /\ \A x \in Event : v[x] <= it_value'[x]
           /\ q = <<>> => itimer' = 0
           /\ q # <<>> => itimer' = it_value'[Head(q)] /\ itimer' > 0
  <1>1. CASE q = <<>>
    <2>1. itimer' = 0 /\ it_value' = v
      BY <1>1 DEF Reissue
    <2>. QED
      BY <1>1, <2>1
  <1>2. CASE q # <<>>
    <2>1. PICK h : h = Head(q)
      OBVIOUS
    <2>2. h \in Event /\ v[h] \in Nat
      BY <1>2, <2>1
    <2>3. PICK u : u = timerroundup(v[h])
      OBVIOUS
    <2>4. u \in Nat /\ u > 0 /\ v[h] <= u
      BY <2>2, <2>3 DEF timerroundup
    <2>5. itimer' = u /\ it_value' = [v EXCEPT ![h] = u]
      BY <1>2, <2>1, <2>3 DEF Reissue
    <2>6. it_value' \in [Event -> Nat] /\ it_value'[h] = u
      BY <2>2, <2>4, <2>5
    <2>7. \A x \in Event : v[x] <= it_value'[x]
      BY <2>2, <2>4, <2>5
    <2>. QED
      BY <1>2, <2>1, <2>4, <2>5, <2>6, <2>7
  <1>. QED
    BY <1>1, <1>2

(* timer_delete of a periodic timer. *)
LEMMA DeleteStep ==
    ASSUME TimerInv, timer_delete
    PROVE  TimerInv'
  <1>1. /\ alarm = NULL /\ halted = "no" /\ masked' = FALSE
        /\ UNCHANGED <<event_freelist, it_interval, pending, alarm, halted, due>>
    BY DEF timer_delete, At, Running
  <1>2. PICK q, fl, v : q = event_queue /\ fl = event_freelist /\ v = it_value
    OBVIOUS
  <1>3. PICK i \in DOMAIN tds :
          LET x == tds[i]
              n == SelectInSeq(event_queue, LAMBDA y : y = x)
              r == RemoveAt(event_queue, n)
              u == IF n = 1 /\ r # <<>>
                   THEN [it_value EXCEPT ![r[1]] = @ + (it_value[x] - itimer)] ELSE it_value
          IN  /\ event_queue' = r /\ Reissue(r, u, 0)
              /\ flags' = [flags EXCEPT ![x] = {"CANCELLED"}]
              /\ disturbed' = (disturbed \/ pending \/ n < Len(event_queue))
              /\ tds' = RemoveAt(tds, i) /\ Goto("cancelled", x, <<>>)
    BY DEF timer_delete
  <1>4. PICK e : e = tds[i]
    OBVIOUS
  <1>5. PICK k : k = SelectInSeq(q, LAMBDA x : x = e)
    OBVIOUS
  <1>6. PICK rest : rest = RemoveAt(q, k)
    OBVIOUS
  <1>7. PICK value : value = IF k = 1 /\ rest # <<>>
                             THEN [v EXCEPT ![rest[1]] = @ + (v[e] - itimer)] ELSE v
    OBVIOUS
  <1>8. /\ event_queue' = rest /\ Reissue(rest, value, 0)
        /\ flags' = [flags EXCEPT ![e] = {"CANCELLED"}]
        /\ disturbed' = (disturbed \/ pending \/ k < Len(event_queue))
        /\ tds' = RemoveAt(tds, i) /\ Goto("cancelled", e, <<>>)
    BY <1>2, <1>3, <1>4, <1>5, <1>6, <1>7
  <1>9. /\ TimerTypes /\ Apart(q, fl, NULL, flags)
        /\ PeriodicsOK(tds, q, NULL, it_interval)
        /\ TopOK(q, v, NULL, itimer, pending)
        /\ ~disturbed => NotEarly(q, v, NULL, itimer, pending, due)
    BY <1>1, <1>2 DEF TimerInv
  <1>10. /\ q \in Seq(Event) /\ fl \in Seq(Event) /\ IsInjective(q) /\ IsInjective(fl)
         /\ ToSet(q) \cap ToSet(fl) = {} /\ NULL \notin ToSet(q) \cup ToSet(fl)
         /\ \A x \in ToSet(q) : flags[x] = {}
    BY <1>9 DEF Apart
  <1>11. /\ tds \in Seq(Event) /\ IsInjective(tds) /\ Len(tds) <= Periodics
         /\ \A x \in ToSet(tds) : it_interval[x] > 0 /\ x \in ToSet(q) \cup {NULL}
    BY <1>9 DEF PeriodicsOK
  <1>12. /\ v \in [Event -> Nat] /\ itimer \in Nat /\ due \in [Event -> Nat]
         /\ flags \in [Event -> SUBSET {"CANCELLED", "DELETED"}]
    BY <1>2, <1>9, TimerAssumption DEF TimerTypes
  <1>13. i \in 1..Len(tds) /\ e \in Event /\ e \in ToSet(tds)
    <2>1. i \in 1..Len(tds)
      BY <1>11
    <2>2. DOMAIN tds = 1..Len(tds) /\ tds[i] \in Event
      BY <1>11, <2>1
    <2>. QED
      BY <1>4, <2>1, <2>2 DEF ToSet
  <1>14. e \in ToSet(q) /\ e # NULL
    BY <1>11, <1>13, TimerAssumption
  <1>15. k \in 1..Len(q) /\ q[k] = e
    BY <1>5, <1>10, <1>14, Found
  <1>16. /\ rest \in Seq(Event) /\ Len(rest) = Len(q) - 1
         /\ \A j \in 1..(k - 1) : rest[j] = q[j]
         /\ ToSet(rest) = ToSet(q) \ {e} /\ IsInjective(rest)
    <2>1. q \in Seq(Event) /\ IsInjective(q)
      BY <1>10
    <2>2. /\ RemoveAt(q, k) \in Seq(Event) /\ Len(RemoveAt(q, k)) = Len(q) - 1
          /\ \A j \in 1..(k - 1) : RemoveAt(q, k)[j] = q[j]
          /\ ToSet(RemoveAt(q, k)) = ToSet(q) \ {q[k]} /\ IsInjective(RemoveAt(q, k))
      BY <1>15, <2>1, LinkedOut
    <2>. QED
      BY <1>6, <1>15, <2>2
  <1>17. /\ tds' \in Seq(Event) /\ Len(tds') = Len(tds) - 1
         /\ ToSet(tds') = ToSet(tds) \ {e} /\ IsInjective(tds')
    BY <1>4, <1>8, <1>11, <1>13, LinkedOut
  <1>18. q # <<>> /\ Head(q) = q[1] /\ Head(q) \in Event /\ Len(q) \in Nat
         /\ itimer <= v[Head(q)]
    <2>1. q # <<>> /\ Head(q) = q[1] /\ Head(q) \in Event /\ Len(q) \in Nat
      BY <1>10, <1>15
    <2>. QED
      BY <1>9, <2>1 DEF TopOK
  <1>19. value \in [Event -> Nat] /\ \A x \in Event : v[x] <= value[x]
    <2>1. CASE k = 1 /\ rest # <<>>
      <3>1. itimer <= v[e]
        BY <1>15, <1>18, <2>1
      <3>2. PICK n : n = v[e] - itimer
        OBVIOUS
      <3>3. v[e] \in Nat
        BY <1>12, <1>13
      <3>4. n \in Nat
        BY <1>12, <3>1, <3>2, <3>3
      <3>5. rest[1] \in Event
        BY <1>16, <2>1
      <3>6. value = [v EXCEPT ![rest[1]] = @ + n]
        BY <1>7, <2>1, <3>2
      <3>. QED
        BY <1>12, <3>4, <3>5, <3>6
    <2>2. CASE ~(k = 1 /\ rest # <<>>)
      <3>1. value = v
        BY <1>7, <2>2
      <3>. QED
        BY <1>12, <3>1
    <2>. QED
      BY <2>1, <2>2
  <1>20. /\ it_value' \in [Event -> Nat] /\ itimer' \in Nat
         /\ \A x \in Event : value[x] <= it_value'[x]
         /\ rest = <<>> => itimer' = 0
         /\ rest # <<>> => itimer' = it_value'[Head(rest)] /\ itimer' > 0
    BY <1>8, <1>16, <1>19, Reissued
  <1>21. main' = [pc |-> "cancelled", event |-> e, list |-> <<>>] /\ <<>> \in Seq(Event)
    BY <1>8 DEF Goto
  <1>22. main' \in MainStates /\ main'.pc = "cancelled" /\ main'.event = e
    BY <1>13, <1>21 DEF MainStates
  <1>23. flags' \in [Event -> SUBSET {"CANCELLED", "DELETED"}]
         /\ \A x \in Event : x # e => flags'[x] = flags[x]
    BY <1>8, <1>12, <1>13
  <1>24. disturbed' \in BOOLEAN
    BY <1>8, Zenon
  <1>25. TimerTypes'
    BY <1>1, <1>9, <1>20, <1>22, <1>23, <1>24 DEF TimerTypes
  <1>26. Apart(event_queue', event_freelist', alarm', flags')
    <2>1. ToSet(rest) \subseteq Event
      BY <1>16 DEF ToSet
    <2>2. \A x \in ToSet(rest) : flags'[x] = {}
      BY <1>10, <1>16, <1>23, <2>1
    <2>. QED
      BY <1>1, <1>2, <1>8, <1>10, <1>16, <2>2 DEF Apart
  <1>27. HandsOK(main', event_queue', event_freelist', alarm', flags')
    BY <1>1, <1>2, <1>8, <1>10, <1>13, <1>14, <1>16, <1>22 DEF HandsOK
  <1>28. PeriodicsOK(tds', event_queue', alarm', it_interval')
    <2>1. Len(tds') <= Periodics
      <3>1. Len(tds) \in Nat
        BY <1>11
      <3>. QED
        BY <1>11, <1>17, <3>1, PeriodicsType
    <2>2. \A x \in ToSet(tds') : it_interval[x] > 0 /\ x \in ToSet(rest) \cup {NULL}
      BY <1>11, <1>16, <1>17
    <2>. QED
      BY <1>1, <1>8, <1>17, <2>1, <2>2 DEF PeriodicsOK
  <1>29. TopOK(event_queue', it_value', alarm', itimer', pending')
    <2>1. rest # <<>> => itimer' <= it_value'[Head(rest)] /\ itimer' > 0
      BY <1>20
    <2>. QED
      BY <1>8, <2>1 DEF TopOK
  <1>30. ASSUME ~disturbed'
         PROVE  NotEarly(event_queue', it_value', alarm', itimer', pending', due')
    <2>1. ~disturbed /\ ~pending /\ ~(k < Len(event_queue))
      BY <1>8, <1>30, Zenon
    <2>2. k = Len(q)
      BY <1>2, <1>15, <1>18, <2>1
    <2>3. PICK w, u, t : w = Left(q, v, itimer) /\ u = it_value' /\ t = itimer'
      OBVIOUS
    <2>4. OnTime(q, w, due)
      BY <1>9, <2>1, <2>3 DEF NotEarly
    <2>5. w = [v EXCEPT ![Head(q)] = itimer]
      BY <1>18, <2>3 DEF Left
    <2>6. w \in [Event -> Nat] /\ \A x \in Event : w[x] <= v[x]
      BY <1>12, <1>18, <2>5
    <2>7. u \in [Event -> Nat] /\ \A x \in Event : value[x] <= u[x]
      BY <1>20, <2>3
    <2>8. \A x \in Event : w[x] <= u[x]
      <3>1. ASSUME NEW x \in Event PROVE w[x] <= u[x]
        <4>1. w[x] \in Nat /\ v[x] \in Nat /\ value[x] \in Nat /\ u[x] \in Nat
          BY <1>12, <1>19, <2>6, <2>7
        <4>2. w[x] <= v[x] /\ v[x] <= value[x] /\ value[x] <= u[x]
          BY <1>19, <2>6, <2>7
        <4>. QED
          BY <4>1, <4>2
      <3>. QED
        BY <3>1
    <2>9. \A j \in 1..Len(rest) : rest[j] = q[j + 0] /\ rest[j] \in Event
      <3>1. ASSUME NEW j \in 1..Len(rest) PROVE rest[j] = q[j + 0] /\ rest[j] \in Event
        <4>1. j \in 1..(k - 1) /\ j + 0 = j
          BY <1>16, <1>18, <2>2
        <4>2. rest[j] \in Event
          BY <1>16
        <4>. QED
          BY <1>16, <4>1, <4>2
      <3>. QED
        BY <3>1
    <2>10. Sums(w, q)[0] = 0
      BY <1>10, <2>6, SumsType DEF IsSum
    <2>11. 0 \in Nat /\ Len(rest) + 0 <= Len(q)
      BY <1>16, <1>18
    <2>12. \A j \in 1..Len(rest) : rest[j] = q[j + 0] /\ w[rest[j]] <= u[rest[j]]
      BY <2>8, <2>9
    <2>13. Later(rest, u, q, w, 0)
      BY <1>10, <1>16, <2>6, <2>7, <2>10, <2>11, <2>12 DEF Later
    <2>14. OnTime(rest, u, due)
      BY <1>12, <2>4, <2>13, LaterOnTime
    <2>15. Left(rest, u, t) = u
      BY <1>16, <1>20, <2>3, <2>7, LeftSame
    <2>16. t > 0 => rest # <<>>
      BY <1>20, <2>3
    <2>17. NotEarly(rest, u, NULL, t, pending, due)
      BY <2>1, <2>14, <2>15, <2>16 DEF NotEarly
    <2>. QED
      BY <1>1, <1>8, <2>3, <2>17
  <1>31. ~disturbed' => halted' # "null"
                        /\ NotEarly(event_queue', it_value', alarm', itimer', pending', due')
    BY <1>1, <1>30
  <1>. QED
    BY <1>25, <1>26, <1>27, <1>28, <1>29, <1>31, FromParts

-----------------------------------------------------------------------------
(* Where each event is.  These lemmas build on the invariant above.        *)

(* All that comes behind the k-th is there. *)
LEMMA AllBehind ==
    ASSUME NEW S, NEW q \in Seq(S), NEW k \in 1..Len(q)
    PROVE  ToSet(SubSeq(q, k + 1, Len(q))) = {q[j] : j \in (k + 1)..Len(q)}
  <1> DEFINE b == SubSeq(q, k + 1, Len(q))
  <1>1. Len(q) \in Nat /\ k \in Int /\ k + 1 \in Int
    OBVIOUS
  <1>2. Len(b) = Len(q) - k /\ \A i \in 1..(Len(q) - k) : b[i] = q[k + i]
    <2>1. \A i \in (k + 1)..Len(q) : q[i] \in S
      OBVIOUS
    <2>. QED
      BY <1>1, <2>1, SubSeqProperties
  <1>3. b \in Seq(S)
    <2>1. \A i \in (k + 1)..Len(q) : q[i] \in S
      OBVIOUS
    <2>. QED
      BY <1>1, <2>1, SubSeqProperties
  <1> HIDE DEF b
  <1>4. DOMAIN b = 1..(Len(q) - k)
    BY <1>2, <1>3
  <1>5. \A i \in 1..(Len(q) - k) : b[i] \in {q[j] : j \in (k + 1)..Len(q)}
    <2>1. ASSUME NEW i \in 1..(Len(q) - k) PROVE b[i] \in {q[j] : j \in (k + 1)..Len(q)}
      <3>1. k + i \in (k + 1)..Len(q) /\ b[i] = q[k + i]
        BY <1>1, <1>2
      <3>. QED
        BY <3>1
    <2>. QED
      BY <2>1
  <1>6. \A j \in (k + 1)..Len(q) : q[j] \in {b[i] : i \in 1..(Len(q) - k)}
    <2>1. ASSUME NEW j \in (k + 1)..Len(q) PROVE q[j] \in {b[i] : i \in 1..(Len(q) - k)}
      <3>1. PICK i : i = j - k
        OBVIOUS
      <3>2. i \in 1..(Len(q) - k) /\ k + i = j
        BY <1>1, <3>1
      <3>3. b[i] = q[j]
        BY <1>2, <3>2
      <3>. QED
        BY <3>2, <3>3
    <2>. QED
      BY <2>1
  <1>7. ToSet(b) = {b[i] : i \in 1..(Len(q) - k)}
    BY <1>4 DEF ToSet
  <1>. QED
    BY <1>5, <1>6, <1>7 DEF b

(* A step that moves no event, at a place where none is in the hands of    *)
(* the main program.                                                       *)
LEMMA PlacesSame ==
    ASSUME NEW m, NEW n, NEW q, NEW fl, NEW a, NEW l, Places(m, q, fl, a, l),
           \/ n = m
           \/ /\ m.pc \notin {"create", "settime", "cancelled", "recycle"}
              /\ n.pc \notin {"create", "settime", "cancelled", "recycle"}
    PROVE  Places(n, q, fl, a, l)
  <1>1. CASE n = m
    BY <1>1
  <1>2. CASE /\ m.pc \notin {"create", "settime", "cancelled", "recycle"}
             /\ n.pc \notin {"create", "settime", "cancelled", "recycle"}
    <2>1. Hands(n, a) = Hands(m, a)
      BY <1>2 DEF Hands
    <2>. QED
      BY <1>2, <2>1 DEF Places
  <1>. QED
    BY <1>1, <1>2

(* The first event of queue z goes to the handler. *)
LEMMA PlacesPopped ==
    ASSUME NEW m, NEW z \in Seq(Event), z # <<>>, IsInjective(z), NEW fl, NEW l,
           Places(m, z, fl, NULL, l)
    PROVE  Places(m, Tail(z), fl, Head(z), l)
  <1>1. PICK e, r : e = Head(z) /\ r = Tail(z)
    OBVIOUS
  <1>2. ToSet(r) = ToSet(z) \ {e} /\ e \in ToSet(z)
    BY <1>1, TheRest
  <1>3. e # NULL
    <2>1. ToSet(z) \subseteq Event
      BY DEF ToSet
    <2>. QED
      BY <1>2, <2>1, TimerAssumption
  <1>4. Hands(m, e) = Hands(m, NULL) \cup {e}
    BY <1>3 DEF Hands
  <1>5. ToSet(r) \cup Hands(m, e) = ToSet(z) \cup Hands(m, NULL)
    BY <1>2, <1>4
  <1>6. Places(m, r, fl, e, l)
    BY <1>5 DEF Places
  <1>. QED
    BY <1>1, <1>6

(* timer_create has read the free list and takes its first event. *)
LEMMA PlacesCreate ==
    ASSUME TimerInv, Accounted, timer_create
    PROVE  Accounted'
  <1>1. /\ main.pc \in {"start", "process"}
        /\ UNCHANGED <<event_queue, event_freelist, alarm, lost>>
    BY DEF timer_create, At, history
  <1>2. CASE UNCHANGED main
    BY <1>1, <1>2 DEF Accounted
  <1>3. CASE event_freelist # <<>> /\ Goto("create", Head(event_freelist), <<>>)
    <2>1. PICK fl, e : fl = event_freelist /\ e = Head(fl)
      OBVIOUS
    <2>2. fl \in Seq(Event) /\ IsInjective(fl) /\ Len(fl) \in Nat /\ Len(fl) > 0 /\ e = fl[1]
      BY <1>3, <2>1 DEF TimerInv, Apart
    <2>3. main'.pc = "create" /\ main'.event = e
      BY <1>3, <2>1 DEF Goto
    <2>4. Hands(main', alarm) = Hands(main, alarm)
      BY <1>1, <2>3 DEF Hands
    <2>5. Places(main, event_queue, fl, alarm, lost) /\ lost \cap ToSet(fl) = {}
      BY <1>1, <2>1 DEF Accounted, Places
    <2>6. DOMAIN fl = 1..Len(fl)
      BY <2>2
    <2>7. ASSUME NEW j \in 1..Len(fl), NEW k \in 1..Len(fl), fl[k] = e
          PROVE  fl[j] \in lost <=> j < k
      <3>1. k = 1
        BY <2>2, <2>6, <2>7 DEF IsInjective
      <3>2. fl[j] \in ToSet(fl)
        BY <2>6 DEF ToSet
      <3>3. ~(j < k)
        BY <3>1
      <3>. QED
        BY <2>5, <3>2, <3>3
    <2>8. Places(main', event_queue, fl, alarm, lost)
      BY <2>3, <2>4, <2>5, <2>7 DEF Places
    <2>. QED
      BY <1>1, <2>1, <2>8 DEF Accounted
  <1>. QED
    BY <1>2, <1>3 DEF timer_create

(* It writes the free list: what callbacks have put before its event is on *)
(* it no longer.                                                           *)
LEMMA PlacesCreated ==
    ASSUME TimerInv, Accounted, timer_created
    PROVE  Accounted'
  <1>1. /\ main.pc = "create" /\ alarm = NULL
        /\ Goto("settime", main.event, <<>>)
        /\ UNCHANGED <<event_queue, alarm, lost>>
    BY DEF timer_created, At, Running, history
  <1>2. PICK fl, g, e, l : fl = event_freelist /\ g = event_freelist' /\ e = main.event /\ l = lost
    OBVIOUS
  <1>3. PICK k \in DOMAIN fl : fl[k] = e /\ g = SubSeq(fl, k + 1, Len(fl))
    BY <1>2 DEF timer_created
  <1>4. fl \in Seq(Event) /\ IsInjective(fl) /\ Len(fl) \in Nat /\ DOMAIN fl = 1..Len(fl)
        /\ k \in 1..Len(fl)
    BY <1>2, <1>3 DEF TimerInv, Apart
  <1>5. ToSet(g) = {fl[j] : j \in (k + 1)..Len(fl)}
    BY <1>3, <1>4, AllBehind
  <1>6. /\ l \subseteq Event /\ Event \subseteq ToSet(event_queue) \cup ToSet(fl) \cup l
        /\ l \cap ToSet(event_queue) = {}
        /\ \A j \in 1..Len(fl) : fl[j] \in l <=> j < k
    <2>1. Hands(main, alarm) = {}
      BY <1>1 DEF Hands
    <2>. QED
      BY <1>1, <1>2, <1>3, <1>4, <2>1 DEF Accounted, Places
  <1>7. main'.pc = "settime" /\ main'.event = e
    BY <1>1, <1>2 DEF Goto
  <1>8. Hands(main', NULL) = {e}
    BY <1>7 DEF Hands
  <1>9. ToSet(fl) \subseteq ToSet(g) \cup {e} \cup l
    <2>1. ASSUME NEW j \in 1..Len(fl) PROVE fl[j] \in ToSet(g) \cup {e} \cup l
      <3>1. CASE j < k
        BY <1>6, <3>1
      <3>2. CASE j = k
        BY <1>3, <3>2
      <3>3. CASE j > k
        <4>1. j \in (k + 1)..Len(fl)
          BY <1>4, <3>3
        <4>. QED
          BY <1>5, <4>1
      <3>. QED
        BY <1>4, <3>1, <3>2, <3>3
    <2>. QED
      BY <1>4, <2>1 DEF ToSet
  <1>10. l \cap (ToSet(g) \cup {e}) = {}
    <2>1. ASSUME NEW j \in (k + 1)..Len(fl) PROVE fl[j] \notin l
      <3>1. j \in 1..Len(fl) /\ ~(j < k)
        BY <1>4
      <3>. QED
        BY <1>6, <3>1
    <2>2. e \notin l
      <3>1. ~(k < k)
        BY <1>4
      <3>. QED
        BY <1>3, <1>4, <1>6, <3>1
    <2>. QED
      BY <1>5, <2>1, <2>2
  <1>11. Places(main', event_queue, g, NULL, l)
    BY <1>6, <1>7, <1>8, <1>9, <1>10 DEF Places
  <1>. QED
    BY <1>1, <1>2, <1>11 DEF Accounted

(* The event is set and goes to the queue. *)
LEMMA PlacesSetTime ==
    ASSUME TimerInv, Accounted, timer_settime
    PROVE  Accounted'
  <1>1. main.pc = "settime" /\ alarm = NULL /\ UNCHANGED <<event_freelist, alarm, lost>>
    BY DEF timer_settime, At, Running, SetTime
  <1>2. PICK e : e = main.event
    OBVIOUS
  <1>3. PICK t \in Times, period \in 0..MaxTime, pc \in {"start", "process"} :
          SetTime(e, t, period) /\ Goto(pc, NULL, <<>>)
    <2>1. PICK t \in Times : \/ SetTime(e, t, t) /\ Goto("start", NULL, <<>>)
                             \/ SetTime(e, t, 0) /\ Goto("process", NULL, <<>>)
      BY <1>2 DEF timer_settime
    <2>2. t \in 0..MaxTime /\ 0 \in 0..MaxTime
      BY TimerAssumption DEF Times
    <2>. QED
      BY <2>1, <2>2
  <1>4. /\ e \in Event /\ e \notin ToSet(event_queue) \cup ToSet(event_freelist) \cup {alarm}
        /\ flags[e] = {}
    BY <1>1, <1>2 DEF TimerInv, HandsOK
  <1>5. ToSet(event_queue') = ToSet(event_queue) \cup {e}
    BY <1>1, <1>3, <1>4, EventSet
  <1>6. main'.pc = pc
    BY <1>3 DEF Goto
  <1>7. Hands(main, NULL) = {e} /\ Hands(main', NULL) = {}
    BY <1>1, <1>2, <1>6 DEF Hands
  <1>8. Places(main, event_queue, event_freelist, NULL, lost)
    BY <1>1 DEF Accounted
  <1>9. PICK q : q = event_queue'
    OBVIOUS
  <1>10. Places(main', q, event_freelist, NULL, lost)
    <2>1. ToSet(q) \cup Hands(main', NULL) = ToSet(event_queue) \cup Hands(main, NULL)
      BY <1>5, <1>7, <1>9
    <2>2. lost \cap ToSet(event_freelist) = {}
      BY <1>1, <1>8 DEF Places
    <2>. QED
      BY <1>6, <1>8, <2>1, <2>2 DEF Places
  <1>. QED
    BY <1>1, <1>9, <1>10 DEF Accounted

(* timer_cancel takes a periodic timer off the queue. *)
LEMMA PlacesDelete ==
    ASSUME TimerInv, Accounted, timer_delete
    PROVE  Accounted'
  <1>1. main.pc = "stop" /\ alarm = NULL /\ UNCHANGED <<event_freelist, alarm, lost>>
    BY DEF timer_delete, At, Running
  <1>2. PICK i \in DOMAIN tds :
          /\ event_queue' = RemoveAt(event_queue,
                                     SelectInSeq(event_queue, LAMBDA x : x = tds[i]))
          /\ Goto("cancelled", tds[i], <<>>)
    BY DEF timer_delete
  <1>3. PICK q, e : q = event_queue /\ e = tds[i]
    OBVIOUS
  <1>4. PICK k : k = SelectInSeq(q, LAMBDA x : x = e)
    OBVIOUS
  <1>5. event_queue' = RemoveAt(q, k)
    BY <1>2, <1>3, <1>4
  <1>6. q \in Seq(Event) /\ IsInjective(q)
    BY <1>3 DEF TimerInv, Apart
  <1>7. e \in ToSet(q) /\ e \in Event
    <2>1. /\ tds \in Seq(Event) /\ \A x \in ToSet(tds) : x \in ToSet(q) \cup {NULL}
      BY <1>1, <1>3 DEF TimerInv, PeriodicsOK
    <2>2. e \in ToSet(tds) /\ e \in Event
      BY <1>3, <2>1 DEF ToSet
    <2>. QED
      BY <2>1, <2>2, TimerAssumption
  <1>8. k \in 1..Len(q) /\ q[k] = e
    BY <1>4, <1>6, <1>7, Found
  <1>9. ToSet(event_queue') = ToSet(q) \ {e}
    BY <1>5, <1>6, <1>8, LinkedOut
  <1>10. main'.pc = "cancelled" /\ main'.event = e
    BY <1>2, <1>3 DEF Goto
  <1>11. Hands(main, NULL) = {} /\ Hands(main', NULL) = {e}
    BY <1>1, <1>10 DEF Hands
  <1>12. Places(main, q, event_freelist, NULL, lost)
    BY <1>1, <1>3 DEF Accounted
  <1>13. PICK r : r = event_queue'
    OBVIOUS
  <1>14. Places(main', r, event_freelist, NULL, lost)
    <2>1. ToSet(r) \cup Hands(main', NULL) = ToSet(q) \cup Hands(main, NULL)
      BY <1>7, <1>9, <1>11, <1>13
    <2>2. lost \cap ToSet(event_freelist) = {}
      BY <1>1, <1>12 DEF Places
    <2>. QED
      BY <1>10, <1>12, <2>1, <2>2 DEF Places
  <1>. QED
    BY <1>1, <1>13, <1>14 DEF Accounted

(* timer_delete has read the free list. *)
LEMMA PlacesDeleted ==
    ASSUME TimerInv, Accounted, timer_deleted
    PROVE  Accounted'
  <1>1. /\ main.pc = "cancelled" /\ Goto("recycle", main.event, event_freelist)
        /\ UNCHANGED <<event_queue, event_freelist, alarm, lost>>
    BY DEF timer_deleted, At, history
  <1>2. main'.pc = "recycle" /\ main'.event = main.event /\ main'.list = event_freelist
    BY <1>1 DEF Goto
  <1>3. Hands(main', alarm) = Hands(main, alarm)
    BY <1>1, <1>2 DEF Hands
  <1>4. Places(main, event_queue, event_freelist, alarm, lost)
        /\ lost \cap ToSet(event_freelist) = {}
    BY <1>1 DEF Accounted, Places
  <1>5. Places(main', event_queue, event_freelist, alarm, lost)
    BY <1>2, <1>3, <1>4 DEF Places
  <1>. QED
    BY <1>1, <1>5 DEF Accounted

(* It writes the free list: its event, and the list that it has read. *)
LEMMA PlacesRecycle ==
    ASSUME TimerInv, Accounted, recycle
    PROVE  Accounted'
  <1>1. /\ main.pc = "recycle" /\ alarm = NULL
        /\ Goto("stop", NULL, <<>>)
        /\ event_freelist' = <<main.event>> \o main.list
        /\ UNCHANGED <<event_queue, alarm, lost>>
    BY DEF recycle, At, Running, history
  <1>2. PICK e, r, g : e = main.event /\ r = main.list /\ g = event_freelist'
    OBVIOUS
  <1>3. r \in Seq(Event) /\ e \in Event /\ ToSet(r) \subseteq ToSet(event_freelist)
    BY <1>1, <1>2 DEF TimerInv, TimerTypes, MainStates, HandsOK
  <1>4. ToSet(g) = ToSet(r) \cup {e}
    <2>1. g = <<e>> \o r
      BY <1>1, <1>2
    <2>. QED
      BY <1>3, <2>1, AtTheFront
  <1>5. main'.pc = "stop"
    BY <1>1 DEF Goto
  <1>6. Hands(main, NULL) = {e} /\ Hands(main', NULL) = {}
    BY <1>1, <1>2, <1>5 DEF Hands
  <1>7. /\ lost \subseteq Event
        /\ Event \subseteq ToSet(event_queue) \cup ToSet(event_freelist) \cup {e} \cup lost
        /\ lost \cap (ToSet(event_queue) \cup {e}) = {}
        /\ \A x \in ToSet(event_freelist) : x \in lost <=> x \notin ToSet(r)
    BY <1>1, <1>2, <1>6 DEF Accounted, Places
  <1>8. Event \subseteq ToSet(event_queue) \cup ToSet(g) \cup lost /\ lost \cap ToSet(g) = {}
    BY <1>3, <1>4, <1>7
  <1>9. Places(main', event_queue, g, NULL, lost)
    BY <1>5, <1>6, <1>7, <1>8 DEF Places
  <1>. QED
    BY <1>1, <1>2, <1>9 DEF Accounted

(* A callback returns its event to the free list; it is lost if the main   *)
(* program has read the list and will write it.                            *)
LEMMA PlacesOneShot ==
    ASSUME TimerInv, Accounted, alarm # NULL, OneShotEnds
    PROVE  Places(main, event_queue, event_freelist', NULL, lost')
  <1>1. PICK a, q, fl, g, l, n : /\ a = alarm /\ q = event_queue /\ fl = event_freelist
                                 /\ g = event_freelist' /\ l = lost /\ n = lost'
    OBVIOUS
  <1>2. /\ fl \in Seq(Event) /\ a \in Event /\ a \notin ToSet(q) /\ a \notin ToSet(fl)
        /\ HandsOK(main, q, fl, a, flags) /\ Places(main, q, fl, a, l)
    BY <1>1 DEF TimerInv, Apart, Accounted
  <1>3. g = <<a>> \o fl /\ n = IF main.pc \in {"create", "recycle"} THEN l \cup {a} ELSE l
    BY <1>1 DEF OneShotEnds, Loses
  <1>4. ToSet(g) = ToSet(fl) \cup {a}
    BY <1>2, <1>3, AtTheFront
  <1>5. a \in Hands(main, a) /\ a \notin Hands(main, NULL) /\ a # NULL
        /\ Hands(main, a) = Hands(main, NULL) \cup {a}
    <2>1. a # NULL
      BY <1>2, TimerAssumption
    <2>2. main.pc \in {"settime", "cancelled", "recycle"} => main.event # a
      BY <1>2 DEF HandsOK
    <2>. QED
      BY <2>1, <2>2 DEF Hands
  <1>6. a \notin l
    BY <1>2, <1>5 DEF Places
  <1>7. /\ n \subseteq Event
        /\ Event \subseteq ToSet(q) \cup ToSet(g) \cup Hands(main, NULL) \cup n
        /\ n \cap (ToSet(q) \cup Hands(main, NULL)) = {}
    <2>1. l \subseteq n /\ n \subseteq l \cup {a}
      BY <1>3
    <2>2. /\ l \subseteq Event
          /\ Event \subseteq ToSet(q) \cup ToSet(fl) \cup Hands(main, a) \cup l
          /\ l \cap (ToSet(q) \cup Hands(main, a)) = {}
      BY <1>2 DEF Places
    <2>. QED
      BY <1>2, <1>4, <1>5, <2>1, <2>2
  <1>8. ASSUME main.pc \notin {"create", "recycle"} PROVE n \cap ToSet(g) = {}
    <2>1. n = l /\ l \cap ToSet(fl) = {}
      BY <1>2, <1>3, <1>8 DEF Places
    <2>. QED
      BY <1>4, <1>6, <2>1
  <1>9. ASSUME main.pc = "create", NEW j \in 1..Len(g), NEW k \in 1..Len(g), g[k] = main.event
        PROVE  g[j] \in n <=> j < k
    <2>1. /\ n = l \cup {a} /\ main.event \in ToSet(fl)
          /\ \A x, y \in 1..Len(fl) : fl[y] = main.event => (fl[x] \in l <=> x < y)
      BY <1>2, <1>3, <1>9 DEF Places, HandsOK
    <2>2. /\ Len(g) = Len(fl) + 1 /\ Len(fl) \in Nat /\ g[1] = a /\ DOMAIN fl = 1..Len(fl)
          /\ \A i \in 2..Len(g) : g[i] = fl[i - 1] /\ i - 1 \in 1..Len(fl)
      BY <1>2, <1>3
    <2>3. k # 1
      BY <1>2, <1>9, <2>1, <2>2
    <2>4. k \in 2..Len(g)
      BY <2>2, <2>3
    <2>5. fl[k - 1] = main.event /\ k - 1 \in 1..Len(fl)
      BY <1>9, <2>2, <2>4
    <2>6. CASE j = 1
      <3>1. g[j] \in n
        BY <2>1, <2>2, <2>6
      <3>2. j < k
        BY <2>2, <2>4, <2>6
      <3>. QED
        BY <3>1, <3>2
    <2>7. CASE j # 1
      <3>1. j \in 2..Len(g)
        BY <2>2, <2>7
      <3>2. g[j] = fl[j - 1] /\ j - 1 \in 1..Len(fl)
        BY <2>2, <3>1
      <3>3. fl[j - 1] \in ToSet(fl)
        BY <2>2, <3>2 DEF ToSet
      <3>4. g[j] \in n <=> fl[j - 1] \in l
        BY <1>2, <2>1, <3>2, <3>3
      <3>5. fl[j - 1] \in l <=> j - 1 < k - 1
        BY <2>1, <2>5, <3>2
      <3>6. j - 1 < k - 1 <=> j < k
        BY <2>2, <2>4, <3>1
      <3>. QED
        BY <3>4, <3>5, <3>6
    <2>. QED
      BY <2>6, <2>7
  <1>10. ASSUME main.pc = "recycle", NEW x \in ToSet(g) PROVE x \in n <=> x \notin ToSet(main.list)
    <2>1. /\ n = l \cup {a} /\ ToSet(main.list) \subseteq ToSet(fl)
          /\ \A y \in ToSet(fl) : y \in l <=> y \notin ToSet(main.list)
      BY <1>2, <1>3, <1>10 DEF Places, HandsOK
    <2>. QED
      BY <1>2, <1>4, <1>6, <1>10, <2>1
  <1>11. Places(main, q, g, NULL, n)
    BY <1>7, <1>8, <1>9, <1>10 DEF Places
  <1>. QED
    BY <1>1, <1>11

(* A callback returns, and the next one may begin. *)
LEMMA PlacesCallback ==
    ASSUME TimerInv, Accounted, callback_returns
    PROVE  Accounted'
  <1>1. alarm # NULL /\ UNCHANGED <<main, it_interval>>
    BY DEF callback_returns
  <1>2. /\ event_queue \in Seq(Event) /\ IsInjective(event_queue)
        /\ alarm \in Event /\ alarm \notin ToSet(event_queue)
        /\ it_value \in [Event -> Nat] /\ it_interval \in [Event -> 0..MaxTime]
    BY <1>1 DEF TimerInv, TimerTypes, Apart
  <1>3. \E z, w : /\ z \in Seq(Event) /\ IsInjective(z)
                  /\ Places(main, z, event_freelist', NULL, lost')
                  /\ \/ AtOnce(z, w) /\ Pop(z)
                     \/ event_queue' = z /\ alarm' = NULL
    <2>1. CASE ~(it_interval[alarm] > 0)
      <3>1. /\ OneShotEnds
            /\ \/ AtOnce(event_queue, it_value) /\ Pop(event_queue)
               \/ event_queue' = event_queue /\ alarm' = NULL
        BY <2>1 DEF callback_returns
      <3>2. Places(main, event_queue, event_freelist', NULL, lost')
        BY <1>1, <3>1, PlacesOneShot
      <3>. QED
        BY <1>2, <3>1, <3>2
    <2>2. CASE it_interval[alarm] > 0
      <3>1. PICK a, t : a = alarm /\ t = it_interval[a]
        OBVIOUS
      <3>2. PICK z, w : /\ z = Insert(it_value, event_queue, a, t).queue
                        /\ w = Insert(it_value, event_queue, a, t).value
        OBVIOUS
      <3>3. /\ UNCHANGED <<event_freelist, lost>>
            /\ \/ AtOnce(z, w) /\ Pop(z)
               \/ event_queue' = z /\ alarm' = NULL
        BY <2>2, <3>1, <3>2 DEF callback_returns
      <3>4. t \in Nat /\ a \in Event /\ a \notin ToSet(event_queue)
        BY <1>2, <3>1, TimerAssumption
      <3>5. InsertedOK(z, w, it_value, event_queue, a, t)
        BY <1>2, <3>2, <3>4, Inserted
      <3>6. z \in Seq(Event) /\ IsInjective(z) /\ ToSet(z) = ToSet(event_queue) \cup {a}
        BY <3>5 DEF InsertedOK
      <3>7. Places(main, event_queue, event_freelist, a, lost)
        BY <3>1 DEF Accounted
      <3>8. Hands(main, a) = Hands(main, NULL) \cup {a}
        BY <3>4, TimerAssumption DEF Hands
      <3>9. ToSet(z) \cup Hands(main, NULL) = ToSet(event_queue) \cup Hands(main, a)
        BY <3>6, <3>8
      <3>10. Places(main, z, event_freelist, NULL, lost)
        BY <3>7, <3>9 DEF Places
      <3>. QED
        BY <3>3, <3>6, <3>10
    <2>. QED
      BY <2>1, <2>2
  <1>4. PICK z, w : /\ z \in Seq(Event) /\ IsInjective(z)
                    /\ Places(main, z, event_freelist', NULL, lost')
                    /\ \/ AtOnce(z, w) /\ Pop(z)
                       \/ event_queue' = z /\ alarm' = NULL
    BY <1>3
  <1>5. PICK g, n : g = event_freelist' /\ n = lost'
    OBVIOUS
  <1>6. CASE AtOnce(z, w) /\ Pop(z)
    <2>1. z # <<>> /\ event_queue' = Tail(z) /\ alarm' = Head(z)
      BY <1>6 DEF AtOnce, Pop
    <2>2. Places(main, Tail(z), g, Head(z), n)
      BY <1>4, <1>5, <2>1, PlacesPopped
    <2>. QED
      BY <1>1, <1>5, <2>1, <2>2 DEF Accounted
  <1>7. CASE event_queue' = z /\ alarm' = NULL
    BY <1>1, <1>4, <1>7 DEF Accounted
  <1>. QED
    BY <1>4, <1>6, <1>7

(* The handler is called. *)
LEMMA PlacesAlarm ==
    ASSUME TimerInv, Accounted, alarm_handler
    PROVE  Accounted'
  <1>1. alarm = NULL /\ UNCHANGED <<event_freelist, main, lost>>
    BY DEF alarm_handler, Running, history
  <1>2. CASE event_queue # <<>> /\ Pop(event_queue)
    <2>1. PICK q : q = event_queue
      OBVIOUS
    <2>2. q # <<>> /\ event_queue' = Tail(q) /\ alarm' = Head(q)
      BY <1>2, <2>1 DEF Pop
    <2>3. q \in Seq(Event) /\ IsInjective(q) /\ Places(main, q, event_freelist, NULL, lost)
      BY <1>1, <2>1 DEF TimerInv, Apart, Accounted
    <2>4. Places(main, Tail(q), event_freelist, Head(q), lost)
      BY <2>2, <2>3, PlacesPopped
    <2>. QED
      BY <1>1, <2>2, <2>4 DEF Accounted
  <1>3. CASE UNCHANGED <<event_queue, alarm>>
    BY <1>1, <1>3 DEF Accounted
  <1>. QED
    BY <1>2, <1>3 DEF alarm_handler

(* The other steps move no event. *)
LEMMA PlacesOther ==
    ASSUME Accounted,
           Tick \/ select \/ process_receive_fds \/ block_timer \/ exit \/ UNCHANGED vars
    PROVE  Accounted'
  <1>1. UNCHANGED <<event_queue, event_freelist, alarm, lost>>
    BY DEF Tick, select, process_receive_fds, block_timer, exit, vars, timers, history
  <1>2. \/ main' = main
        \/ /\ main.pc \notin {"create", "settime", "cancelled", "recycle"}
           /\ main'.pc \notin {"create", "settime", "cancelled", "recycle"}
    <2>1. CASE Tick \/ block_timer \/ exit \/ UNCHANGED vars
      BY <2>1 DEF Tick, block_timer, exit, vars
    <2>2. CASE select
      BY <2>2 DEF select, At, Goto
    <2>3. CASE process_receive_fds
      BY <2>3 DEF process_receive_fds, At, Goto
    <2>. QED
      BY <2>1, <2>2, <2>3
  <1>3. PICK n : n = main'
    OBVIOUS
  <1>4. Places(n, event_queue, event_freelist, alarm, lost)
    BY <1>2, <1>3, PlacesSame DEF Accounted
  <1>. QED
    BY <1>1, <1>3, <1>4 DEF Accounted

-----------------------------------------------------------------------------
(* The theorems. *)

(* init_event_queue establishes the invariant. *)
LEMMA InvInit == init_event_queue => TimerInv
  <1>1. SUFFICES ASSUME init_event_queue PROVE TimerInv
    OBVIOUS
  <1>2. /\ event_queue = <<>> /\ event_freelist = SetToSeq(Event) /\ alarm = NULL /\ tds = <<>>
        /\ flags = [e \in Event |-> {}] /\ itimer = 0 /\ pending = FALSE /\ halted = "no"
        /\ main = [pc |-> "start", event |-> NULL, list |-> <<>>]
        /\ due = [e \in Event |-> 0] /\ it_value = [e \in Event |-> 0]
    BY <1>1 DEF init_event_queue
  <1>3. <<>> \in Seq(Event) /\ IsInjective(<<>>) /\ ToSet(<<>>) = {} /\ Len(<<>>) = 0
    BY DEF IsInjective, ToSet
  <1>4. main \in MainStates /\ main.pc = "start"
    BY <1>2, <1>3 DEF MainStates
  <1>5. TimerTypes
    <2>1. 0 \in 0..MaxTime /\ {} \in SUBSET {"CANCELLED", "DELETED"}
      BY TimerAssumption
    <2>. QED
      BY <1>1, <1>4, <2>1 DEF init_event_queue, TimerTypes
  <1>6. event_freelist \in Seq(Event) /\ IsInjective(event_freelist)
    BY <1>2, AllFree
  <1>7. ToSet(event_freelist) \subseteq Event
    BY <1>6 DEF ToSet
  <1>8. Apart(event_queue, event_freelist, alarm, flags)
    BY <1>2, <1>3, <1>6, <1>7, TimerAssumption DEF Apart
  <1>9. HandsOK(main, event_queue, event_freelist, alarm, flags)
    BY <1>4 DEF HandsOK
  <1>10. PeriodicsOK(tds, event_queue, alarm, it_interval)
    <2>1. 0 <= Periodics
      BY PeriodicsType
    <2>. QED
      BY <1>2, <1>3, <2>1 DEF PeriodicsOK
  <1>11. TopOK(event_queue, it_value, alarm, itimer, pending)
    BY <1>2 DEF TopOK
  <1>12. NotEarly(event_queue, it_value, alarm, itimer, pending, due)
    <2>1. OnTime(event_queue, Left(event_queue, it_value, itimer), due)
      BY <1>2, <1>3 DEF OnTime
    <2>. QED
      BY <1>2, <2>1 DEF NotEarly
  <1>. QED
    BY <1>2, <1>5, <1>8, <1>9, <1>10, <1>11, <1>12 DEF TimerInv

(* Every step preserves it. *)
LEMMA InvNext == TimerInv /\ [Next]_vars => TimerInv'
  <1>1. SUFFICES ASSUME TimerInv, [Next]_vars PROVE TimerInv'
    OBVIOUS
  <1>0. halted \in {"no", "null", "assert", "exit"} /\ masked \in BOOLEAN
    BY <1>1 DEF TimerInv, TimerTypes
  <1>2. CASE Tick
    BY <1>1, <1>2, TickStep
  <1>3. CASE select
    BY <1>1, <1>3, PlaceSame DEF select, At, Running
  <1>4. CASE process_receive_fds
    BY <1>1, <1>4, PlaceSame DEF process_receive_fds, At, Running
  <1>5. CASE timer_create
    BY <1>1, <1>5, CreateStep
  <1>6. CASE timer_created
    BY <1>1, <1>6, CreatedStep
  <1>7. CASE block_timer
    BY <1>1, <1>7, PlaceSame DEF block_timer, At, Running
  <1>8. CASE timer_settime
    BY <1>1, <1>8, SetTimeStep
  <1>9. CASE timer_delete
    BY <1>1, <1>9, DeleteStep
  <1>10. CASE timer_deleted
    BY <1>1, <1>10, DeletedStep
  <1>11. CASE recycle
    BY <1>1, <1>11, RecycleStep
  <1>12. CASE exit
    BY <1>0, <1>1, <1>12, PlaceSame DEF exit
  <1>13. CASE alarm_handler
    BY <1>1, <1>13, AlarmStep
  <1>14. CASE callback_returns
    BY <1>1, <1>14, CallbackStep
  <1>15. CASE UNCHANGED vars
    BY <1>1, <1>15 DEF vars, timers, history, TimerInv, TimerTypes
  <1>. QED
    BY <1>1, <1>2, <1>3, <1>4, <1>5, <1>6, <1>7, <1>8, <1>9, <1>10, <1>11, <1>12, <1>13,
       <1>14, <1>15 DEF Next, MainStep

(* The inductive invariant holds in every reachable state: wherever        *)
(* SIGALRM interrupts timer_create, timer_settime and timer_delete.        *)
THEOREM TimerSafety == Spec => []TimerInv
  BY InvInit, InvNext, PTL DEF Spec

(* All events are on the free list at the start. *)
LEMMA AccountedInit == init_event_queue => Accounted
  <1>1. SUFFICES ASSUME init_event_queue PROVE Accounted
    OBVIOUS
  <1>2. /\ event_freelist = SetToSeq(Event) /\ main.pc = "start" /\ lost = {}
    BY <1>1 DEF init_event_queue
  <1>3. Event \subseteq ToSet(event_freelist)
    BY <1>2, AllFree
  <1>. QED
    BY <1>2, <1>3 DEF Accounted, Places, Hands

(* Every step leaves each event in its place or in another. *)
LEMMA AccountedNext == TimerInv /\ Accounted /\ [Next]_vars => Accounted'
  <1>1. SUFFICES ASSUME TimerInv, Accounted, [Next]_vars PROVE Accounted'
    OBVIOUS
  <1>2. CASE Tick \/ select \/ process_receive_fds \/ block_timer \/ exit \/ UNCHANGED vars
    BY <1>1, <1>2, PlacesOther
  <1>3. CASE timer_create
    BY <1>1, <1>3, PlacesCreate
  <1>4. CASE timer_created
    BY <1>1, <1>4, PlacesCreated
  <1>5. CASE timer_settime
    BY <1>1, <1>5, PlacesSetTime
  <1>6. CASE timer_delete
    BY <1>1, <1>6, PlacesDelete
  <1>7. CASE timer_deleted
    BY <1>1, <1>7, PlacesDeleted
  <1>8. CASE recycle
    BY <1>1, <1>8, PlacesRecycle
  <1>9. CASE alarm_handler
    BY <1>1, <1>9, PlacesAlarm
  <1>10. CASE callback_returns
    BY <1>1, <1>10, PlacesCallback
  <1>. QED
    BY <1>1, <1>2, <1>3, <1>4, <1>5, <1>6, <1>7, <1>8, <1>9, <1>10 DEF Next, MainStep

(* Every event is on the queue once, on the free list once, or in one      *)
(* hand, although timer_create and timer_delete take it from and put it on *)
(* the free list with SIGALRM unmasked, and alarm_handler's callbacks run  *)
(* between the two steps; but for the events that a callback returns       *)
(* there, which the second step overwrites: they are in no place, for      *)
(* ever, and no other event is.                                            *)
THEOREM EventsInOnePlace == Spec => []OnePlaceUnlessLost
  <1>1. Spec => []Accounted
    BY AccountedInit, AccountedNext, TimerSafety, PTL DEF Spec
  <1>2. TimerInv /\ Accounted => OnePlaceUnlessLost
    <2>1. SUFFICES ASSUME TimerInv, Accounted PROVE OnePlaceUnlessLost
      OBVIOUS
    <2>2. main.pc \in {"start", "select", "process", "create", "settime", "stop",
                       "cancelled", "recycle"}
          /\ main.event \in Event \cup {NULL}
      BY <2>1 DEF TimerInv, TimerTypes, MainStates
    <2>3. TimerTypeOK
      BY <2>1, <2>2 DEF TimerInv, TimerTypes, TimerTypeOK, Apart, PeriodicsOK, Accounted, Places
    <2>4. InHand = Hands(main, alarm)
      BY DEF InHand, Taken, Hands
    <2>5. /\ event_queue \in Seq(Event) /\ event_freelist \in Seq(Event)
          /\ alarm \in Event \cup {NULL} /\ IsInjective(event_queue) /\ IsInjective(event_freelist)
          /\ ToSet(event_queue) \cap ToSet(event_freelist) = {}
          /\ alarm \notin ToSet(event_queue) \cup ToSet(event_freelist)
          /\ \A e \in ToSet(event_queue) : flags[e] = {}
      BY <2>1 DEF TimerInv, Apart
    <2>6. ToSet(event_queue) \subseteq Event /\ ToSet(event_freelist) \subseteq Event
      BY <2>5 DEF ToSet
    <2>7. main.pc \in {"settime", "cancelled", "recycle"} =>
              main.event \in Event
              /\ main.event \notin ToSet(event_queue) \cup ToSet(event_freelist) \cup {alarm}
      BY <2>1 DEF TimerInv, HandsOK
    <2>8. InHand \subseteq Event
      BY <2>4, <2>5, <2>7 DEF Hands
    <2>9. InHand \cap (ToSet(event_queue) \cup ToSet(event_freelist)) = {}
      BY <2>4, <2>5, <2>7 DEF Hands
    <2>10. alarm \notin Taken
      BY <2>7 DEF Taken
    <2>11. /\ lost \subseteq Event
           /\ Event \subseteq ToSet(event_queue) \cup ToSet(event_freelist) \cup InHand \cup lost
           /\ lost \cap (ToSet(event_queue) \cup InHand) = {}
           /\ ~Loses => lost \cap ToSet(event_freelist) = {}
      BY <2>1, <2>4 DEF Accounted, Places, Loses
    <2>12. ToSet(event_queue) \cup ToSet(event_freelist) \cup InHand \cup lost = Event
      BY <2>6, <2>8, <2>11
    <2>. QED
      BY <2>3, <2>5, <2>9, <2>10, <2>11, <2>12 DEF OnePlaceUnlessLost
  <1>. QED
    BY <1>1, <1>2, TimerSafety, PTL

(* With an event on the queue and no callback running, the interval timer  *)
(* runs or its signal waits, and it never has more time left than the      *)
(* first event: the two errors that timer_settime and check_timer report   *)
(* do not come up.                                                         *)
THEOREM TimerSetForTop == Spec => []TimerForTop
  <1>1. TimerInv => TimerForTop
    BY DEF TimerInv, TopOK, TimerForTop
  <1>. QED
    BY <1>1, TimerSafety, PTL

(* As long as no timer is set or cancelled while SIGALRM waits, and only   *)
(* the last timer of the queue is cancelled, alarm_handler finds at the    *)
(* top an event whose time has come, and no event is set to go off before  *)
(* its time.                                                               *)
THEOREM NeverEarly == Spec => []NeverEarlyUnlessDisturbed
  <1>1. TimerInv => NeverEarlyUnlessDisturbed
    <2>1. SUFFICES ASSUME TimerInv, ~disturbed
                   PROVE  /\ halted # "null"
                          /\ pending /\ alarm = NULL =>
                                event_queue # <<>> /\ due[Head(event_queue)] = 0
                          /\ alarm = NULL => \A k \in DOMAIN event_queue :
                                due[event_queue[k]] <= TimeTo(k)
                          /\ alarm # NULL => due[alarm] = 0
      BY DEF NeverEarlyUnlessDisturbed
    <2>2. halted # "null" /\ NotEarly(event_queue, it_value, alarm, itimer, pending, due)
      BY <2>1 DEF TimerInv
    <2>3. it_value \in [Event -> Nat] /\ itimer \in Nat
          /\ event_queue \in Seq(Event) /\ IsInjective(event_queue)
      BY <2>1 DEF TimerInv, TimerTypes, Apart
    <2>4. ASSUME alarm = NULL, NEW k \in DOMAIN event_queue
          PROVE  due[event_queue[k]] <= TimeTo(k)
      <3>1. k \in 1..Len(event_queue) /\ event_queue # <<>>
        BY <2>3, <2>4
      <3>2. due[event_queue[k]] <= Sums(Left(event_queue, it_value, itimer), event_queue)[k]
        BY <2>2, <2>4, <3>1 DEF NotEarly, OnTime
      <3>3. Sums(Left(event_queue, it_value, itimer), event_queue)[k]
            = itimer + Sums(it_value, event_queue)[k] - it_value[Head(event_queue)]
        BY <2>3, <3>1, LeftSums
      <3>. QED
        BY <3>2, <3>3 DEF TimeTo
    <2>. QED
      BY <2>2, <2>4 DEF NotEarly
  <1>. QED
    BY <1>1, TimerSafety, PTL
=============================================================================

------------------------- MODULE CommandSocketProofs -------------------------
(***************************************************************************)
(* OneStatePerDescriptor for any number of clients, descriptors, states,   *)
(* tunnels and exit commands, and whatever fails.                          *)
(*                                                                         *)
(* The inductive invariant adds that a walk will call each live state at   *)
(* most once and no other (so that a callback finds the state it was       *)
(* registered with), that two descriptors have different connections and   *)
(* two live states different descriptors.                                  *)
(***************************************************************************)
EXTENDS CommandSocket, FiniteSetTheorems, WellFoundedInduction, TLAPS

Memory == [State -> States \cup {Free}]

LiveIn(s, x) == s[x] # Free /\ ~s[x].deleted

(* The list has every allocated state once. *)
ListOK(l, s) ==
    /\ l \in Seq(State) /\ IsInjective(l)
    /\ ToSet(l) = {x \in State : s[x] # Free}

(* What a walk will call, it calls once, and it is live. *)
TodoOK(t, s) ==
    /\ t \in Seq(State \cup {Acceptor}) /\ IsInjective(t)
    /\ \A x \in ToSet(t) : x \in State => LiveIn(s, x)

(* Connections, descriptors and live states belong to each other. *)
Owned(cn, fd, s, fl) ==
    /\ \A x \in State : LiveIn(s, x) => fd[s[x].socket] = s[x].owner
    /\ \A f \in Fd : fd[f] # NoConn => cn[fd[f]] = "open"
    /\ \A f, g \in Fd : fd[f] # NoConn /\ fd[f] = fd[g] => f = g
    /\ \A x, y \in State : LiveIn(s, x) /\ LiveIn(s, y) /\ s[x].socket = s[y].socket => x = y
    /\ ~fl => \A f \in Fd : fd[f] # NoConn =>
                  \E x \in State : LiveIn(s, x) /\ s[x].socket = f

(* Memory s has become t, at x alone. *)
OnlyAt(x, s, t) == \A z \in State : z # x => t[z] = s[z]

(* In memory u a new state y for descriptor f and connection c was made,   *)
(* y being unused in s, and gave t; or that has failed.                    *)
Made(s, u, t, f, c, fl, gl) ==
    \/ /\ gl = fl
       /\ \E y \in State : /\ s[y] = Free /\ LiveIn(t, y)
                           /\ t[y].socket = f /\ t[y].owner = c /\ OnlyAt(y, u, t)
    \/ gl = TRUE /\ t = u

CommandTypes ==
    /\ conn \in [Conn -> {"none", "waiting", "open", "closed"}]
    /\ fds \in [Fd -> Conn \cup {NoConn}]
    /\ st \in Memory /\ walking \in BOOLEAN
    /\ exits \in 0..MaxExits /\ tunnels \in 0..Tunnels
    /\ exited \in {"no", "ok", "failure"} /\ failed \in BOOLEAN

CommandInv ==
    /\ CommandTypes
    /\ ListOK(list, st) /\ TodoOK(todo, st)
    /\ exits = 0 => Owned(conn, fds, st, failed)

-----------------------------------------------------------------------------
(* Lists. *)

(* Every non-empty set of naturals has a least element. *)
LEMMA LeastNatural ==
    ASSUME NEW T, T \subseteq Nat, T # {}
    PROVE  \E x \in T : \A y \in T : x <= y
  <1>1. IsWellFoundedOn(OpToRel(<, Nat), Nat)
    BY NatLessThanWellFounded
  <1>2. PICK x \in T : \A y \in T : ~(<<y, x>> \in OpToRel(<, Nat))
    BY <1>1, WFMin
  <1>3. \A y \in T : y < x => <<y, x>> \in OpToRel(<, Nat)
    BY DEF OpToRel
  <1>4. \A y \in T : ~(y < x)
    BY <1>2, <1>3
  <1>5. x \in Nat /\ \A y \in T : y \in Nat
    OBVIOUS
  <1>6. \A y \in T : x <= y
    BY <1>4, <1>5
  <1>. QED
    BY <1>6

(* One more at the end of a list. *)
LEMMA AtTheEnd ==
    ASSUME NEW S, NEW w \in Seq(S), NEW x \in S
    PROVE  /\ Append(w, x) \in Seq(S)
           /\ ToSet(Append(w, x)) = ToSet(w) \cup {x}
           /\ IsInjective(w) /\ x \notin ToSet(w) => IsInjective(Append(w, x))
  <1>1. /\ Append(w, x) \in Seq(S) /\ Len(w) \in Nat /\ DOMAIN w = 1..Len(w)
        /\ DOMAIN Append(w, x) = 1..(Len(w) + 1)
        /\ \A i \in 1..Len(w) : Append(w, x)[i] = w[i]
        /\ Append(w, x)[Len(w) + 1] = x
    OBVIOUS
  <1>2. ToSet(Append(w, x)) = ToSet(w) \cup {x}
    <2>1. ToSet(Append(w, x)) \subseteq ToSet(w) \cup {x}
      BY <1>1 DEF ToSet
    <2>2. ASSUME NEW y \in ToSet(w) PROVE y \in ToSet(Append(w, x))
      <3>1. PICK i \in 1..Len(w) : y = w[i]
        BY <1>1, <2>2 DEF ToSet
      <3>2. i \in 1..(Len(w) + 1) /\ Append(w, x)[i] = y
        BY <1>1, <3>1
      <3>. QED
        BY <1>1, <3>2 DEF ToSet
    <2>3. x \in ToSet(Append(w, x))
      <3>1. Len(w) + 1 \in 1..(Len(w) + 1)
        BY <1>1
      <3>. QED
        BY <1>1, <3>1 DEF ToSet
    <2>. QED
      BY <2>1, <2>2, <2>3
  <1>3. ASSUME IsInjective(w), x \notin ToSet(w) PROVE IsInjective(Append(w, x))
    <2>1. \A i \in 1..Len(w) : w[i] # x
      BY <1>1, <1>3 DEF ToSet
    <2>. QED
      BY <1>1, <1>3, <2>1 DEF IsInjective
  <1>. QED
    BY <1>1, <1>2, <1>3

(* One more at the front. *)
LEMMA AtTheFront ==
    ASSUME NEW S, NEW w \in Seq(S), NEW x \in S
    PROVE  /\ <<x>> \o w \in Seq(S)
           /\ ToSet(<<x>> \o w) = ToSet(w) \cup {x}
           /\ IsInjective(w) /\ x \notin ToSet(w) => IsInjective(<<x>> \o w)
  <1> DEFINE v == <<x>> \o w
  <1>1. /\ v \in Seq(S) /\ Len(w) \in Nat /\ DOMAIN w = 1..Len(w)
        /\ DOMAIN v = 1..(Len(w) + 1) /\ v[1] = x
        /\ \A i \in 1..Len(w) : v[i + 1] = w[i]
        /\ \A i \in 2..(Len(w) + 1) : v[i] = w[i - 1]
    OBVIOUS
  <1> HIDE DEF v
  <1>2. ToSet(v) = ToSet(w) \cup {x}
    <2>1. ASSUME NEW i \in 1..(Len(w) + 1) PROVE v[i] \in ToSet(w) \cup {x}
      <3>1. CASE i = 1
        BY <1>1, <3>1
      <3>2. CASE i # 1
        <4>1. v[i] = w[i - 1] /\ i - 1 \in 1..Len(w)
          BY <1>1, <3>2
        <4>. QED
          BY <1>1, <4>1 DEF ToSet
      <3>. QED
        BY <3>1, <3>2
    <2>2. ASSUME NEW y \in ToSet(w) PROVE y \in ToSet(v)
      <3>1. PICK i \in 1..Len(w) : y = w[i]
        BY <1>1, <2>2 DEF ToSet
      <3>2. i + 1 \in 1..(Len(w) + 1) /\ v[i + 1] = y
        BY <1>1, <3>1
      <3>. QED
        BY <1>1, <3>2 DEF ToSet
    <2>3. x \in ToSet(v)
      <3>1. 1 \in 1..(Len(w) + 1)
        BY <1>1
      <3>. QED
        BY <1>1, <3>1 DEF ToSet
    <2>. QED
      <3>1. ToSet(v) = {v[i] : i \in 1..(Len(w) + 1)}
        BY <1>1 DEF ToSet
      <3>2. ToSet(v) \subseteq ToSet(w) \cup {x}
        BY <2>1, <3>1
      <3>. QED
        BY <2>2, <2>3, <3>2
  <1>3. ASSUME IsInjective(w), x \notin ToSet(w) PROVE IsInjective(v)
    <2>1. \A i \in 1..Len(w) : w[i] # x
      BY <1>1, <1>3 DEF ToSet
    <2>2. ASSUME NEW i \in 1..(Len(w) + 1), NEW j \in 1..(Len(w) + 1), v[i] = v[j]
          PROVE  i = j
      <3>1. CASE i = 1 \/ j = 1
        BY <1>1, <2>1, <2>2, <3>1
      <3>2. CASE i # 1 /\ j # 1
        <4>1. i - 1 \in 1..Len(w) /\ j - 1 \in 1..Len(w) /\ w[i - 1] = w[j - 1]
          BY <1>1, <2>2, <3>2
        <4>2. i - 1 = j - 1
          BY <1>1, <1>3, <4>1 DEF IsInjective
        <4>. QED
          BY <4>2
      <3>. QED
        BY <3>1, <3>2
    <2>. QED
      BY <1>1, <2>2 DEF IsInjective
  <1>. QED
    BY <1>1, <1>2, <1>3 DEF v

(* A walk goes on to the next, and will not come back to the first. *)
LEMMA TheRest ==
    ASSUME NEW S, NEW w \in Seq(S), w # <<>>, IsInjective(w)
    PROVE  /\ Tail(w) \in Seq(S) /\ IsInjective(Tail(w))
           /\ ToSet(Tail(w)) = ToSet(w) \ {Head(w)} /\ Head(w) \in ToSet(w)
  <1> DEFINE v == Tail(w)
  <1>1. /\ v \in Seq(S) /\ Len(w) \in Nat /\ Len(w) >= 1 /\ DOMAIN w = 1..Len(w)
        /\ DOMAIN v = 1..(Len(w) - 1) /\ Head(w) = w[1]
        /\ \A i \in 1..(Len(w) - 1) : v[i] = w[i + 1]
        /\ \A i \in 2..Len(w) : v[i - 1] = w[i]
    OBVIOUS
  <1> HIDE DEF v
  <1>2. IsInjective(v)
    <2>1. ASSUME NEW i \in 1..(Len(w) - 1), NEW j \in 1..(Len(w) - 1), v[i] = v[j]
          PROVE  i = j
      <3>1. w[i + 1] = w[j + 1] /\ i + 1 \in 1..Len(w) /\ j + 1 \in 1..Len(w)
        BY <1>1, <2>1
      <3>2. i + 1 = j + 1
        BY <1>1, <3>1 DEF IsInjective
      <3>. QED
        BY <3>2
    <2>. QED
      BY <1>1, <2>1 DEF IsInjective
  <1>3. ToSet(v) \subseteq ToSet(w) \ {Head(w)}
    <2>1. ASSUME NEW i \in 1..(Len(w) - 1) PROVE v[i] \in ToSet(w) \ {Head(w)}
      <3>1. i + 1 \in 1..Len(w) /\ v[i] = w[i + 1] /\ i + 1 # 1 /\ 1 \in 1..Len(w)
        BY <1>1
      <3>2. w[i + 1] # w[1]
        BY <1>1, <3>1 DEF IsInjective
      <3>. QED
        BY <1>1, <3>1, <3>2 DEF ToSet
    <2>. QED
      BY <1>1, <2>1 DEF ToSet
  <1>4. ToSet(w) \ {Head(w)} \subseteq ToSet(v)
    <2>1. ASSUME NEW y \in ToSet(w), y # Head(w) PROVE y \in ToSet(v)
      <3>1. PICK i \in 1..Len(w) : y = w[i]
        BY <1>1, <2>1 DEF ToSet
      <3>2. i - 1 \in 1..(Len(w) - 1) /\ v[i - 1] = y
        BY <1>1, <2>1, <3>1
      <3>. QED
        BY <1>1, <3>2 DEF ToSet
    <2>. QED
      BY <2>1
  <1>5. Head(w) \in ToSet(w)
    BY <1>1 DEF ToSet
  <1>. QED
    BY <1>1, <1>2, <1>3, <1>4, <1>5 DEF v

(* Listed takes exactly the states of xs from the list. *)
LEMMA ListedType ==
    ASSUME list \in Seq(State), IsInjective(list), NEW xs
    PROVE  /\ Listed(xs) \in Seq(State) /\ IsInjective(Listed(xs))
           /\ ToSet(Listed(xs)) = ToSet(list) \cap xs
  <1> DEFINE n == Len(list)
             W == Seq(State)
             Step(i, w) == IF list[i] \in xs THEN Append(w, list[i]) ELSE w
             Run(m, g) == g[0] = <<>> /\ \A i \in 1..m : g[i] = Step(i, g[i - 1])
             Missing == {m \in 0..n : ~\E g \in [0..m -> W] : Run(m, g)}
             Eq(g) == g = [i \in 0..n |-> IF i = 0 THEN <<>>
                                          ELSE IF list[i] \in xs THEN Append(g[i - 1], list[i])
                                          ELSE g[i - 1]]
             run == CHOOSE g : Eq(g)
  <1>0. n \in Nat /\ DOMAIN list = 1..n /\ \A i \in 1..n : list[i] \in State
    OBVIOUS
  <1>1. <<>> \in W
    OBVIOUS
  <1>2. \A i \in 1..n : \A w \in W : Step(i, w) \in W
    BY <1>0
  <1>3. Listed(xs) = run[n]
    BY DEF Listed
  <1>4. \A g : Eq(g) <=> g = [i \in 0..n |-> IF i = 0 THEN <<>> ELSE Step(i, g[i - 1])]
    OBVIOUS
  <1> HIDE DEF n, W, Step, Eq
  <1>5. Missing = {}
    <2> SUFFICES ASSUME Missing # {} PROVE FALSE
      OBVIOUS
    <2>1. PICK x \in Missing : \A y \in Missing : x <= y
      <3>1. Missing \subseteq Nat BY <1>0
      <3>. HIDE DEF Missing
      <3>. QED BY <3>1, LeastNatural
    <2>2. x # 0
      <3>1. [i \in 0..0 |-> <<>>] \in [0..0 -> W]
        BY <1>1
      <3>2. Run(0, [i \in 0..0 |-> <<>>])
        OBVIOUS
      <3>3. 0 \notin Missing
        BY <3>1, <3>2
      <3>. QED BY <3>3, <2>1
    <2>3. x \in 1..n /\ x - 1 \in 0..n /\ ~(x <= x - 1)
      BY <1>0, <2>1, <2>2
    <2>4. x - 1 \notin Missing
      BY <2>1, <2>3
    <2>5. PICK g \in [0..(x - 1) -> W] : Run(x - 1, g)
      BY <2>3, <2>4
    <2> DEFINE h == [i \in 0..x |-> IF i = x THEN Step(x, g[x - 1]) ELSE g[i]]
    <2>6. h \in [0..x -> W]
      BY <1>0, <1>2, <2>3, <2>5
    <2>7. Run(x, h)
      BY <1>0, <2>3, <2>5
    <2>. QED
      BY <2>1, <2>6, <2>7
  <1>6. PICK g \in [0..n -> W] : Run(n, g)
    BY <1>0, <1>5
  <1>7. Eq(g)
    BY <1>0, <1>4, <1>6
  <1>8. Eq(run)
    BY <1>7
  <1>9. run = [i \in 0..n |-> IF i = 0 THEN <<>> ELSE Step(i, run[i - 1])]
    BY <1>4, <1>8
  <1> HIDE DEF run
  <1> DEFINE Upto(i) == {list[j] : j \in 1..i} \cap xs
             Good(i) == /\ run[i] \in W /\ IsInjective(run[i])
                        /\ ToSet(run[i]) = Upto(i)
             Bad == {i \in 0..n : ~Good(i)}
  <1>10. Good(0)
    <2>1. run[0] = <<>>
      BY <1>0, <1>9
    <2>2. IsInjective(<<>>) /\ ToSet(<<>>) = {}
      BY DEF IsInjective, ToSet
    <2>3. Upto(0) = {}
      OBVIOUS
    <2>. QED
      BY <1>1, <2>1, <2>2, <2>3
  <1>11. ASSUME NEW x \in 1..n, Good(x - 1) PROVE Good(x)
    <2>1. run[x] = Step(x, run[x - 1]) /\ run[x - 1] \in Seq(State)
      BY <1>0, <1>9, <1>11 DEF W
    <2>2. {list[j] : j \in 1..x} = {list[j] : j \in 1..(x - 1)} \cup {list[x]}
      BY <1>0
    <2>3. list[x] \in State /\ list[x] \notin {list[j] : j \in 1..(x - 1)}
      BY <1>0 DEF IsInjective
    <2>4. CASE list[x] \notin xs
      <3>1. run[x] = run[x - 1]
        BY <2>1, <2>4 DEF Step
      <3>2. Upto(x) = Upto(x - 1)
        BY <2>2, <2>4
      <3>. QED
        BY <1>11, <3>1, <3>2
    <2>5. CASE list[x] \in xs
      <3>1. run[x] = Append(run[x - 1], list[x])
        BY <2>1, <2>5 DEF Step
      <3>2. Upto(x) = Upto(x - 1) \cup {list[x]} /\ list[x] \notin Upto(x - 1)
        BY <2>2, <2>3, <2>5
      <3>3. /\ run[x] \in Seq(State)
            /\ ToSet(run[x]) = ToSet(run[x - 1]) \cup {list[x]}
            /\ IsInjective(run[x])
        BY <1>11, <2>1, <2>3, <3>1, <3>2, AtTheEnd
      <3>. QED
        BY <1>11, <3>2, <3>3 DEF W
    <2>. QED
      BY <2>4, <2>5
  <1>12. Bad = {}
    <2> HIDE DEF Good
    <2> SUFFICES ASSUME Bad # {} PROVE FALSE
      OBVIOUS
    <2>1. PICK x \in Bad : \A y \in Bad : x <= y
      <3>1. Bad \subseteq Nat BY <1>0
      <3>. HIDE DEF Bad
      <3>. QED BY <3>1, LeastNatural
    <2>2. x # 0
      BY <1>10, <2>1
    <2>3. x \in 1..n /\ x - 1 \in 0..n /\ ~(x <= x - 1)
      BY <1>0, <2>1, <2>2
    <2>4. Good(x - 1)
      BY <2>1, <2>3
    <2>. QED
      BY <1>11, <2>1, <2>3, <2>4
  <1>13. Good(n)
    <2> HIDE DEF Good
    <2>. QED
      BY <1>0, <1>12
  <1>14. Upto(n) = ToSet(list) \cap xs
    BY <1>0 DEF ToSet
  <1>. QED
    BY <1>3, <1>13, <1>14 DEF W

-----------------------------------------------------------------------------
(* What is done to the states. *)

(* A live state is a record. *)
LEMMA LiveRecord ==
    ASSUME NEW s \in Memory, NEW x \in State
    PROVE  /\ s[x] # Free => s[x] \in States
           /\ s[x] \in States => s[x] # Free
           /\ LiveIn(s, x) => s[x] \in States /\ s[x].socket \in Fd /\ s[x].owner \in Conn
  BY FreeAssumption DEF Memory, States, LiveIn

(* free_state of x. *)
LEMMA Freed ==
    ASSUME NEW s \in Memory, NEW x \in State, s[x] # Free
    PROVE  /\ free_state(s, x) \in Memory
           /\ \A z \in State : z # x => free_state(s, x)[z] = s[z]
           /\ free_state(s, x)[x] \in States
           /\ ~LiveIn(free_state(s, x), x)
  <1>1. s[x] \in States
    BY LiveRecord
  <1>2. [s[x] EXCEPT !.deleted = TRUE] \in States
        /\ [s[x] EXCEPT !.deleted = TRUE].deleted = TRUE
    BY <1>1 DEF States
  <1>3. free_state(s, x) = [s EXCEPT ![x] = [s[x] EXCEPT !.deleted = TRUE]]
    BY DEF free_state
  <1>. QED
    BY <1>2, <1>3 DEF Memory, LiveIn

(* EventTcp_ReadBuf or EventTcp_WriteBuf, once the caller has done its     *)
(* part: it takes unused memory, or fails.                                 *)
LEMMA StateMade ==
    ASSUME st \in Memory, ListOK(list, st), NEW s \in Memory,
           \A z \in State : s[z] = Free <=> st[z] = Free,
           NEW does \in {"read", "write"}, NEW fd \in Fd, fds'[fd] \in Conn,
           failed \in BOOLEAN, MakeState(does, fd, s)
    PROVE  /\ st' \in Memory /\ ListOK(list', st') /\ failed' \in BOOLEAN
           /\ \/ /\ failed' = failed
                 /\ \E y \in State : /\ st[y] = Free /\ LiveIn(st', y)
                                     /\ st'[y].socket = fd /\ st'[y].owner = fds'[fd]
                                     /\ \A z \in State : z # y => st'[z] = s[z]
              \/ failed' = TRUE /\ st' = s
  <1>1. CASE failed' = TRUE /\ st' = s /\ UNCHANGED list
    BY <1>1 DEF ListOK
  <1>2. CASE /\ UnusedStates # {}
             /\ LET y == CHOOSE y \in UnusedStates : \A z \in UnusedStates : y <= z
                IN  /\ st' = [s EXCEPT ![y] = [does |-> does, socket |-> fd,
                                 owner |-> fds'[fd], cmd |-> "none",
                                 expired |-> FALSE, deleted |-> FALSE]]
                    /\ list' = <<y>> \o list
             /\ UNCHANGED failed
    <2>1. UnusedStates \subseteq State /\ UnusedStates \subseteq Nat
      BY CommandAssumption DEF UnusedStates
    <2>2. \E y \in UnusedStates : \A z \in UnusedStates : y <= z
      BY <1>2, <2>1, LeastNatural
    <2>3. PICK y : y = CHOOSE u \in UnusedStates : \A z \in UnusedStates : u <= z
      OBVIOUS
    <2>4. y \in State /\ st[y] = Free
      BY <2>1, <2>2, <2>3 DEF UnusedStates
    <2>5. PICK r : r = [does |-> does, socket |-> fd, owner |-> fds'[fd], cmd |-> "none",
                        expired |-> FALSE, deleted |-> FALSE]
      OBVIOUS
    <2>6. r \in States /\ r.socket = fd /\ r.owner = fds'[fd] /\ r.deleted = FALSE
      BY <2>5 DEF States
    <2>7. st' = [s EXCEPT ![y] = r] /\ list' = <<y>> \o list /\ failed' = failed
      BY <1>2, <2>3, <2>5
    <2>8. st' \in Memory /\ st'[y] = r /\ \A z \in State : z # y => st'[z] = s[z]
      BY <2>4, <2>6, <2>7 DEF Memory
    <2>9. r # Free
      BY <2>6, FreeAssumption
    <2>10. ListOK(list', st')
      <3>1. list \in Seq(State) /\ IsInjective(list) /\ y \notin ToSet(list)
        BY <2>4 DEF ListOK
      <3>2. /\ list' \in Seq(State) /\ IsInjective(list')
            /\ ToSet(list') = ToSet(list) \cup {y}
        BY <2>4, <2>7, <3>1, AtTheFront
      <3>3. {z \in State : st'[z] # Free} = {z \in State : st[z] # Free} \cup {y}
        BY <2>4, <2>8, <2>9
      <3>. QED
        BY <3>2, <3>3 DEF ListOK
    <2>11. LiveIn(st', y)
      BY <2>6, <2>8, <2>9 DEF LiveIn
    <2>. QED
      BY <2>4, <2>6, <2>7, <2>8, <2>10, <2>11
  <1>. QED
    BY <1>1, <1>2 DEF MakeState

(* What a walk has yet to call stays live while other states change. *)
LEMMA RestLive ==
    ASSUME TodoOK(todo, st), todo # <<>>, NEW s,
           \A z \in State : z # Head(todo) /\ LiveIn(st, z) => s[z] = st[z]
    PROVE  TodoOK(Tail(todo), s)
  <1>1. /\ Tail(todo) \in Seq(State \cup {Acceptor}) /\ IsInjective(Tail(todo))
        /\ ToSet(Tail(todo)) = ToSet(todo) \ {Head(todo)}
    BY TheRest DEF TodoOK
  <1>2. ASSUME NEW x \in ToSet(Tail(todo)), x \in State PROVE LiveIn(s, x)
    <2>1. x # Head(todo) /\ LiveIn(st, x)
      BY <1>1, <1>2 DEF TodoOK
    <2>2. s[x] = st[x]
      BY <1>2, <2>1
    <2>. QED
      BY <2>1, <2>2 DEF LiveIn
  <1>. QED
    BY <1>1, <1>2 DEF TodoOK

(* A callback runs for a live state. *)
LEMMA CalledLive ==
    ASSUME CommandInv, NEW x \in State, Callback(x)
    PROVE  /\ todo # <<>> /\ Head(todo) = x /\ LiveIn(st, x) /\ st[x] \in States
           /\ st[x].socket \in Fd
  <1>1. todo # <<>> /\ Head(todo) = x /\ TodoOK(todo, st) /\ st \in Memory
    BY DEF Callback, CommandInv, CommandTypes
  <1>2. x \in ToSet(todo)
    BY <1>1, TheRest DEF TodoOK
  <1>3. LiveIn(st, x)
    BY <1>1, <1>2 DEF TodoOK
  <1>. QED
    BY <1>1, <1>3, LiveRecord

-----------------------------------------------------------------------------
(* Who owns which descriptor. *)

(* A connection is accepted on a descriptor that was free; it gets a       *)
(* reader, or that fails.                                                  *)
LEMMA AcceptedOwned ==
    ASSUME NEW cn, NEW dn, NEW fd \in [Fd -> Conn \cup {NoConn}], NEW gd,
           NEW s \in Memory, NEW t \in Memory, NEW fl, NEW gl,
           Owned(cn, fd, s, fl), NEW f \in Fd, fd[f] = NoConn, NEW c \in Conn,
           cn[c] = "waiting", cn \in [Conn -> {"none", "waiting", "open", "closed"}],
           dn = [cn EXCEPT ![c] = "open"], gd = [fd EXCEPT ![f] = c],
           Made(s, s, t, f, c, fl, gl)
    PROVE  Owned(dn, gd, t, gl)
  <1>1. NoConn \notin Conn
    BY CommandAssumption
  <1>2. gd[f] = c /\ \A g \in Fd : g # f => gd[g] = fd[g]
    OBVIOUS
  <1>3. dn[c] = "open" /\ \A d \in Conn : d # c => dn[d] = cn[d]
    OBVIOUS
  <1>4. \A g \in Fd : fd[g] # c /\ fd[g] \in Conn \cup {NoConn}
    BY <1>1 DEF Owned
  <1>5. \A g \in Fd : gd[g] # NoConn => dn[gd[g]] = "open"
    BY <1>2, <1>3, <1>4 DEF Owned
  <1>6. \A g, h \in Fd : gd[g] # NoConn /\ gd[g] = gd[h] => g = h
    BY <1>2, <1>4 DEF Owned
  <1>7. \A x \in State : LiveIn(s, x) => /\ s[x].socket \in Fd /\ s[x].socket # f
                                         /\ gd[s[x].socket] = s[x].owner
    <2>1. ASSUME NEW x \in State, LiveIn(s, x)
          PROVE  s[x].socket \in Fd /\ s[x].socket # f /\ gd[s[x].socket] = s[x].owner
      <3>1. s[x].socket \in Fd /\ s[x].owner \in Conn /\ fd[s[x].socket] = s[x].owner
        BY <2>1, LiveRecord DEF Owned
      <3>2. s[x].socket # f
        BY <1>1, <3>1
      <3>. QED
        BY <1>2, <3>1, <3>2
    <2>. QED
      BY <2>1
  <1>8. CASE gl = TRUE /\ t = s
    BY <1>5, <1>6, <1>7, <1>8 DEF Owned
  <1>9. ASSUME gl = fl, NEW y \in State, s[y] = Free, LiveIn(t, y), t[y].socket = f,
               t[y].owner = gd[f], \A z \in State : z # y => t[z] = s[z]
        PROVE  Owned(dn, gd, t, gl)
    <2>1. \A z \in State : z # y => (LiveIn(t, z) <=> LiveIn(s, z)) /\ t[z] = s[z]
      BY <1>9 DEF LiveIn
    <2>2. \A z \in State : LiveIn(s, z) => z # y
      BY <1>9 DEF LiveIn
    <2>3. \A x \in State : LiveIn(t, x) => gd[t[x].socket] = t[x].owner
      BY <1>7, <1>9, <2>1
    <2>4. \A x, z \in State : LiveIn(t, x) /\ LiveIn(t, z) /\ t[x].socket = t[z].socket => x = z
      BY <1>7, <1>9, <2>1 DEF Owned
    <2>5. ASSUME ~gl, NEW g \in Fd, gd[g] # NoConn
          PROVE  \E x \in State : LiveIn(t, x) /\ t[x].socket = g
      <3>1. CASE g = f
        BY <1>9, <3>1
      <3>2. CASE g # f
        <4>1. fd[g] # NoConn
          BY <1>2, <2>5, <3>2
        <4>2. PICK x \in State : LiveIn(s, x) /\ s[x].socket = g
          BY <1>9, <2>5, <4>1 DEF Owned
        <4>. QED
          BY <2>1, <2>2, <4>2
      <3>. QED
        BY <3>1, <3>2
    <2>. QED
      BY <1>5, <1>6, <2>3, <2>4, <2>5 DEF Owned
  <1>. QED
    BY <1>2, <1>8, <1>9 DEF Made, OnlyAt

(* A connection is closed and its state freed. *)
LEMMA ClosedOwned ==
    ASSUME NEW cn, NEW dn, NEW fd \in [Fd -> Conn \cup {NoConn}], NEW gd,
           NEW s \in Memory, NEW t, NEW fl, Owned(cn, fd, s, fl),
           NEW x \in State, LiveIn(s, x), NEW f, f = s[x].socket,
           cn \in [Conn -> {"none", "waiting", "open", "closed"}],
           dn = [cn EXCEPT ![fd[f]] = "closed"], gd = [fd EXCEPT ![f] = NoConn],
           ~LiveIn(t, x), OnlyAt(x, s, t)
    PROVE  Owned(dn, gd, t, fl)
  <1>0. \A z \in State : z # x => t[z] = s[z]
    BY DEF OnlyAt
  <1>1. f \in Fd /\ fd[f] = s[x].owner /\ fd[f] \in Conn
    BY LiveRecord DEF Owned
  <1>2. gd[f] = NoConn /\ \A g \in Fd : g # f => gd[g] = fd[g]
    BY <1>1
  <1>3. \A d \in Conn : d # fd[f] => dn[d] = cn[d]
    BY <1>1
  <1>4. fd[f] # NoConn
    BY <1>1, CommandAssumption
  <1>5. \A g \in Fd : g # f => fd[g] # fd[f] /\ fd[g] \in Conn \cup {NoConn}
    BY <1>1, <1>4 DEF Owned
  <1>6. \A g \in Fd : gd[g] # NoConn => dn[gd[g]] = "open"
    BY <1>2, <1>3, <1>5 DEF Owned
  <1>7. \A g, h \in Fd : gd[g] # NoConn /\ gd[g] = gd[h] => g = h
    BY <1>2 DEF Owned
  <1>8. \A z \in State : LiveIn(t, z) => /\ z # x /\ LiveIn(s, z) /\ t[z] = s[z]
                                         /\ s[z].socket \in Fd /\ s[z].socket # f
    <2>1. ASSUME NEW z \in State, LiveIn(t, z)
          PROVE  /\ z # x /\ LiveIn(s, z) /\ t[z] = s[z]
                 /\ s[z].socket \in Fd /\ s[z].socket # f
      <3>1. z # x /\ t[z] = s[z]
        BY <1>0, <2>1
      <3>2. LiveIn(s, z)
        BY <2>1, <3>1 DEF LiveIn
      <3>3. s[z].socket \in Fd
        BY <3>2, LiveRecord
      <3>4. s[z].socket # f
        BY <3>1, <3>2 DEF Owned
      <3>. QED
        BY <3>1, <3>2, <3>3, <3>4
    <2>. QED
      BY <2>1
  <1>9. \A z \in State : LiveIn(t, z) => gd[t[z].socket] = t[z].owner
    BY <1>2, <1>8 DEF Owned
  <1>10. \A y, z \in State : LiveIn(t, y) /\ LiveIn(t, z) /\ t[y].socket = t[z].socket => y = z
    BY <1>8 DEF Owned
  <1>11. ASSUME ~fl, NEW g \in Fd, gd[g] # NoConn
         PROVE  \E z \in State : LiveIn(t, z) /\ t[z].socket = g
    <2>1. g # f /\ fd[g] # NoConn
      BY <1>2, <1>11
    <2>2. PICK z \in State : LiveIn(s, z) /\ s[z].socket = g
      BY <1>11, <2>1 DEF Owned
    <2>3. z # x /\ t[z] = s[z]
      BY <1>0, <2>1, <2>2
    <2>. QED
      BY <2>2, <2>3 DEF LiveIn
  <1>. QED
    BY <1>6, <1>7, <1>9, <1>10, <1>11 DEF Owned

(* A reader is freed, and a writer made for its descriptor, or that fails. *)
LEMMA RepliedOwned ==
    ASSUME NEW cn, NEW fd \in [Fd -> Conn \cup {NoConn}],
           NEW s \in Memory, NEW u, NEW t, NEW fl, NEW gl, Owned(cn, fd, s, fl),
           NEW x \in State, LiveIn(s, x), NEW f, f = s[x].socket,
           ~LiveIn(u, x), OnlyAt(x, s, u), Made(s, u, t, f, fd[f], fl, gl)
    PROVE  Owned(cn, fd, t, gl)
  <1>0. \A z \in State : z # x => u[z] = s[z]
    BY DEF OnlyAt
  <1>1. f \in Fd
    BY LiveRecord
  <1>2. \A z \in State : LiveIn(u, z) => /\ z # x /\ LiveIn(s, z) /\ u[z] = s[z]
                                         /\ s[z].socket # f
    <2>1. ASSUME NEW z \in State, LiveIn(u, z)
          PROVE  z # x /\ LiveIn(s, z) /\ u[z] = s[z] /\ s[z].socket # f
      <3>1. z # x /\ u[z] = s[z]
        BY <1>0, <2>1
      <3>2. LiveIn(s, z)
        BY <2>1, <3>1 DEF LiveIn
      <3>. QED
        BY <3>1, <3>2 DEF Owned
    <2>. QED
      BY <2>1
  <1>3. CASE gl = TRUE /\ t = u
    BY <1>2, <1>3 DEF Owned
  <1>4. ASSUME gl = fl, NEW y \in State, s[y] = Free, LiveIn(t, y), t[y].socket = f,
               t[y].owner = fd[f], \A z \in State : z # y => t[z] = u[z]
        PROVE  Owned(cn, fd, t, gl)
    <2>1. \A z \in State : z # y /\ LiveIn(t, z) =>
             LiveIn(s, z) /\ t[z] = s[z] /\ s[z].socket # f
      <3>1. ASSUME NEW z \in State, z # y, LiveIn(t, z)
            PROVE  LiveIn(s, z) /\ t[z] = s[z] /\ s[z].socket # f
        <4>1. t[z] = u[z]
          BY <1>4, <3>1
        <4>2. LiveIn(u, z)
          BY <3>1, <4>1 DEF LiveIn
        <4>. QED
          BY <1>2, <4>1, <4>2
      <3>. QED
        BY <3>1
    <2>2. \A z \in State : LiveIn(t, z) => fd[t[z].socket] = t[z].owner
      BY <1>4, <2>1 DEF Owned
    <2>3. \A v, z \in State : LiveIn(t, v) /\ LiveIn(t, z) /\ t[v].socket = t[z].socket => v = z
      BY <1>4, <2>1 DEF Owned
    <2>4. ASSUME ~gl, NEW g \in Fd, fd[g] # NoConn
          PROVE  \E z \in State : LiveIn(t, z) /\ t[z].socket = g
      <3>1. CASE g = f
        BY <1>4, <3>1
      <3>2. CASE g # f
        <4>1. PICK z \in State : LiveIn(s, z) /\ s[z].socket = g
          BY <1>4, <2>4 DEF Owned
        <4>2. z # x /\ z # y
          BY <1>4, <3>2, <4>1 DEF LiveIn
        <4>3. t[z] = s[z]
          BY <1>0, <1>4, <4>2
        <4>. QED
          BY <4>1, <4>3 DEF LiveIn
      <3>. QED
        BY <3>1, <3>2
    <2>. QED
      BY <2>2, <2>3, <2>4 DEF Owned
  <1>. QED
    BY <1>3, <1>4 DEF Made, OnlyAt

-----------------------------------------------------------------------------
(* The steps. *)

(* The invariant from its parts. *)
LEMMA FromParts ==
    ASSUME CommandTypes', ListOK(list', st'), TodoOK(todo', st'),
           exits' = 0 => Owned(conn', fds', st', failed')
    PROVE  CommandInv'
  BY DEF CommandInv

(* Steps that leave connections, descriptors and states alone. *)
LEMMA StatesSame ==
    ASSUME CommandInv, CommandTypes', TodoOK(todo', st),
           UNCHANGED <<conn, fds, st, list, failed, exits>>
    PROVE  CommandInv'
  BY DEF CommandInv

(* A client connects. *)
LEMMA ConnectStep ==
    ASSUME CommandInv, connect
    PROVE  CommandInv'
  <1>1. PICK c \in Conn : conn[c] = "none" /\ conn' = [conn EXCEPT ![c] = "waiting"]
    BY DEF connect
  <1>2. UNCHANGED <<fds, st, list, walking, todo, exits, tunnels, exited, failed>>
    BY DEF connect
  <1>3. /\ conn \in [Conn -> {"none", "waiting", "open", "closed"}] /\ CommandTypes
        /\ fds \in [Fd -> Conn \cup {NoConn}]
    BY DEF CommandInv, CommandTypes
  <1>4. CommandTypes'
    <2>1. conn' \in [Conn -> {"none", "waiting", "open", "closed"}]
      BY <1>1, <1>3
    <2>. QED
      BY <1>2, <1>3, <2>1 DEF CommandTypes
  <1>5. exits = 0 => Owned(conn', fds, st, failed)
    <2> SUFFICES ASSUME exits = 0 PROVE Owned(conn', fds, st, failed)
      OBVIOUS
    <2>1. Owned(conn, fds, st, failed)
      BY DEF CommandInv
    <2>2. ASSUME NEW f \in Fd, fds[f] # NoConn PROVE conn'[fds[f]] = "open"
      <3>1. conn[fds[f]] = "open" /\ fds[f] \in Conn
        BY <1>3, <2>1, <2>2 DEF Owned
      <3>. QED
        BY <1>1, <1>3, <3>1
    <2>. QED
      BY <2>1, <2>2 DEF Owned
  <1>. QED
    BY <1>2, <1>4, <1>5, FromParts DEF CommandInv

(* The time of a state passes. *)
LEMMA TimeoutStep ==
    ASSUME CommandInv, NEW x \in State, TimeoutPasses(x)
    PROVE  CommandInv'
  <1>1. /\ LiveIn(st, x) /\ st' = [st EXCEPT ![x].expired = TRUE]
        /\ UNCHANGED <<conn, fds, list, walking, todo, exits, tunnels, exited, failed>>
    BY DEF TimeoutPasses, Live, LiveIn
  <1>2. st \in Memory /\ ListOK(list, st) /\ TodoOK(todo, st) /\ CommandTypes
    BY DEF CommandInv, CommandTypes
  <1>3. st[x] \in States
    BY <1>1, <1>2, LiveRecord
  <1>4. PICK r : r = [st[x] EXCEPT !.expired = TRUE]
    OBVIOUS
  <1>5. /\ r \in States /\ r.deleted = st[x].deleted /\ r.socket = st[x].socket
        /\ r.owner = st[x].owner
    BY <1>3, <1>4 DEF States
  <1>6. /\ st' \in Memory /\ st'[x] = r
        /\ \A z \in State : z # x => st'[z] = st[z]
    BY <1>1, <1>2, <1>4, <1>5 DEF Memory
  <1>7. \A z \in State : /\ st'[z] = Free <=> st[z] = Free
                         /\ LiveIn(st', z) <=> LiveIn(st, z)
                         /\ LiveIn(st, z) => st'[z].socket = st[z].socket
                                              /\ st'[z].owner = st[z].owner
    BY <1>1, <1>3, <1>5, <1>6, FreeAssumption DEF LiveIn
  <1>8. CommandTypes'
    BY <1>1, <1>2, <1>6 DEF CommandTypes
  <1>9. ListOK(list', st')
    BY <1>1, <1>2, <1>7 DEF ListOK
  <1>10. TodoOK(todo', st')
    BY <1>1, <1>2, <1>7 DEF TodoOK
  <1>11. exits = 0 => Owned(conn, fds, st', failed)
    BY <1>7 DEF CommandInv, Owned
  <1>. QED
    BY <1>1, <1>8, <1>9, <1>10, <1>11, FromParts

(* A select finds what its walk will call. *)
LEMMA SelectStep ==
    ASSUME CommandInv, Select
    PROVE  CommandInv'
  <1>1. PICK ready : todo' = Calls(ready)
    BY DEF Select
  <1>2. UNCHANGED <<conn, fds, st, list, exits, tunnels, exited, failed>> /\ walking' = TRUE
    BY DEF Select
  <1>3. list \in Seq(State) /\ IsInjective(list) /\ CommandTypes
    BY DEF CommandInv, ListOK
  <1>4. PICK called : /\ called \subseteq InUse
                      /\ todo' = Listed(called) \o (IF Connection \in ready THEN <<Acceptor>>
                                                    ELSE <<>>)
    BY <1>1 DEF Calls
  <1>5. PICK w : w = Listed(called)
    OBVIOUS
  <1>6. w \in Seq(State) /\ IsInjective(w) /\ ToSet(w) \subseteq InUse
    BY <1>3, <1>4, <1>5, ListedType
  <1>7. TodoOK(w, st)
    <2>1. w \in Seq(State \cup {Acceptor})
      BY <1>6
    <2>. QED
      BY <1>6, <2>1 DEF TodoOK, InUse, Live, LiveIn
  <1>8. TodoOK(todo', st)
    <2>1. CASE Connection \in ready
      <3>1. todo' = Append(w, Acceptor)
        <4>1. w \o <<Acceptor>> = Append(w, Acceptor)
          BY <1>6
        <4>. QED
          BY <1>4, <1>5, <2>1, <4>1
      <3>2. Acceptor \notin ToSet(w) /\ Acceptor \notin State
        BY <1>6, CommandAssumption DEF InUse
      <3>3. w \in Seq(State \cup {Acceptor}) /\ Acceptor \in State \cup {Acceptor}
        BY <1>7 DEF TodoOK
      <3>4. /\ Append(w, Acceptor) \in Seq(State \cup {Acceptor})
            /\ IsInjective(Append(w, Acceptor))
            /\ ToSet(Append(w, Acceptor)) = ToSet(w) \cup {Acceptor}
        BY <1>6, <3>2, <3>3, AtTheEnd
      <3>. QED
        BY <1>7, <3>1, <3>2, <3>4 DEF TodoOK
    <2>2. CASE Connection \notin ready
      <3>1. w \o <<>> = w
        BY <1>6
      <3>2. todo' = w
        BY <1>4, <1>5, <2>2, <3>1
      <3>. QED
        BY <1>7, <3>2
    <2>. QED
      BY <2>1, <2>2
  <1>9. CommandTypes'
    BY <1>2, <1>3 DEF CommandTypes
  <1>. QED
    BY <1>2, <1>8, <1>9, StatesSame

(* A walk ends; outside an exit command what was deleted is freed. *)
LEMMA EndOfWalkStep ==
    ASSUME CommandInv, EndOfWalk
    PROVE  CommandInv'
  <1>1. /\ UNCHANGED <<conn, fds, exits, tunnels, exited, failed>>
        /\ todo' = <<>> /\ walking' = FALSE
    BY DEF EndOfWalk, ToSelect
  <1>2. CommandTypes /\ st \in Memory /\ ListOK(list, st)
    BY DEF CommandInv, CommandTypes
  <1>3. \A s : TodoOK(<<>>, s)
    BY DEF TodoOK, ToSet, IsInjective
  <1>4. CASE UNCHANGED <<list, st>>
    <2>1. CommandTypes'
      BY <1>1, <1>2, <1>4 DEF CommandTypes
    <2>. QED
      BY <1>1, <1>3, <1>4, <2>1, StatesSame
  <1>5. CASE /\ list' = Listed(InUse)
             /\ st' = [x \in State |-> IF Live(x) THEN st[x] ELSE Free]
    <2>1. st' \in Memory
      BY <1>2, <1>5 DEF Memory
    <2>2. \A x \in State : /\ LiveIn(st', x) <=> LiveIn(st, x)
                           /\ st'[x] # Free <=> x \in InUse
                           /\ LiveIn(st, x) => st'[x] = st[x]
      BY <1>5 DEF LiveIn, Live, InUse
    <2>3. ListOK(list', st')
      <3>1. /\ list' \in Seq(State) /\ IsInjective(list')
            /\ ToSet(list') = ToSet(list) \cap InUse
        BY <1>2, <1>5, ListedType DEF ListOK
      <3>2. ToSet(list) \cap InUse = InUse
        BY <1>2 DEF ListOK, InUse, Live
      <3>3. {x \in State : st'[x] # Free} = InUse
        BY <2>2 DEF InUse
      <3>. QED
        BY <3>1, <3>2, <3>3 DEF ListOK
    <2>4. exits = 0 => Owned(conn, fds, st', failed)
      BY <2>2 DEF CommandInv, Owned
    <2>5. CommandTypes'
      BY <1>1, <1>2, <2>1 DEF CommandTypes
    <2>. QED
      BY <1>1, <1>3, <2>3, <2>4, <2>5, FromParts
  <1>. QED
    BY <1>4, <1>5 DEF EndOfWalk

(* A connection is accepted, or not. *)
LEMMA AcceptStep ==
    ASSUME CommandInv, handle_accept
    PROVE  CommandInv'
  <1>1. /\ todo # <<>> /\ Head(todo) = Acceptor /\ todo' = Tail(todo) /\ walking' = walking
        /\ UNCHANGED <<exits, tunnels, exited>>
    BY DEF handle_accept, Callback, ToNext
  <1>2. /\ CommandTypes /\ st \in Memory /\ ListOK(list, st) /\ TodoOK(todo, st)
        /\ conn \in [Conn -> {"none", "waiting", "open", "closed"}]
        /\ fds \in [Fd -> Conn \cup {NoConn}] /\ failed \in BOOLEAN
    BY DEF CommandInv, CommandTypes
  <1>3. Acceptor \notin State
    BY CommandAssumption
  <1>4. CASE UNCHANGED <<conn, fds, st, list, failed>>
    <2>1. TodoOK(todo', st)
      BY <1>1, <1>2, RestLive
    <2>2. CommandTypes'
      BY <1>1, <1>2, <1>4 DEF CommandTypes
    <2>. QED
      BY <1>1, <1>4, <2>1, <2>2, StatesSame
  <1>5. CASE LET free == {f \in Fd : fds[f] = NoConn}
                 fd == CHOOSE f \in free : \A g \in free : f <= g
             IN  /\ free # {}
                 /\ \E c \in Waiting : /\ conn' = [conn EXCEPT ![c] = "open"]
                                       /\ fds' = [fds EXCEPT ![fd] = c]
                 /\ cmd_acceptor(fd)
    <2>1. PICK free : free = {f \in Fd : fds[f] = NoConn}
      OBVIOUS
    <2>2. PICK fd : fd = CHOOSE f \in free : \A g \in free : f <= g
      OBVIOUS
    <2>3. free # {} /\ cmd_acceptor(fd)
      BY <1>5, <2>1, <2>2
    <2>4. PICK c \in Waiting : conn' = [conn EXCEPT ![c] = "open"] /\ fds' = [fds EXCEPT ![fd] = c]
      BY <1>5, <2>1, <2>2
    <2>5. fd \in Fd /\ fds[fd] = NoConn
      <3>1. free \subseteq Nat
        BY <2>1, CommandAssumption
      <3>2. \E f \in free : \A g \in free : f <= g
        BY <2>3, <3>1, LeastNatural
      <3>3. fd \in free
        BY <2>2, <3>2
      <3>. QED
        BY <2>1, <3>3
    <2>6. c \in Conn /\ conn[c] = "waiting"
      BY <2>4 DEF Waiting
    <2>7. /\ fds' \in [Fd -> Conn \cup {NoConn}] /\ fds'[fd] = c
          /\ conn' \in [Conn -> {"none", "waiting", "open", "closed"}]
      BY <1>2, <2>4, <2>5, <2>6
    <2>8. MakeState("read", fd, st)
      BY <2>3 DEF cmd_acceptor, EventTcp_ReadBuf
    <2>9. /\ st' \in Memory /\ ListOK(list', st') /\ failed' \in BOOLEAN
          /\ \/ /\ failed' = failed
                /\ \E y \in State : /\ st[y] = Free /\ LiveIn(st', y)
                                    /\ st'[y].socket = fd /\ st'[y].owner = fds'[fd]
                                    /\ \A z \in State : z # y => st'[z] = st[z]
             \/ failed' = TRUE /\ st' = st
      BY <1>2, <2>5, <2>6, <2>7, <2>8, StateMade
    <2>10. \A z \in State : LiveIn(st, z) => st'[z] = st[z]
      BY <2>9 DEF LiveIn
    <2>11. TodoOK(todo', st')
      BY <1>1, <1>2, <2>10, RestLive
    <2>12. CommandTypes'
      BY <1>1, <1>2, <2>7, <2>9 DEF CommandTypes
    <2>13. exits = 0 => Owned(conn', fds', st', failed')
      <3>1. SUFFICES ASSUME exits = 0 PROVE Owned(conn', fds', st', failed')
        OBVIOUS
      <3>2. Owned(conn, fds, st, failed)
        BY <3>1 DEF CommandInv
      <3>3. Made(st, st, st', fd, c, failed, failed')
        BY <2>7, <2>9 DEF Made, OnlyAt
      <3>4. PICK t, gl : t = st' /\ gl = failed'
        OBVIOUS
      <3>5. t \in Memory /\ Made(st, st, t, fd, c, failed, gl)
        BY <2>9, <3>3, <3>4
      <3>6. Owned([conn EXCEPT ![c] = "open"], [fds EXCEPT ![fd] = c], t, gl)
        BY <1>2, <2>5, <2>6, <3>2, <3>5, AcceptedOwned
      <3>. QED
        BY <2>4, <3>4, <3>6
    <2>. QED
      BY <1>1, <2>9, <2>11, <2>12, <2>13, FromParts
  <1>. QED
    BY <1>4, <1>5 DEF handle_accept

(* A callback closes its descriptor and frees its state. *)
LEMMA CloseStep ==
    ASSUME CommandInv, NEW x \in State, Callback(x), CloseAndFree(x),
           UNCHANGED <<tunnels, exited>>
    PROVE  CommandInv'
  <1>1. /\ todo # <<>> /\ Head(todo) = x /\ LiveIn(st, x) /\ st[x] \in States
        /\ st[x].socket \in Fd
    BY CalledLive
  <1>2. /\ CommandTypes /\ st \in Memory /\ ListOK(list, st) /\ TodoOK(todo, st)
        /\ conn \in [Conn -> {"none", "waiting", "open", "closed"}]
        /\ fds \in [Fd -> Conn \cup {NoConn}]
    BY DEF CommandInv, CommandTypes
  <1>3. PICK f : f = st[x].socket
    OBVIOUS
  <1>4. /\ fds' = [fds EXCEPT ![f] = NoConn]
        /\ conn' = IF fds[f] = NoConn THEN conn ELSE [conn EXCEPT ![fds[f]] = "closed"]
        /\ st' = free_state(st, x) /\ todo' = Tail(todo) /\ walking' = walking
        /\ UNCHANGED <<list, exits, failed>>
    BY <1>3 DEF CloseAndFree, close, ToNext
  <1>5. st[x] # Free
    BY <1>1, <1>2, LiveRecord
  <1>6. /\ st' \in Memory /\ st'[x] \in States /\ ~LiveIn(st', x)
        /\ \A z \in State : z # x => st'[z] = st[z]
    BY <1>2, <1>4, <1>5, Freed
  <1>7. ListOK(list', st')
    <2>1. \A z \in State : st'[z] # Free <=> st[z] # Free
      BY <1>5, <1>6, FreeAssumption
    <2>. QED
      BY <1>2, <1>4, <2>1 DEF ListOK
  <1>8. TodoOK(todo', st')
    BY <1>1, <1>2, <1>4, <1>6, RestLive
  <1>9. CommandTypes'
    <2>1. fds' \in [Fd -> Conn \cup {NoConn}]
      BY <1>2, <1>4
    <2>2. conn' \in [Conn -> {"none", "waiting", "open", "closed"}]
      BY <1>1, <1>2, <1>3, <1>4
    <2>. QED
      BY <1>2, <1>4, <1>6, <2>1, <2>2 DEF CommandTypes
  <1>10. exits = 0 => Owned(conn', fds', st', failed)
    <2>1. SUFFICES ASSUME exits = 0 PROVE Owned(conn', fds', st', failed)
      OBVIOUS
    <2>2. Owned(conn, fds, st, failed)
      BY <2>1 DEF CommandInv
    <2>3. fds[f] = st[x].owner /\ st[x].owner \in Conn
      BY <1>1, <1>2, <1>3, <2>2, LiveRecord DEF Owned
    <2>4. conn' = [conn EXCEPT ![fds[f]] = "closed"]
      BY <1>4, <2>3, CommandAssumption
    <2>5. PICK t : t = st'
      OBVIOUS
    <2>6. ~LiveIn(t, x) /\ OnlyAt(x, st, t)
      BY <1>6, <2>5 DEF OnlyAt
    <2>7. Owned([conn EXCEPT ![fds[f]] = "closed"], [fds EXCEPT ![f] = NoConn], t, failed)
      BY <1>1, <1>2, <1>3, <2>2, <2>6, ClosedOwned
    <2>. QED
      BY <1>4, <2>4, <2>5, <2>7
  <1>. QED
    BY <1>4, <1>7, <1>8, <1>9, <1>10, FromParts

(* A command other than exit: the reader is freed and a writer made. *)
LEMMA ReplyStep ==
    ASSUME CommandInv, NEW x \in State, Callback(x), fds[st[x].socket] # NoConn,
           cmd_reply(st[x].socket, free_state(st, x)), ToNext,
           UNCHANGED <<conn, fds, exits, tunnels, exited>>
    PROVE  CommandInv'
  <1>1. /\ todo # <<>> /\ Head(todo) = x /\ LiveIn(st, x) /\ st[x] \in States
        /\ st[x].socket \in Fd
    BY CalledLive
  <1>2. /\ CommandTypes /\ st \in Memory /\ ListOK(list, st) /\ TodoOK(todo, st)
        /\ fds \in [Fd -> Conn \cup {NoConn}] /\ failed \in BOOLEAN
    BY DEF CommandInv, CommandTypes
  <1>3. PICK f : f = st[x].socket
    OBVIOUS
  <1>4. PICK u : u = free_state(st, x)
    OBVIOUS
  <1>5. st[x] # Free
    BY <1>1, <1>2, LiveRecord
  <1>6. /\ u \in Memory /\ u[x] \in States /\ ~LiveIn(u, x)
        /\ \A z \in State : z # x => u[z] = st[z]
    BY <1>2, <1>4, <1>5, Freed
  <1>7. MakeState("write", f, u) /\ f \in Fd /\ fds'[f] = fds[f] /\ fds[f] \in Conn
    BY <1>1, <1>2, <1>3, <1>4 DEF cmd_reply, EventTcp_WriteBuf
  <1>8. \A z \in State : u[z] = Free <=> st[z] = Free
    BY <1>5, <1>6, FreeAssumption
  <1>9. /\ st' \in Memory /\ ListOK(list', st') /\ failed' \in BOOLEAN
        /\ \/ /\ failed' = failed
              /\ \E y \in State : /\ st[y] = Free /\ LiveIn(st', y)
                                  /\ st'[y].socket = f /\ st'[y].owner = fds'[f]
                                  /\ \A z \in State : z # y => st'[z] = u[z]
           \/ failed' = TRUE /\ st' = u
    BY <1>2, <1>6, <1>7, <1>8, StateMade
  <1>10. \A z \in State : z # x /\ LiveIn(st, z) => st'[z] = st[z]
    BY <1>6, <1>9 DEF LiveIn
  <1>11. TodoOK(todo', st')
    BY <1>1, <1>2, <1>10, RestLive DEF ToNext
  <1>12. CommandTypes'
    BY <1>2, <1>9 DEF CommandTypes, ToNext
  <1>13. exits = 0 => Owned(conn, fds, st', failed')
    <2>1. SUFFICES ASSUME exits = 0 PROVE Owned(conn, fds, st', failed')
      OBVIOUS
    <2>2. Owned(conn, fds, st, failed)
      BY <2>1 DEF CommandInv
    <2>3. Made(st, u, st', f, fds[f], failed, failed')
      BY <1>7, <1>9 DEF Made, OnlyAt
    <2>4. PICK t, gl : t = st' /\ gl = failed'
      OBVIOUS
    <2>5. OnlyAt(x, st, u) /\ Made(st, u, t, f, fds[f], failed, gl)
      BY <1>6, <2>3, <2>4 DEF OnlyAt
    <2>6. Owned(conn, fds, t, gl)
      BY <1>1, <1>2, <1>3, <1>6, <2>2, <2>5, RepliedOwned
    <2>. QED
      BY <2>4, <2>6
  <1>. QED
    BY <1>9, <1>11, <1>12, <1>13, FromParts

(* The exit command: its state stays, and its walk is over. *)
LEMMA ExitStep ==
    ASSUME CommandInv, NEW x \in State, Callback(x), fds[st[x].socket] # NoConn,
           cmd_exit(x), UNCHANGED <<conn, fds, tunnels, exited>>
    PROVE  CommandInv'
  <1>1. LiveIn(st, x) /\ st[x] \in States /\ st[x].socket \in Fd
    BY CalledLive
  <1>2. /\ CommandTypes /\ st \in Memory /\ ListOK(list, st)
        /\ fds \in [Fd -> Conn \cup {NoConn}] /\ failed \in BOOLEAN /\ exits \in 0..MaxExits
    BY DEF CommandInv, CommandTypes
  <1>3. PICK f : f = st[x].socket
    OBVIOUS
  <1>4. PICK u : u = [st EXCEPT ![x].cmd = "exit"]
    OBVIOUS
  <1>5. u \in Memory /\ u[x] \in States /\ \A z \in State : z # x => u[z] = st[z]
    <2>1. [st[x] EXCEPT !.cmd = "exit"] \in States
      BY <1>1 DEF States, Commands
    <2>2. u = [st EXCEPT ![x] = [st[x] EXCEPT !.cmd = "exit"]]
      BY <1>4
    <2>. QED
      BY <1>2, <2>1, <2>2 DEF Memory
  <1>6. MakeState("write", f, u) /\ f \in Fd /\ fds'[f] \in Conn
    BY <1>1, <1>2, <1>3, <1>4 DEF cmd_exit, cmd_reply, EventTcp_WriteBuf
  <1>7. \A z \in State : u[z] = Free <=> st[z] = Free
    BY <1>1, <1>5, FreeAssumption
  <1>8. st' \in Memory /\ ListOK(list', st') /\ failed' \in BOOLEAN
    BY <1>2, <1>5, <1>6, <1>7, StateMade
  <1>9. /\ exits' = exits + 1 /\ exits < MaxExits /\ todo' = <<>> /\ walking' = FALSE
    BY DEF cmd_exit, ToSelect
  <1>10. TodoOK(todo', st')
    BY <1>9 DEF TodoOK, ToSet, IsInjective
  <1>11. exits' \in 0..MaxExits /\ exits' # 0
    BY <1>2, <1>9, CommandAssumption
  <1>12. CommandTypes'
    BY <1>2, <1>8, <1>9, <1>11 DEF CommandTypes
  <1>. QED
    BY <1>8, <1>10, <1>11, <1>12, FromParts

(* A callback that has to wait for more. *)
LEMMA WaitStep ==
    ASSUME CommandInv, NEW x \in State, Callback(x), ToNext,
           UNCHANGED <<conn, fds, st, list, exits, failed, tunnels, exited>>
    PROVE  CommandInv'
  <1>1. todo # <<>> /\ TodoOK(todo, st) /\ CommandTypes
    BY DEF Callback, CommandInv
  <1>2. TodoOK(todo', st)
    BY <1>1, RestLive DEF ToNext
  <1>3. CommandTypes'
    BY <1>1 DEF CommandTypes, ToNext
  <1>. QED
    BY <1>2, <1>3, StatesSame

(* The initial state has it. *)
LEMMA InvInit ==
    ASSUME Init
    PROVE  CommandInv
  <1>1. CommandTypes
    <2>1. conn \in [Conn -> {"none", "waiting", "open", "closed"}]
      BY DEF Init
    <2>2. fds \in [Fd -> Conn \cup {NoConn}]
      BY DEF Init
    <2>3. st \in Memory
      BY DEF Init, Memory
    <2>4. exits \in 0..MaxExits
      <3>1. exits = 0
        BY DEF Init
      <3>. QED
        BY <3>1, CommandAssumption
    <2>5. tunnels \in 0..Tunnels
      <3>1. tunnels = Tunnels
        BY DEF Init
      <3>. QED
        BY <3>1, CommandAssumption
    <2>6. walking \in BOOLEAN /\ failed \in BOOLEAN /\ exited \in {"no", "ok", "failure"}
      BY Zenon DEF Init
    <2>. QED
      BY <2>1, <2>2, <2>3, <2>4, <2>5, <2>6 DEF CommandTypes
  <1>2. ListOK(list, st) /\ TodoOK(todo, st)
    BY DEF Init, ListOK, TodoOK, ToSet, IsInjective
  <1>3. Owned(conn, fds, st, failed)
    BY DEF Init, Owned, LiveIn
  <1>. QED
    BY <1>1, <1>2, <1>3 DEF CommandInv

(* Every step keeps it. *)
LEMMA InvNext ==
    ASSUME CommandInv, [Next]_vars
    PROVE  CommandInv'
  <1>0. CommandTypes /\ TodoOK(todo, st)
    BY DEF CommandInv
  <1>1. CASE UNCHANGED vars
    <2>1. CommandTypes'
      BY <1>0, <1>1 DEF vars, CommandTypes
    <2>. QED
      BY <1>0, <1>1, <2>1, StatesSame DEF vars
  <1>2. CASE connect
    BY <1>2, ConnectStep
  <1>3. CASE TunnelFreed
    <2>1. CommandTypes'
      BY <1>0, <1>3, CommandAssumption DEF TunnelFreed, CommandTypes
    <2>. QED
      BY <1>0, <1>3, <2>1, StatesSame DEF TunnelFreed
  <1>4. ASSUME NEW x \in State, TimeoutPasses(x) PROVE CommandInv'
    BY <1>4, TimeoutStep
  <1>5. CASE SelectFails
    <2>1. CommandTypes'
      BY <1>0, <1>5 DEF SelectFails, CommandTypes
    <2>. QED
      BY <1>0, <1>5, <2>1, StatesSame DEF SelectFails
  <1>6. CASE Select
    BY <1>6, SelectStep
  <1>7. CASE CleanupDone
    <2>1. CommandTypes'
      BY <1>0, <1>7 DEF CleanupDone, CommandTypes
    <2>. QED
      BY <1>0, <1>7, <2>1, StatesSame DEF CleanupDone
  <1>8. CASE EndOfWalk
    BY <1>8, EndOfWalkStep
  <1>9. CASE handle_accept
    BY <1>9, AcceptStep
  <1>10. ASSUME NEW x \in State, handle_readable(x) PROVE CommandInv'
    <2>1. Callback(x) /\ UNCHANGED <<tunnels, exited>>
      BY <1>10 DEF handle_readable
    <2>2. CASE CloseAndFree(x)
      BY <2>1, <2>2, CloseStep
    <2>3. CASE fds[st[x].socket] # NoConn /\ cmd_handler(x)
      <3>1. UNCHANGED <<conn, fds>>
        BY <2>3 DEF cmd_handler
      <3>2. CASE cmd_reply(st[x].socket, free_state(st, x)) /\ UNCHANGED exits /\ ToNext
        BY <2>1, <2>3, <3>1, <3>2, ReplyStep
      <3>3. CASE cmd_exit(x)
        BY <2>1, <2>3, <3>1, <3>3, ExitStep
      <3>. QED
        BY <2>3, <3>2, <3>3 DEF cmd_handler
    <2>4. CASE ToNext /\ UNCHANGED <<conn, fds, st, list, exits, failed>>
      BY <2>1, <2>4, WaitStep
    <2>. QED
      BY <1>10, <2>2, <2>3, <2>4 DEF handle_readable
  <1>11. ASSUME NEW x \in State, handle_writeable(x) PROVE CommandInv'
    <2>1. Callback(x) /\ UNCHANGED <<tunnels, exited>>
      BY <1>11 DEF handle_writeable
    <2>2. CASE CloseAndFree(x)
      BY <2>1, <2>2, CloseStep
    <2>3. CASE ToNext /\ UNCHANGED <<conn, fds, st, list, exits, failed>>
      BY <2>1, <2>3, WaitStep
    <2>. QED
      BY <1>11, <2>2, <2>3 DEF handle_writeable
  <1>. QED
    BY <1>1, <1>2, <1>3, <1>4, <1>5, <1>6, <1>7, <1>8, <1>9, <1>10, <1>11
       DEF Next, Callbacks

(* Every reachable state has the inductive invariant. *)
THEOREM CommandSafety == Spec => []CommandInv
  <1>1. Init => CommandInv
    BY InvInit
  <1>2. CommandInv /\ [Next]_vars => CommandInv'
    BY InvNext
  <1>. QED
    BY <1>1, <1>2, PTL DEF Spec

(* Until an exit command comes, every open connection has one descriptor,  *)
(* the descriptor one state that reads or writes it (none only after a     *)
(* call of ReadBuf or WriteBuf failed), and every state an open descriptor *)
(* of its own connection; the types hold throughout.                       *)
THEOREM DescriptorsOwned == Spec => []OneStatePerDescriptor
  <1>1. ASSUME CommandInv PROVE OneStatePerDescriptor
    <2>1. CommandTypeOK
      BY <1>1 DEF CommandInv, CommandTypes, CommandTypeOK, ListOK, TodoOK, Memory
    <2>2. ASSUME exits = 0
          PROVE  /\ \A x \in InUse : fds[st[x].socket] = st[x].owner
                 /\ \A f \in Fd : fds[f] # NoConn => conn[fds[f]] = "open"
      BY <1>1, <2>2 DEF CommandInv, Owned, InUse, Live, LiveIn
    <2>3. ASSUME exits = 0, NEW f \in Fd, fds[f] # NoConn
          PROVE  \/ Cardinality({x \in InUse : st[x].socket = f}) = 1
                 \/ (failed /\ \A x \in InUse : st[x].socket # f)
      <3>1. Owned(conn, fds, st, failed)
        BY <1>1, <2>3 DEF CommandInv
      <3>2. \A x \in State : x \in InUse <=> LiveIn(st, x)
        BY DEF InUse, Live, LiveIn
      <3>3. InUse \subseteq State
        BY DEF InUse
      <3>4. CASE \E x \in InUse : st[x].socket = f
        <4>1. PICK x \in InUse : st[x].socket = f
          BY <3>4
        <4>2. \A y \in InUse : st[y].socket = f => y = x
          BY <3>1, <3>2, <3>3, <4>1 DEF Owned
        <4>3. {y \in InUse : st[y].socket = f} = {x}
          BY <4>1, <4>2
        <4>. QED
          BY <4>3, FS_Singleton
      <3>5. CASE \A x \in InUse : st[x].socket # f
        <4>1. failed
          BY <2>3, <3>1, <3>2, <3>3, <3>5 DEF Owned
        <4>. QED
          BY <3>5, <4>1
      <3>. QED
        BY <3>4, <3>5
    <2>. QED
      BY <2>1, <2>2, <2>3 DEF OneStatePerDescriptor
  <1>. QED
    BY <1>1, CommandSafety, PTL
=============================================================================

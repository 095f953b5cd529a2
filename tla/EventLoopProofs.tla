--------------------------- MODULE EventLoopProofs ---------------------------
(***************************************************************************)
(* The safety of the event selector, for any number of handlers, file      *)
(* descriptors and nested loops, and whatever the callbacks do.            *)
(*                                                                         *)
(* LoopInv adds to the invariants the run checks: a walk stands on a       *)
(* listed handler; while the loop runs, what is to be deleted or destroyed *)
(* is announced in opsPending; a timer has no descriptor; and a one-shot   *)
(* timer that was called is deleted.                                       *)
(***************************************************************************)
EXTENDS EventLoop, SequenceTheorems, WellFoundedInduction, TLAPS

(* h is deleted, or was looked at by the select of walk w *)
Meets(w, h) == Deleted(h) \/ /\ h \in w.watched
                             /\ Timed(h) => w.now # Uninitialized

(* the handlers behind one in the list *)
Behind(at) == {handlers[j] : j \in {j \in DOMAIN handlers :
                  \E i \in 1..(j - 1) : handlers[i] = at}}

(* the list, the handlers and the flags, without the walks *)
ListOK ==
    /\ handlers \in Seq(Handler) /\ IsInjective(handlers)
    /\ eh \in [Handler -> EventHandlers \cup {Free}]
    /\ Listed = {h \in Handler : eh[h] # Free}
    /\ opsPending \in BOOLEAN /\ destroyPending \in BOOLEAN
    /\ destroyed \in BOOLEAN /\ clock \in Time

(* what is known of one allocated handler *)
HandlerOK(e) ==
    /\ e.fd = NoFd => e.flags \cap IoFlags = {}
    /\ "TIMER" \in e.flags => e.calls <= 1 /\ (e.calls = 1 => "DELETED" \in e.flags)

HandlersOK == \A h \in Listed : HandlerOK(eh[h])

(* a deletion or destruction that waits is announced *)
Announced == (destroyPending \/ \E h \in Listed : Deleted(h)) => opsPending

(* a walk stands on a listed handler, and has only to look at handlers     *)
(* that its own select looked at                                           *)
Stands(w) == w.at \in Listed /\ \A h \in Behind(w.at) : Meets(w, h)

WalksOK(ws, n) == \A k \in 1..n : Stands(ws[k])

LoopInv ==
    /\ ListOK
    /\ stack \in Seq(Walks)
    /\ HandlersOK
    /\ WalksOK(stack, Len(stack))
    /\ NothingLeftPending
    /\ stack # <<>> => ~destroyed /\ Announced

-----------------------------------------------------------------------------
(* Every non-empty set of naturals has a least element. *)
LEMMA LeastNatural ==
    ASSUME NEW T, T \subseteq Nat, T # {}
    PROVE  \E x \in T : \A y \in T : ~(y < x)
  <1>1. IsWellFoundedOn(OpToRel(<, Nat), Nat)
    BY NatLessThanWellFounded
  <1>2. PICK x \in T : \A y \in T : ~(<<y, x>> \in OpToRel(<, Nat))
    BY <1>1, WFMin
  <1>3. \A y \in T : y < x => <<y, x>> \in OpToRel(<, Nat)
    BY DEF OpToRel
  <1>. QED
    BY <1>2, <1>3

(* One more handler at the end of a list. *)
LEMMA AppendFresh ==
    ASSUME NEW w \in Seq(Handler), NEW x \in Handler
    PROVE  /\ Append(w, x) \in Seq(Handler)
           /\ ToSet(Append(w, x)) = ToSet(w) \cup {x}
           /\ IsInjective(w) /\ x \notin ToSet(w) => IsInjective(Append(w, x))
  <1>1. /\ Append(w, x) \in Seq(Handler) /\ Len(Append(w, x)) = Len(w) + 1
        /\ Len(w) \in Nat /\ DOMAIN w = 1..Len(w)
        /\ DOMAIN Append(w, x) = 1..(Len(w) + 1)
        /\ \A i \in 1..Len(w) : Append(w, x)[i] = w[i]
        /\ Append(w, x)[Len(w) + 1] = x
    OBVIOUS
  <1>2. ToSet(Append(w, x)) = ToSet(w) \cup {x}
    <2>1. ToSet(Append(w, x)) \subseteq ToSet(w) \cup {x}
      BY <1>1 DEF ToSet
    <2>2. ASSUME NEW y \in ToSet(w) PROVE y \in ToSet(Append(w, x))
      <3>1. PICK i \in 1..Len(w) : y = w[i]
        BY <1>1, <2>2 DEF ToSet
      <3>2. i \in 1..(Len(w) + 1) /\ Append(w, x)[i] = y
        BY <1>1, <3>1
      <3>. QED
        BY <1>1, <3>2 DEF ToSet
    <2>3. x \in ToSet(Append(w, x))
      <3>1. Len(w) + 1 \in 1..(Len(w) + 1)
        BY <1>1
      <3>. QED
        BY <1>1, <3>1 DEF ToSet
    <2>. QED
      BY <2>1, <2>2, <2>3
  <1>3. ASSUME IsInjective(w), x \notin ToSet(w) PROVE IsInjective(Append(w, x))
    <2>1. \A i \in 1..Len(w) : w[i] # x
      BY <1>1, <1>3 DEF ToSet
    <2>. QED
      BY <1>1, <1>3, <2>1 DEF IsInjective
  <1>. QED
    BY <1>1, <1>2, <1>3

(* DestroyHandlers takes exactly the handlers of gone out of the list. *)
LEMMA WithoutType ==
    ASSUME handlers \in Seq(Handler), IsInjective(handlers), NEW gone
    PROVE  /\ Without(gone) \in Seq(Handler) /\ IsInjective(Without(gone))
           /\ ToSet(Without(gone)) = Listed \ gone
  <1> DEFINE n == Len(handlers)
             W == Seq(Handler)
             Step(i, w) == IF handlers[i] \in gone THEN w ELSE Append(w, handlers[i])
             Run(m, g) == g[0] = <<>> /\ \A i \in 1..m : g[i] = Step(i, g[i - 1])
             Missing == {m \in 0..n : ~\E g \in [0..m -> W] : Run(m, g)}
             Eq(g) == g = [i \in 0..n |-> IF i = 0 THEN <<>>
                                          ELSE IF handlers[i] \in gone THEN g[i - 1]
                                          ELSE Append(g[i - 1], handlers[i])]
             run == CHOOSE g : Eq(g)
  <1>0. n \in Nat /\ DOMAIN handlers = 1..n /\ \A i \in 1..n : handlers[i] \in Handler
    OBVIOUS
  <1>1. <<>> \in W
    OBVIOUS
  <1>2. \A i \in 1..n : \A w \in W : Step(i, w) \in W
    BY <1>0
  <1>3. Without(gone) = run[n]
    BY DEF Without
  <1>4. \A g : Eq(g) <=> g = [i \in 0..n |-> IF i = 0 THEN <<>> ELSE Step(i, g[i - 1])]
    OBVIOUS
  <1> HIDE DEF n, W, Step, Eq
  <1>5. Missing = {}
    <2> SUFFICES ASSUME Missing # {} PROVE FALSE
      OBVIOUS
    <2>1. PICK x \in Missing : \A y \in Missing : ~(y < x)
      <3>1. Missing \subseteq Nat BY <1>0
      <3>. HIDE DEF Missing
      <3>. QED BY <3>1, LeastNatural
    <2>2. x # 0
      <3>1. [i \in 0..0 |-> <<>>] \in [0..0 -> W]
        BY <1>1
      <3>2. Run(0, [i \in 0..0 |-> <<>>])
        OBVIOUS
      <3>3. 0 \notin Missing
        BY <3>1, <3>2
      <3>. QED BY <3>3, <2>1
    <2>3. x \in 1..n /\ x - 1 \in 0..n /\ x - 1 < x
      BY <1>0, <2>1, <2>2
    <2>4. x - 1 \notin Missing
      BY <2>1, <2>3
    <2>5. PICK g \in [0..(x - 1) -> W] : Run(x - 1, g)
      BY <2>3, <2>4
    <2> DEFINE h == [i \in 0..x |-> IF i = x THEN Step(x, g[x - 1]) ELSE g[i]]
    <2>6. h \in [0..x -> W]
      BY <1>0, <1>2, <2>3, <2>5
    <2>7. Run(x, h)
      BY <1>0, <2>3, <2>5
    <2>. QED
      BY <2>1, <2>6, <2>7
  <1>6. PICK g \in [0..n -> W] : Run(n, g)
    BY <1>0, <1>5
  <1>7. Eq(g)
    BY <1>0, <1>4, <1>6
  <1>8. Eq(run)
    BY <1>7
  <1>9. run = [i \in 0..n |-> IF i = 0 THEN <<>> ELSE Step(i, run[i - 1])]
    BY <1>4, <1>8
  <1> HIDE DEF run
  <1> DEFINE Upto(i) == {handlers[j] : j \in 1..i} \ gone
             Good(i) == /\ run[i] \in W /\ IsInjective(run[i])
                        /\ ToSet(run[i]) = Upto(i)
             Bad == {i \in 0..n : ~Good(i)}
  <1>10. Good(0)
    <2>1. run[0] = <<>>
      BY <1>0, <1>9
    <2>2. IsInjective(<<>>) /\ ToSet(<<>>) = {}
      BY DEF IsInjective, ToSet
    <2>3. Upto(0) = {}
      OBVIOUS
    <2>. QED
      BY <1>1, <2>1, <2>2, <2>3
  <1>11. ASSUME NEW x \in 1..n, Good(x - 1) PROVE Good(x)
    <2>1. run[x] = Step(x, run[x - 1]) /\ run[x - 1] \in Seq(Handler)
      BY <1>0, <1>9, <1>11 DEF W
    <2>2. {handlers[j] : j \in 1..x} = {handlers[j] : j \in 1..(x - 1)} \cup {handlers[x]}
      BY <1>0
    <2>3. handlers[x] \in Handler /\ handlers[x] \notin {handlers[j] : j \in 1..(x - 1)}
      BY <1>0 DEF IsInjective
    <2>4. CASE handlers[x] \in gone
      <3>1. run[x] = run[x - 1]
        BY <2>1, <2>4 DEF Step
      <3>2. Upto(x) = Upto(x - 1)
        BY <2>2, <2>4
      <3>. QED
        BY <1>11, <3>1, <3>2
    <2>5. CASE handlers[x] \notin gone
      <3>1. run[x] = Append(run[x - 1], handlers[x])
        BY <2>1, <2>5 DEF Step
      <3>2. Upto(x) = Upto(x - 1) \cup {handlers[x]} /\ handlers[x] \notin Upto(x - 1)
        BY <2>2, <2>3, <2>5
      <3>3. /\ run[x] \in Seq(Handler)
            /\ ToSet(run[x]) = ToSet(run[x - 1]) \cup {handlers[x]}
            /\ IsInjective(run[x])
        BY <1>11, <2>1, <2>3, <3>1, <3>2, AppendFresh
      <3>. QED
        BY <1>11, <3>2, <3>3 DEF W
    <2>. QED
      BY <2>4, <2>5
  <1>12. Bad = {}
    <2> HIDE DEF Good
    <2> SUFFICES ASSUME Bad # {} PROVE FALSE
      OBVIOUS
    <2>1. PICK x \in Bad : \A y \in Bad : ~(y < x)
      <3>1. Bad \subseteq Nat BY <1>0
      <3>. HIDE DEF Bad
      <3>. QED BY <3>1, LeastNatural
    <2>2. x # 0
      BY <1>10, <2>1
    <2>3. x \in 1..n /\ x - 1 \in 0..n /\ x - 1 < x
      BY <1>0, <2>1, <2>2
    <2>4. Good(x - 1)
      BY <2>1, <2>3
    <2>. QED
      BY <1>11, <2>1, <2>3, <2>4
  <1>13. Good(n)
    BY <1>0, <1>12
  <1>14. Upto(n) = Listed \ gone
    BY <1>0 DEF Listed, ToSet, n
  <1>. QED
    BY <1>3, <1>13, <1>14 DEF W

-----------------------------------------------------------------------------
(* The listed handlers are allocated. *)
LEMMA Allocated ==
    ASSUME ListOK, NEW h \in Listed
    PROVE  h \in Handler /\ eh[h] \in EventHandlers /\ eh[h] # Free
  BY DEF ListOK

(* The list without handlers that are freed. *)
LEMMA Destroyed ==
    ASSUME ListOK, HandlersOK, NEW gone, DestroyHandlers(gone),
           opsPending' \in BOOLEAN, UNCHANGED <<destroyPending, clock>>,
           destroyed' \in BOOLEAN
    PROVE  /\ ListOK' /\ HandlersOK'
           /\ Listed' = Listed \ gone
           /\ \A h \in Listed' : eh'[h] = eh[h]
  <1>1. /\ handlers' \in Seq(Handler) /\ IsInjective(handlers')
        /\ Listed' = Listed \ gone
    BY WithoutType DEF ListOK, DestroyHandlers, Listed
  <1>2. eh' = [h \in Handler |-> IF h \in gone THEN Free ELSE eh[h]]
    BY DEF DestroyHandlers
  <1>3. eh' \in [Handler -> EventHandlers \cup {Free}]
    BY <1>2 DEF ListOK
  <1>4. \A h \in Listed' : eh'[h] = eh[h]
    BY <1>1, <1>2, Allocated
  <1>5. Listed' = {h \in Handler : eh'[h] # Free}
    BY <1>1, <1>2 DEF ListOK
  <1>6. ListOK'
    BY <1>1, <1>3, <1>5 DEF ListOK
  <1>7. HandlersOK'
    BY <1>1, <1>4 DEF HandlersOK
  <1>. QED
    BY <1>1, <1>4, <1>6, <1>7

(* Outside the loop there are no walks to care about. *)
LEMMA Outside ==
    ASSUME ListOK', HandlersOK', stack' = <<>>, NothingLeftPending'
    PROVE  LoopInv'
  BY DEF LoopInv, WalksOK

(* Handlers are only marked: what the walks have still to look at stays    *)
(* what their selects looked at.                                           *)
LEMMA Marked ==
    ASSUME handlers' = handlers, NEW ws, NEW n \in Nat, WalksOK(ws, n),
           \A h \in Listed : /\ Deleted(h) => Deleted(h)'
                             /\ Timed(h)' = Timed(h)
    PROVE  WalksOK(ws, n)'
  <1> SUFFICES ASSUME NEW k \in 1..n
               PROVE  /\ ws[k].at \in Listed'
                      /\ \A h \in Behind(ws[k].at)' : Meets(ws[k], h)'
    BY DEF WalksOK, Stands
  <1>1. ws[k].at \in Listed /\ \A h \in Behind(ws[k].at) : Meets(ws[k], h)
    BY DEF WalksOK, Stands
  <1>2. Listed' = Listed /\ Behind(ws[k].at)' = Behind(ws[k].at)
    BY DEF Listed, Behind
  <1>3. \A h \in Behind(ws[k].at) : h \in Listed
    BY DEF Behind, Listed, ToSet
  <1>. QED
    BY <1>1, <1>2, <1>3 DEF Meets

(* What the code does to handlers other than to add and to free them. *)
LEMMA Changed ==
    ASSUME ListOK, HandlersOK, handlers' = handlers, UNCHANGED <<destroyPending, clock>>,
           opsPending' \in BOOLEAN, destroyed' = destroyed, NEW h \in Listed,
           NEW e \in EventHandlers, HandlerOK(e), eh' = [eh EXCEPT ![h] = e],
           "DELETED" \in eh[h].flags => "DELETED" \in e.flags,
           e.flags \cap TimerBits = eh[h].flags \cap TimerBits
    PROVE  /\ ListOK' /\ HandlersOK' /\ Listed' = Listed
           /\ \A x \in Listed : /\ Deleted(x) => Deleted(x)'
                                /\ Timed(x)' = Timed(x)
           /\ \A x \in Listed : Deleted(x)' => Deleted(x) \/ x = h
  <1>1. Listed' = Listed
    BY DEF Listed
  <1>2. \A x \in Handler : eh'[x] = IF x = h THEN e ELSE eh[x]
    BY DEF ListOK
  <1>3. h \in Handler /\ eh[h] # Free /\ e # Free
    BY Allocated, FreeAssumption
  <1>4. Listed \subseteq Handler
    BY Allocated
  <1>5. ListOK'
    <2>1. eh' \in [Handler -> EventHandlers \cup {Free}]
      BY DEF ListOK
    <2>2. Listed' = {x \in Handler : eh'[x] # Free}
      BY <1>1, <1>2, <1>3 DEF ListOK
    <2>. QED
      BY <2>1, <2>2 DEF ListOK
  <1>6. HandlersOK'
    BY <1>1, <1>2, <1>4 DEF HandlersOK
  <1>7. \A x \in Listed : /\ Deleted(x) => Deleted(x)'
                          /\ Timed(x)' = Timed(x)
                          /\ Deleted(x)' => Deleted(x) \/ x = h
    BY <1>2, <1>4 DEF Deleted, Timed
  <1>. QED
    BY <1>1, <1>5, <1>6, <1>7

(* A walk goes on: to its next callback or to its end. *)
LEMMA WalkOK ==
    ASSUME ListOK, HandlersOK, ~destroyed, Announced,
           NEW walks \in Seq(Walks), Len(walks) >= 1, NEW i \in Nat \ {0},
           WalksOK(walks, Len(walks) - 1),
           \A j \in i..Len(handlers) : Meets(Last(walks), handlers[j]),
           Walk(walks, i), UNCHANGED <<destroyPending, clock>>
    PROVE  LoopInv'
  <1> DEFINE L == Len(walks)
             walk == Last(walks)
             called == {j \in i..Len(handlers) : IsCalled(handlers[j], walk)}
             c == CHOOSE j \in called : \A k \in called : j <= k
             first == handlers[c]
  <1>0. L \in Nat /\ L >= 1 /\ walk = walks[L] /\ walk \in Walks
        /\ DOMAIN walks = 1..L
    BY DEF Last
  <1>1. Len(handlers) \in Nat /\ DOMAIN handlers = 1..Len(handlers)
        /\ \A j \in 1..Len(handlers) : handlers[j] \in Handler /\ handlers[j] \in Listed
    BY DEF ListOK, Listed, ToSet
  <1>2. CASE called # {}
    <2>1. /\ stack' = [walks EXCEPT ![L].at = first]
          /\ \/ Fires(first, walk) /\ MarkFired(first)
             \/ ~Fires(first, walk) /\ UNCHANGED <<eh, opsPending>>
          /\ handlers' = handlers /\ destroyed' = destroyed
      BY <1>2 DEF Walk
    <2>2. c \in called /\ c \in i..Len(handlers) /\ IsCalled(handlers[c], walk)
      <3>1. \E x \in called : \A y \in called : ~(y < x)
        <4>1. called \subseteq Nat
          BY <1>1
        <4> HIDE DEF called
        <4>. QED
          BY <1>2, <4>1, LeastNatural
      <3>2. \E x \in called : \A y \in called : x <= y
        BY <1>1, <3>1
      <3>3. c \in called
        <4> HIDE DEF called
        <4>. QED
          BY <3>2
      <3>. QED
        BY <3>3
    <2> HIDE DEF called
    <2>3. PICK f \in Listed, d \in i..Len(handlers) :
             f = first /\ f = handlers[d] /\ IsCalled(f, walk)
      <3>1. /\ c \in i..Len(handlers) /\ IsCalled(handlers[c], walk)
            /\ handlers[c] \in Listed
        BY <1>1, <2>2
      <3> HIDE DEF c, walk
      <3>. QED
        BY <3>1
    <2> HIDE DEF c
    <2>4. f \in Handler /\ ~Deleted(f) /\ eh[f] \in EventHandlers /\ HandlerOK(eh[f])
      BY <2>3, Allocated DEF HandlersOK, IsCalled
    <2>5. /\ ListOK' /\ HandlersOK' /\ Announced'
          /\ \A x \in Listed : /\ Deleted(x) => Deleted(x)'
                               /\ Timed(x)' = Timed(x)
      <3>1. CASE UNCHANGED <<eh, opsPending>>
        BY <2>1, <3>1 DEF ListOK, HandlersOK, Announced, Listed, Deleted, Timed
      <3>2. CASE MarkFired(f)
        <4> DEFINE e == [eh[f] EXCEPT !.flags = @ \cup {"DELETED"}, !.calls = Counted(@)]
        <4>1. eh' = [eh EXCEPT ![f] = e] /\ opsPending' = TRUE
          BY <3>2 DEF MarkFired
        <4>2. eh[f].calls \in 0..2 /\ Counted(eh[f].calls) \in 0..2
          BY <2>4 DEF EventHandlers, Counted
        <4>3. eh[f].flags \cup {"DELETED"} \in SUBSET (IoFlags \cup TimerBits \cup {"DELETED"})
          BY <2>4 DEF EventHandlers
        <4>4. e \in EventHandlers
          BY <2>4, <4>2, <4>3 DEF EventHandlers
        <4>5. /\ e.flags = eh[f].flags \cup {"DELETED"}
              /\ e.calls = Counted(eh[f].calls) /\ e.fd = eh[f].fd
          BY <2>4 DEF EventHandlers
        <4> HIDE DEF e
        <4>6. HandlerOK(e)
          <5>1. "DELETED" \notin IoFlags
            BY EventLoopAssumption
          <5>2. e.fd = NoFd => e.flags \cap IoFlags = {}
            BY <2>4, <4>5, <5>1 DEF HandlerOK
          <5>3. "TIMER" \in e.flags => e.calls <= 1
            BY <2>4, <4>2, <4>5 DEF HandlerOK, Counted, Deleted
          <5>. QED
            BY <4>5, <5>2, <5>3 DEF HandlerOK
        <4>7. e.flags \cap TimerBits = eh[f].flags \cap TimerBits
          BY <4>5 DEF TimerBits
        <4>8. "DELETED" \in e.flags
          BY <4>5
        <4>9. /\ ListOK' /\ HandlersOK'
              /\ \A x \in Listed : /\ Deleted(x) => Deleted(x)'
                                   /\ Timed(x)' = Timed(x)
          BY <2>1, <4>1, <4>4, <4>6, <4>7, <4>8, Changed
        <4>10. Announced'
          BY <4>1 DEF Announced
        <4>. QED
          BY <4>9, <4>10
      <3>. QED
        BY <2>1, <2>3, <3>1, <3>2
    <2>6. PICK w : /\ w = [walks[L] EXCEPT !.at = f]
                   /\ stack' = [walks EXCEPT ![L] = w]
      BY <2>1, <2>3
    <2>7. /\ w \in Walks /\ w.at = f /\ w.watched = walk.watched /\ w.now = walk.now
      BY <1>0, <2>4, <2>6 DEF Walks
    <2>8. /\ stack' \in Seq(Walks) /\ Len(stack') = L
          /\ stack'[L] = w /\ \A k \in 1..(L - 1) : stack'[k] = walks[k]
      BY <1>0, <2>6, <2>7
    <2>9. WalksOK(stack, Len(stack))'
      <3>1. WalksOK(walks, L - 1)'
        BY <1>0, <2>1, <2>5, Marked
      <3>2. Stands(w)'
        <4> SUFFICES ASSUME NEW h \in Behind(w.at)'
                     PROVE  Meets(w, h)'
          BY <2>1, <2>7 DEF Stands, Listed
        <4>0. PICK j \in DOMAIN handlers :
                 h = handlers[j] /\ \E x \in 1..(j - 1) : handlers[x] = f
          BY <2>1, <2>7 DEF Behind
        <4>1. PICK x \in 1..(j - 1) : h = handlers[j] /\ handlers[x] = f
          BY <4>0
        <4>2. x = d
          BY <1>1, <2>3, <4>1 DEF ListOK, IsInjective
        <4>3. j \in i..Len(handlers)
          BY <1>1, <2>3, <4>1, <4>2
        <4>4. Meets(walk, h) /\ h \in Listed
          BY <1>1, <4>1, <4>3
        <4>. QED
          BY <2>5, <2>7, <4>4 DEF Meets
      <3> SUFFICES ASSUME NEW k \in 1..L
                   PROVE  Stands(stack[k])'
        BY <2>8 DEF WalksOK
      <3>3. CASE k = L
        BY <2>8, <3>2, <3>3 DEF Stands
      <3>4. CASE k # L
        <4>1. k \in 1..(L - 1)
          <5> HIDE DEF L, walk
          <5>. QED
            BY <1>0, <3>4
        <4>2. stack'[k] = walks[k]
          BY <2>8, <4>1
        <4>3. Stands(walks[k])'
          BY <3>1, <4>1 DEF WalksOK
        <4>. QED
          BY <4>2, <4>3 DEF Stands
      <3>. QED
        BY <3>3, <3>4
    <2>10. stack' # <<>>
      BY <1>0, <2>8
    <2>. QED
      BY <2>1, <2>5, <2>8, <2>9, <2>10 DEF LoopInv, NothingLeftPending
  <1>3. CASE called = {}
    <2>1. /\ stack' = Front(walks)
          /\ \/ L = 1 /\ opsPending /\ DoPendingChanges
             \/ /\ L > 1 \/ ~opsPending
                /\ UNCHANGED <<handlers, eh, opsPending, destroyed>>
      BY <1>3 DEF Walk
    <2>2. /\ stack' \in Seq(Walks) /\ Len(stack') = L - 1
          /\ \A k \in 1..(L - 1) : stack'[k] = walks[k]
      BY <1>0, <2>1 DEF Front
    <2>3. CASE L = 1 /\ opsPending /\ DoPendingChanges
      <3>1. stack' = <<>>
        BY <2>2, <2>3
      <3>2. PICK gone : /\ DestroyHandlers(gone)
                        /\ \/ destroyPending /\ destroyed' = TRUE /\ gone = Listed
                           \/ /\ ~destroyPending /\ destroyed' = destroyed
                              /\ gone = {h \in Listed : Deleted(h)}
        BY <2>3 DEF DoPendingChanges, DestroySelector
      <3>3. opsPending' = FALSE
        BY <2>3 DEF DoPendingChanges
      <3>4. destroyed' \in BOOLEAN
        BY <3>2 DEF ListOK
      <3>5. /\ ListOK' /\ HandlersOK' /\ Listed' = Listed \ gone
            /\ \A h \in Listed' : eh'[h] = eh[h]
        BY <3>2, <3>3, <3>4, Destroyed
      <3>6. \A h \in Listed' : ~Deleted(h)'
        BY <3>2, <3>5 DEF Deleted
      <3>7. NothingLeftPending'
        BY <3>2, <3>3, <3>6 DEF NothingLeftPending
      <3>. QED
        BY <3>1, <3>5, <3>7, Outside
    <2>4. CASE /\ L > 1 \/ ~opsPending
               /\ UNCHANGED <<handlers, eh, opsPending, destroyed>>
      <3>1. ListOK' /\ HandlersOK' /\ Announced' /\ ~destroyed'
        BY <2>4 DEF ListOK, HandlersOK, Announced, Listed, Deleted
      <3>2. WalksOK(walks, L - 1)'
        BY <1>0, <2>4, Marked DEF Deleted, Timed
      <3>3. WalksOK(stack, Len(stack))'
        BY <2>2, <3>2 DEF WalksOK, Stands
      <3>4. NothingLeftPending'
        <4>1. L = 1 => ~opsPending'
          BY <2>4
        <4>2. stack' = <<>> => L = 1
          <5> HIDE DEF L, walk
          <5>. QED
            BY <1>0, <2>2
        <4>. QED
          BY <3>1, <4>1, <4>2 DEF NothingLeftPending, Announced
      <3>. QED
        BY <2>2, <3>1, <3>3, <3>4 DEF LoopInv
    <2>. QED
      BY <2>1, <2>3, <2>4
  <1>. QED
    BY <1>2, <1>3

-----------------------------------------------------------------------------
(* A handler that is added comes first: no walk in progress will look at   *)
(* it.                                                                     *)
LEMMA Added ==
    ASSUME LoopInv, NEW fd \in Fd \cup {NoFd}, NEW flags \in SUBSET (IoFlags \cup TimerBits),
           NEW tmout \in Time, fd = NoFd => flags \cap IoFlags = {}, Add(fd, flags, tmout)
    PROVE  LoopInv'
  <1> DEFINE e == [fd |-> fd, flags |-> flags, tmout |-> tmout, calls |-> 0]
  <1>1. PICK h \in Handler : /\ eh[h] = Free /\ eh' = [eh EXCEPT ![h] = e]
                             /\ handlers' = <<h>> \o handlers
    BY DEF Add, Linked
  <1>2. /\ ~destroyed /\ UNCHANGED <<opsPending, destroyPending, destroyed, stack, clock>>
    BY DEF Add
  <1>3. ListOK /\ HandlersOK /\ stack \in Seq(Walks) /\ WalksOK(stack, Len(stack))
    BY DEF LoopInv
  <1>4. e \in EventHandlers /\ e # Free /\ "DELETED" \notin e.flags /\ HandlerOK(e)
    <2>1. e \in EventHandlers
      BY DEF EventHandlers
    <2>2. "DELETED" \notin IoFlags \cup TimerBits
      BY EventLoopAssumption DEF TimerBits
    <2>. QED
      BY <2>1, <2>2, FreeAssumption DEF HandlerOK
  <1> HIDE DEF e
  <1>5. /\ Len(handlers) \in Nat /\ Len(handlers') = Len(handlers) + 1
        /\ DOMAIN handlers = 1..Len(handlers) /\ DOMAIN handlers' = 1..(Len(handlers) + 1)
        /\ handlers' \in Seq(Handler) /\ handlers'[1] = h
        /\ \A j \in 1..Len(handlers) : handlers'[j + 1] = handlers[j]
    BY <1>1, <1>3 DEF ListOK
  <1>6. \A j \in 2..(Len(handlers) + 1) : handlers'[j] = handlers[j - 1]
    BY <1>5
  <1>7. h \notin Listed /\ Listed' = Listed \cup {h}
    <2>1. h \notin Listed
      BY <1>1, <1>3, Allocated
    <2>2. Listed' \subseteq Listed \cup {h}
      BY <1>5, <1>6 DEF Listed, ToSet
    <2>3. h \in Listed'
      BY <1>5 DEF Listed, ToSet
    <2>4. ASSUME NEW x \in Listed PROVE x \in Listed'
      <3>1. PICK j \in 1..Len(handlers) : x = handlers[j]
        BY <1>5 DEF Listed, ToSet
      <3>2. j + 1 \in 1..(Len(handlers) + 1) /\ handlers'[j + 1] = x
        BY <1>5, <3>1
      <3>. QED
        BY <1>5, <3>2 DEF Listed, ToSet
    <2>. QED
      BY <2>1, <2>2, <2>3, <2>4
  <1>8. \A x \in Handler : eh'[x] = IF x = h THEN e ELSE eh[x]
    BY <1>1, <1>3 DEF ListOK
  <1>9. ListOK'
    <2>1. \A j \in 1..Len(handlers) : handlers[j] # h
      BY <1>5, <1>7 DEF Listed, ToSet
    <2>2. IsInjective(handlers')
      <3> SUFFICES ASSUME NEW a \in 1..(Len(handlers) + 1), NEW b \in 1..(Len(handlers) + 1),
                          handlers'[a] = handlers'[b]
                   PROVE  a = b
        BY <1>5 DEF IsInjective
      <3>1. CASE a = 1 \/ b = 1
        BY <1>5, <1>6, <2>1, <3>1
      <3>2. CASE a # 1 /\ b # 1
        <4>1. /\ a - 1 \in 1..Len(handlers) /\ b - 1 \in 1..Len(handlers)
              /\ handlers[a - 1] = handlers[b - 1]
          BY <1>5, <1>6, <3>2
        <4>2. a - 1 = b - 1
          BY <1>3, <1>5, <4>1 DEF ListOK, IsInjective
        <4>. QED
          BY <1>5, <4>2
      <3>. QED
        BY <3>1, <3>2
    <2>3. eh' \in [Handler -> EventHandlers \cup {Free}]
      BY <1>1, <1>3, <1>4 DEF ListOK
    <2>4. Listed' = {x \in Handler : eh'[x] # Free}
      BY <1>1, <1>3, <1>4, <1>7, <1>8 DEF ListOK
    <2>. QED
      BY <1>2, <1>3, <1>5, <2>2, <2>3, <2>4 DEF ListOK
  <1>10. Listed \subseteq Handler
    BY <1>3, Allocated
  <1>11. HandlersOK'
    BY <1>3, <1>4, <1>7, <1>8, <1>10 DEF HandlersOK
  <1>12. \A x \in Listed : eh'[x] = eh[x]
    BY <1>7, <1>8, <1>10
  <1>13. \A x \in Listed' : Deleted(x)' => x \in Listed /\ Deleted(x)
    BY <1>4, <1>7, <1>8, <1>12 DEF Deleted
  <1>14. WalksOK(stack, Len(stack))'
    <2> SUFFICES ASSUME NEW k \in 1..Len(stack)
                 PROVE  Stands(stack[k])'
      BY <1>2 DEF WalksOK
    <2>1. stack'[k] = stack[k] /\ Stands(stack[k])
      BY <1>2, <1>3 DEF WalksOK
    <2>2. PICK w : w = stack[k]
      OBVIOUS
    <2>3. w.at \in Listed /\ \A x \in Behind(w.at) : Meets(w, x)
      BY <2>1, <2>2 DEF Stands
    <2>4. \A x \in Behind(w.at)' : x \in Behind(w.at)
      <3> SUFFICES ASSUME NEW x \in Behind(w.at)'
                   PROVE  x \in Behind(w.at)
        OBVIOUS
      <3>1. PICK j \in 1..(Len(handlers) + 1) :
               x = handlers'[j] /\ \E a \in 1..(j - 1) : handlers'[a] = w.at
        BY <1>5 DEF Behind
      <3>2. PICK a \in 1..(j - 1) : handlers'[a] = w.at
        BY <3>1
      <3>3. a # 1
        BY <1>5, <1>7, <2>3, <3>2
      <3>4. /\ j - 1 \in 1..Len(handlers) /\ a - 1 \in 1..((j - 1) - 1)
            /\ handlers[a - 1] = w.at /\ x = handlers[j - 1]
        BY <1>5, <1>6, <3>1, <3>2, <3>3
      <3>. QED
        BY <1>5, <3>4 DEF Behind
    <2>5. \A x \in Behind(w.at) : x \in Listed
      BY DEF Behind, Listed, ToSet
    <2>6. \A x \in Behind(w.at)' : Meets(w, x)'
      BY <1>12, <2>3, <2>4, <2>5 DEF Meets, Deleted, Timed
    <2>. QED
      BY <1>7, <2>1, <2>2, <2>3, <2>6 DEF Stands
  <1>15. NothingLeftPending'
    BY <1>2, <1>13 DEF LoopInv, NothingLeftPending
  <1>16. stack' # <<>> => ~destroyed' /\ Announced'
    BY <1>2, <1>13 DEF LoopInv, Announced
  <1>. QED
    BY <1>2, <1>3, <1>9, <1>11, <1>14, <1>15, <1>16 DEF LoopInv

(* The timeout of a handler is changed. *)
LEMMA TimeoutChanged ==
    ASSUME LoopInv, Event_ChangeTimeout
    PROVE  LoopInv'
  <1>1. /\ ListOK /\ HandlersOK /\ stack \in Seq(Walks) /\ WalksOK(stack, Len(stack))
        /\ UNCHANGED <<handlers, opsPending, destroyPending, destroyed, stack, clock>>
    BY DEF LoopInv, Event_ChangeTimeout
  <1>2. PICK h \in Listed, t \in clock..MaxTime : eh' = [eh EXCEPT ![h].tmout = t]
    BY DEF Event_ChangeTimeout
  <1> DEFINE e == [eh[h] EXCEPT !.tmout = t]
  <1>3. h \in Handler /\ eh[h] \in EventHandlers /\ HandlerOK(eh[h])
    BY <1>1, Allocated DEF HandlersOK
  <1>4. t \in Time
    BY <1>1, EventLoopAssumption DEF ListOK, Time
  <1>5. /\ e \in EventHandlers /\ e.flags = eh[h].flags /\ e.fd = eh[h].fd
        /\ e.calls = eh[h].calls /\ eh' = [eh EXCEPT ![h] = e]
    BY <1>2, <1>3, <1>4 DEF EventHandlers
  <1> HIDE DEF e
  <1>6. HandlerOK(e)
    BY <1>3, <1>5 DEF HandlerOK
  <1>7. opsPending' \in BOOLEAN
    BY <1>1 DEF ListOK
  <1>8. /\ ListOK' /\ HandlersOK' /\ Listed' = Listed
        /\ \A x \in Listed : /\ Deleted(x) => Deleted(x)'
                             /\ Timed(x)' = Timed(x)
    BY <1>1, <1>5, <1>6, <1>7, Changed
  <1>9. \A x \in Listed : Deleted(x)' = Deleted(x)
    BY <1>1, <1>5 DEF Deleted, ListOK
  <1>10. WalksOK(stack, Len(stack))'
    <2>1. PICK ws : ws = stack /\ Len(ws) \in Nat
      BY <1>1
    <2>2. WalksOK(ws, Len(ws))'
      BY <1>1, <1>8, <2>1, Marked
    <2>. QED
      BY <1>1, <2>1, <2>2 DEF WalksOK, Stands
  <1>11. NothingLeftPending' /\ (stack' # <<>> => ~destroyed' /\ Announced')
    BY <1>1, <1>8, <1>9 DEF LoopInv, NothingLeftPending, Announced
  <1>. QED
    BY <1>1, <1>8, <1>10, <1>11 DEF LoopInv

(* A handler is deleted: marked inside the loop, freed outside. *)
LEMMA HandlerDeleted ==
    ASSUME LoopInv, Event_DelHandler
    PROVE  LoopInv'
  <1>1. /\ ListOK /\ HandlersOK /\ stack \in Seq(Walks) /\ WalksOK(stack, Len(stack))
        /\ ~destroyed /\ UNCHANGED <<destroyPending, destroyed, stack, clock>>
    BY DEF LoopInv, Event_DelHandler
  <1>0. (Len(stack) > 0 <=> stack # <<>>) /\ (~(Len(stack) > 0) <=> stack = <<>>)
    BY <1>1
  <1>2. PICK h \in Listed :
           \/ /\ stack # <<>> /\ eh' = [eh EXCEPT ![h].flags = @ \cup {"DELETED"}]
              /\ opsPending' = TRUE /\ handlers' = handlers
           \/ stack = <<>> /\ DestroyHandlers({h}) /\ opsPending' = opsPending
    BY <1>0 DEF Event_DelHandler, MustDefer, nestLevel
  <1>3. CASE /\ stack # <<>> /\ eh' = [eh EXCEPT ![h].flags = @ \cup {"DELETED"}]
             /\ opsPending' = TRUE /\ handlers' = handlers
    <2> DEFINE e == [eh[h] EXCEPT !.flags = @ \cup {"DELETED"}]
    <2>1. h \in Handler /\ eh[h] \in EventHandlers /\ HandlerOK(eh[h])
      BY <1>1, Allocated DEF HandlersOK
    <2>2. eh[h].flags \cup {"DELETED"} \in SUBSET (IoFlags \cup TimerBits \cup {"DELETED"})
      BY <2>1 DEF EventHandlers
    <2>3. /\ e \in EventHandlers /\ e.flags = eh[h].flags \cup {"DELETED"}
          /\ e.fd = eh[h].fd /\ e.calls = eh[h].calls /\ eh' = [eh EXCEPT ![h] = e]
      BY <1>3, <2>1, <2>2 DEF EventHandlers
    <2> HIDE DEF e
    <2>4. HandlerOK(e)
      <3>1. "DELETED" \notin IoFlags
        BY EventLoopAssumption
      <3>2. e.fd = NoFd => e.flags \cap IoFlags = {}
        BY <2>1, <2>3, <3>1 DEF HandlerOK
      <3>3. "TIMER" \in e.flags => e.calls <= 1
        BY <2>1, <2>3 DEF HandlerOK
      <3>. QED
        BY <2>3, <3>2, <3>3 DEF HandlerOK
    <2>5. e.flags \cap TimerBits = eh[h].flags \cap TimerBits /\ "DELETED" \in e.flags
      BY <2>3 DEF TimerBits
    <2>6. /\ ListOK' /\ HandlersOK'
          /\ \A x \in Listed : /\ Deleted(x) => Deleted(x)'
                               /\ Timed(x)' = Timed(x)
      BY <1>1, <1>3, <2>3, <2>4, <2>5, Changed
    <2>7. WalksOK(stack, Len(stack))'
      <3>1. PICK ws : ws = stack /\ Len(ws) \in Nat
        BY <1>1
      <3>2. WalksOK(ws, Len(ws))'
        BY <1>1, <1>3, <2>6, <3>1, Marked
      <3>. QED
        BY <1>1, <3>1, <3>2 DEF WalksOK, Stands
    <2>8. NothingLeftPending' /\ ~destroyed' /\ Announced'
      BY <1>1, <1>3 DEF NothingLeftPending, Announced
    <2>. QED
      BY <1>1, <2>6, <2>7, <2>8 DEF LoopInv
  <1>4. CASE stack = <<>> /\ DestroyHandlers({h}) /\ opsPending' = opsPending
    <2>1. opsPending' \in BOOLEAN /\ destroyed' \in BOOLEAN
      BY <1>1, <1>4 DEF ListOK
    <2>2. /\ ListOK' /\ HandlersOK' /\ Listed' = Listed \ {h}
          /\ \A x \in Listed' : eh'[x] = eh[x]
      BY <1>1, <1>4, <2>1, Destroyed
    <2>3. NothingLeftPending'
      BY <1>1, <1>4, <2>2 DEF LoopInv, NothingLeftPending, Deleted
    <2>. QED
      BY <1>1, <1>4, <2>2, <2>3, Outside
  <1>. QED
    BY <1>2, <1>3, <1>4

(* The selector is destroyed: inside the loop when the loop ends. *)
LEMMA SelectorDestroyed ==
    ASSUME LoopInv, Event_DestroySelector
    PROVE  LoopInv'
  <1>1. /\ ListOK /\ HandlersOK /\ stack \in Seq(Walks) /\ WalksOK(stack, Len(stack))
        /\ ~destroyed /\ UNCHANGED <<stack, clock>>
    BY DEF LoopInv, Event_DestroySelector
  <1>2. CASE /\ stack # <<>> /\ destroyPending' = TRUE /\ opsPending' = TRUE
             /\ UNCHANGED <<handlers, eh, destroyed>>
    <2>1. ListOK' /\ HandlersOK' /\ Announced' /\ ~destroyed'
      BY <1>1, <1>2 DEF ListOK, HandlersOK, Announced, Listed
    <2>2. WalksOK(stack, Len(stack))'
      BY <1>1, <1>2 DEF WalksOK, Stands, Behind, Meets, Listed, Deleted, Timed
    <2>3. NothingLeftPending'
      BY <1>1, <1>2 DEF NothingLeftPending
    <2>. QED
      BY <1>1, <2>1, <2>2, <2>3 DEF LoopInv
  <1>3. CASE /\ stack = <<>> /\ DestroySelector
             /\ UNCHANGED <<destroyPending, opsPending>>
    <2>1. opsPending' \in BOOLEAN /\ destroyed' = TRUE /\ destroyed' \in BOOLEAN
          /\ DestroyHandlers(Listed)
      BY <1>1, <1>3 DEF ListOK, DestroySelector
    <2>2. PICK gone : gone = Listed
      OBVIOUS
    <2>3. ListOK' /\ HandlersOK' /\ Listed' = Listed \ gone
      BY <1>1, <1>3, <2>1, <2>2, Destroyed
    <2>4. NothingLeftPending'
      BY <1>1, <1>3, <2>1, <2>2, <2>3 DEF LoopInv, NothingLeftPending
    <2>. QED
      BY <1>1, <1>3, <2>3, <2>4, Outside
  <1>4. (Len(stack) > 0 <=> stack # <<>>) /\ (Len(stack) = 0 <=> stack = <<>>)
    BY <1>1
  <1>. QED
    BY <1>2, <1>3, <1>4 DEF Event_DestroySelector, nestLevel

(* What select leaves for a new walk. *)
LEMMA EnteringWalk ==
    ASSUME LoopInv, NEW ready \in SUBSET FdSets
    PROVE  [at |-> CHOOSE h \in Handler : TRUE, ready |-> ready,
            now |-> IF foundTimeoutEvent THEN clock ELSE Uninitialized,
            watched |-> Watched] \in Walks
  <1>1. ListOK /\ HandlersOK
    BY DEF LoopInv
  <1>2. FdSets \subseteq Fd \X IoFlags
    <2> SUFFICES ASSUME NEW h \in Watched, NEW flag \in eh[h].flags \cap IoFlags
                 PROVE  eh[h].fd \in Fd
      BY DEF FdSets
    <2>1. h \in Listed /\ eh[h] \in EventHandlers /\ HandlerOK(eh[h])
      BY <1>1, Allocated DEF Watched, HandlersOK
    <2>. QED
      BY <2>1 DEF EventHandlers, HandlerOK
  <1>3. (CHOOSE h \in Handler : TRUE) \in Handler
    BY EventLoopAssumption
  <1>4. Watched \in SUBSET Handler
    BY <1>1, Allocated DEF Watched
  <1>5. (IF foundTimeoutEvent THEN clock ELSE Uninitialized) \in Time \cup {Uninitialized}
    BY <1>1 DEF ListOK
  <1>6. ready \in SUBSET (Fd \X IoFlags)
    BY <1>2
  <1>. QED
    BY <1>3, <1>4, <1>5, <1>6 DEF Walks

(* The loop is entered: select looks at the handlers that are not deleted, *)
(* and reads the clock if one of them has a timeout.                       *)
LEMMA Entering ==
    ASSUME LoopInv, Event_HandleEvent
    PROVE  LoopInv'
  <1>1. /\ ListOK /\ HandlersOK /\ stack \in Seq(Walks) /\ WalksOK(stack, Len(stack))
        /\ ~destroyed /\ UNCHANGED <<destroyPending, clock>>
    BY DEF LoopInv, Event_HandleEvent, CanEnter
  <1>2. PICK ready \in SUBSET FdSets :
           Walk(Append(stack, [at |-> CHOOSE h \in Handler : TRUE, ready |-> ready,
                               now |-> IF foundTimeoutEvent THEN clock ELSE Uninitialized,
                               watched |-> Watched]), 1)
    BY DEF Event_HandleEvent
  <1> DEFINE v == [at |-> CHOOSE h \in Handler : TRUE, ready |-> ready,
                   now |-> IF foundTimeoutEvent THEN clock ELSE Uninitialized,
                   watched |-> Watched]
  <1>4. v \in Walks
    BY EnteringWalk
  <1>5. /\ v.watched = Watched
        /\ v.now = IF foundTimeoutEvent THEN clock ELSE Uninitialized
    OBVIOUS
  <1>6. PICK w \in Walks : w = v
    BY <1>4
  <1>7. PICK walks : walks = Append(stack, w)
    OBVIOUS
  <1>8. /\ w.watched = Watched
        /\ w.now = IF foundTimeoutEvent THEN clock ELSE Uninitialized
    BY <1>5, <1>6
  <1>9. Walk(walks, 1)
    BY <1>2, <1>6, <1>7
  <1> HIDE DEF v
  <1>10. /\ walks \in Seq(Walks) /\ Len(walks) = Len(stack) + 1 /\ Len(stack) \in Nat
         /\ walks[Len(stack) + 1] = w
         /\ \A k \in 1..Len(stack) : walks[k] = stack[k]
    BY <1>1, <1>7
  <1>11. Last(walks) = w
    BY <1>10 DEF Last
  <1>12. Announced
    <2>1. CASE stack = <<>>
      BY <1>1, <2>1 DEF LoopInv, NothingLeftPending, Announced
    <2>2. CASE stack # <<>>
      BY <2>2 DEF LoopInv
    <2>. QED
      BY <2>1, <2>2
  <1>13. WalksOK(walks, Len(walks) - 1)
    BY <1>1, <1>10 DEF WalksOK
  <1>14. \A j \in 1..Len(handlers) : Meets(Last(walks), handlers[j])
    <2> SUFFICES ASSUME NEW j \in 1..Len(handlers), ~Deleted(handlers[j])
                 PROVE  /\ handlers[j] \in w.watched
                        /\ Timed(handlers[j]) => w.now # Uninitialized
      BY <1>11 DEF Meets
    <2>1. handlers[j] \in Listed
      BY <1>1 DEF ListOK, Listed, ToSet
    <2>2. handlers[j] \in Watched
      BY <2>1 DEF Watched
    <2>3. clock # Uninitialized
      BY <1>1, EventLoopAssumption DEF ListOK, Time, Uninitialized
    <2>4. Timed(handlers[j]) => foundTimeoutEvent
      BY <2>2 DEF foundTimeoutEvent
    <2>. QED
      BY <1>8, <2>2, <2>3, <2>4
  <1>. QED
    BY <1>1, <1>9, <1>10, <1>12, <1>13, <1>14, WalkOK

(* A callback returns, and its walk goes on with the next handler. *)
LEMMA Returning ==
    ASSUME LoopInv, Return
    PROVE  LoopInv'
  <1>1. /\ ListOK /\ HandlersOK /\ stack \in Seq(Walks) /\ WalksOK(stack, Len(stack))
        /\ stack # <<>> /\ ~destroyed /\ Announced /\ UNCHANGED <<destroyPending, clock>>
    BY DEF LoopInv, Return
  <1>2. PICK i \in DOMAIN handlers : handlers[i] = Last(stack).at /\ Walk(stack, i + 1)
    BY DEF Return
  <1>3. /\ Len(stack) \in Nat /\ Len(stack) >= 1 /\ Last(stack) = stack[Len(stack)]
    BY <1>1 DEF Last
  <1>4. /\ Len(handlers) \in Nat /\ DOMAIN handlers = 1..Len(handlers)
    BY <1>1 DEF ListOK
  <1>5. Stands(Last(stack))
    BY <1>1, <1>3 DEF WalksOK
  <1>6. \A j \in (i + 1)..Len(handlers) : Meets(Last(stack), handlers[j])
    <2> SUFFICES ASSUME NEW j \in (i + 1)..Len(handlers)
                 PROVE  Meets(Last(stack), handlers[j])
      OBVIOUS
    <2>1. j \in DOMAIN handlers /\ i \in 1..(j - 1)
      BY <1>2, <1>4
    <2>2. handlers[j] \in Behind(Last(stack).at)
      BY <1>2, <2>1 DEF Behind
    <2>. QED
      BY <1>5, <2>2 DEF Stands
  <1>7. WalksOK(stack, Len(stack) - 1)
    BY <1>1, <1>3 DEF WalksOK
  <1>8. i + 1 \in Nat \ {0}
    BY <1>2, <1>4
  <1>. QED
    BY <1>1, <1>2, <1>3, <1>6, <1>7, <1>8, WalkOK

(* A step that leaves the selector alone. *)
LEMMA Idle ==
    ASSUME LoopInv, clock' \in Time,
           UNCHANGED <<handlers, eh, opsPending, destroyPending, destroyed, stack>>
    PROVE  LoopInv'
  <1>1. ListOK' /\ HandlersOK'
    BY DEF LoopInv, ListOK, HandlersOK, Listed
  <1>2. WalksOK(stack, Len(stack))'
    BY DEF LoopInv, WalksOK, Stands, Behind, Meets, Listed, Deleted, Timed
  <1>3. NothingLeftPending' /\ (stack' # <<>> => ~destroyed' /\ Announced')
    BY DEF LoopInv, NothingLeftPending, Announced, Listed, Deleted
  <1>. QED
    BY <1>1, <1>2, <1>3 DEF LoopInv

(* Every step keeps the invariant. *)
LEMMA NextOK == LoopInv /\ [Next]_vars => LoopInv'
  <1> SUFFICES ASSUME LoopInv, [Next]_vars PROVE LoopInv'
    OBVIOUS
  <1>0. clock \in Time /\ 0 \in Time /\ \A t \in clock..MaxTime : t \in Time
    BY EventLoopAssumption DEF LoopInv, ListOK, Time
  <1>1. CASE Event_AddHandler
    <2>1. PICK fd \in Fd, io \in SUBSET IoFlags \ {{}} : Add(fd, io, 0)
      BY <1>1 DEF Event_AddHandler
    <2>2. fd = NoFd => io \cap IoFlags = {}
      BY FdAssumption
    <2>. QED
      BY <1>0, <2>1, <2>2, Added
  <1>2. CASE Event_AddHandlerWithTimeout
    <2>1. PICK fd \in Fd, io \in SUBSET IoFlags \ {{}}, t \in clock..MaxTime :
             Add(fd, io \cup {"TIMEOUT"}, t)
      BY <1>2 DEF Event_AddHandlerWithTimeout
    <2>2. fd # NoFd /\ io \cup {"TIMEOUT"} \in SUBSET (IoFlags \cup TimerBits)
      BY FdAssumption DEF TimerBits
    <2>. QED
      BY <1>0, <2>1, <2>2, Added
  <1>3. CASE Event_AddTimerHandler
    <2>1. PICK t \in clock..MaxTime : Add(NoFd, {"TIMER"}, t)
      BY <1>3 DEF Event_AddTimerHandler
    <2>2. {"TIMER"} \in SUBSET (IoFlags \cup TimerBits) /\ {"TIMER"} \cap IoFlags = {}
      BY EventLoopAssumption DEF TimerBits
    <2>. QED
      BY <1>0, <2>1, <2>2, Added
  <1>4. CASE Event_ChangeTimeout
    BY <1>4, TimeoutChanged
  <1>5. CASE Event_DelHandler
    BY <1>5, HandlerDeleted
  <1>6. CASE Event_DestroySelector
    BY <1>6, SelectorDestroyed
  <1>7. CASE Event_HandleEvent
    BY <1>7, Entering
  <1>8. CASE Return
    BY <1>8, Returning
  <1>9. CASE Tick
    <2>1. clock' \in Time
      BY <1>0, <1>9, EventLoopAssumption DEF Tick, Time
    <2>. QED
      BY <1>9, <2>1, Idle DEF Tick
  <1>10. CASE UNCHANGED vars
    BY <1>0, <1>10, Idle DEF vars
  <1>. QED
    BY <1>1, <1>2, <1>3, <1>4, <1>5, <1>6, <1>7, <1>8, <1>9, <1>10 DEF Next

(* The selector as Event_CreateSelector leaves it. *)
LEMMA InitOK == Event_CreateSelector => LoopInv
  <1> SUFFICES ASSUME Event_CreateSelector PROVE LoopInv
    OBVIOUS
  <1>1. Listed = {}
    BY DEF Event_CreateSelector, Listed, ToSet
  <1>2. IsInjective(handlers) /\ handlers \in Seq(Handler) /\ stack \in Seq(Walks)
    BY DEF Event_CreateSelector, IsInjective
  <1>3. clock \in Time
    BY EventLoopAssumption DEF Event_CreateSelector, Time
  <1>4. eh \in [Handler -> EventHandlers \cup {Free}] /\ \A h \in Handler : eh[h] = Free
    BY DEF Event_CreateSelector
  <1>5. ListOK
    BY <1>1, <1>2, <1>3, <1>4 DEF Event_CreateSelector, ListOK
  <1>6. HandlersOK /\ NothingLeftPending /\ WalksOK(stack, Len(stack))
    BY <1>1 DEF Event_CreateSelector, HandlersOK, NothingLeftPending, WalksOK
  <1>. QED
    BY <1>2, <1>5, <1>6 DEF Event_CreateSelector, LoopInv

-----------------------------------------------------------------------------
(* The inductive invariant of the selector. *)
THEOREM LoopSafety == Spec => []LoopInv
  BY InitOK, NextOK, PTL DEF Spec

(* The list stays a list of allocated handlers without repetition, however *)
(* callbacks add, change and delete handlers.                              *)
THEOREM LoopTypesOK == Spec => []EventTypeOK
  <1>1. LoopInv => EventTypeOK
    BY DEF LoopInv, ListOK, EventTypeOK
  <1>. QED
    BY <1>1, LoopSafety, PTL

(* Neither the selector nor the handler a walk stands on is freed under    *)
(* it, however deep loops are nested: Event_DelHandler and                 *)
(* Event_DestroySelector defer, and only the outermost loop does what they *)
(* deferred.                                                               *)
THEOREM WalksSafe == Spec => []NoWalkOnFreed
  <1>1. LoopInv => NoWalkOnFreed
    <2> SUFFICES ASSUME LoopInv PROVE NoWalkOnFreed
      OBVIOUS
    <2>1. ListOK /\ stack \in Seq(Walks) /\ WalksOK(stack, Len(stack))
      BY DEF LoopInv
    <2>2. \A k \in DOMAIN stack : stack[k].at \in Listed
      BY <2>1 DEF WalksOK, Stands
    <2>3. \A k \in DOMAIN stack : eh[stack[k].at] # Free
      BY <2>1, <2>2, Allocated
    <2>. QED
      BY <2>3 DEF LoopInv, NoWalkOnFreed
  <1>. QED
    BY <1>1, LoopSafety, PTL

(* A one-shot timer is called once, whatever loops its callback runs.      *)
THEOREM TimersOnce == Spec => []TimersFireOnce
  <1>1. LoopInv => TimersFireOnce
    BY DEF LoopInv, HandlersOK, HandlerOK, TimersFireOnce
  <1>. QED
    BY <1>1, LoopSafety, PTL

(* What callbacks delete or destroy is done when the outermost loop ends.  *)
THEOREM NothingForgotten == Spec => []NothingLeftPending
  <1>1. LoopInv => NothingLeftPending
    BY DEF LoopInv
  <1>. QED
    BY <1>1, LoopSafety, PTL

(* Adding a handler from a callback is safe: no walk in progress meets it. *)
THEOREM SelectsOwn == Spec => []MeetsOwnSelect
  <1>1. LoopInv => MeetsOwnSelect
    <2> SUFFICES ASSUME LoopInv, NEW k \in DOMAIN stack, NEW h \in Remaining(k)
                 PROVE  Deleted(h) \/ /\ h \in stack[k].watched
                                      /\ Timed(h) => stack[k].now # Uninitialized
      BY DEF MeetsOwnSelect
    <2>1. h \in Behind(stack[k].at)
      BY DEF Remaining, Behind
    <2>2. Stands(stack[k])
      BY DEF LoopInv, WalksOK
    <2>. QED
      BY <2>1, <2>2 DEF Stands, Meets
  <1>. QED
    BY <1>1, LoopSafety, PTL

(* A walk enters no callback, or that of a handler that is not deleted.    *)
LEMMA WalkEnters ==
    ASSUME ListOK, NEW walks \in Seq(Walks), Len(walks) >= 1, NEW i \in Nat \ {0},
           Walk(walks, i)
    PROVE  \/ /\ stack' # <<>> /\ Len(stack') = Len(walks)
              /\ ~Deleted(stack'[Len(stack')].at)
           \/ stack' = Front(walks)
  <1> DEFINE L == Len(walks)
             called == {j \in i..Len(handlers) : IsCalled(handlers[j], Last(walks))}
             c == CHOOSE j \in called : \A k \in called : j <= k
             first == handlers[c]
  <1>1. CASE called # {}
    <2>1. stack' = [walks EXCEPT ![L].at = first]
      BY <1>1 DEF Walk
    <2>2. Len(handlers) \in Nat
      BY DEF ListOK
    <2>3. \E x \in called : \A y \in called : ~(y < x)
      <3>1. called \subseteq Nat
        BY <2>2
      <3> HIDE DEF called
      <3>. QED
        BY <1>1, <3>1, LeastNatural
    <2>4. \E x \in called : \A y \in called : x <= y
      BY <2>2, <2>3
    <2>5. c \in called
      <3> HIDE DEF called
      <3>. QED
        BY <2>4
    <2>6. ~Deleted(first)
      <3> HIDE DEF c
      <3>. QED
        BY <2>5 DEF IsCalled
    <2> HIDE DEF first
    <2>7. L \in Nat /\ L >= 1 /\ walks[L] \in Walks
      OBVIOUS
    <2>8. stack'[L] = [walks[L] EXCEPT !.at = first] /\ Len(stack') = L
      BY <2>1, <2>7
    <2>9. stack'[L].at = first
      BY <2>7, <2>8 DEF Walks
    <2>10. stack' # <<>>
      <3>1. Len(<<>>) = 0
        OBVIOUS
      <3> HIDE DEF L
      <3>. QED
        BY <2>7, <2>8, <3>1
    <2>. QED
      BY <2>6, <2>8, <2>9, <2>10
  <1>2. CASE called = {}
    BY <1>2 DEF Walk
  <1>. QED
    BY <1>1, <1>2

(* Event_DelHandler means what it says: a handler that is deleted is not   *)
(* called again, by the walk that deleted it, an outer or a nested one.    *)
THEOREM NeverCalledAgain == Spec => DeletedNeverCalled
  <1>1. LoopInv /\ [Next]_vars => [\A h \in Handler : Entered(h) => ~Deleted(h)]_vars
    <2> SUFFICES ASSUME LoopInv, Next, NEW h \in Handler, Entered(h)
                 PROVE  ~Deleted(h)
      BY DEF vars
    <2>0. ListOK /\ stack \in Seq(Walks)
      BY DEF LoopInv
    <2>1. stack' = stack => FALSE
      BY DEF Entered
    <2>2. CASE Event_HandleEvent
      <3>1. PICK w \in Walks : Walk(Append(stack, w), 1)
        <4>1. PICK ready \in SUBSET FdSets :
                 Walk(Append(stack, [at |-> CHOOSE x \in Handler : TRUE, ready |-> ready,
                                     now |-> IF foundTimeoutEvent THEN clock
                                                                  ELSE Uninitialized,
                                     watched |-> Watched]), 1)
          BY <2>2 DEF Event_HandleEvent
        <4> DEFINE v == [at |-> CHOOSE x \in Handler : TRUE, ready |-> ready,
                         now |-> IF foundTimeoutEvent THEN clock ELSE Uninitialized,
                         watched |-> Watched]
        <4>2. v \in Walks
          BY EnteringWalk
        <4>. QED
          BY <4>1, <4>2
      <3>2. PICK walks : walks = Append(stack, w)
        OBVIOUS
      <3>3. /\ walks \in Seq(Walks) /\ Len(walks) >= 1 /\ Front(walks) = stack
            /\ Walk(walks, 1) /\ 1 \in Nat \ {0}
        BY <2>0, <3>1, <3>2 DEF Front
      <3>4. \/ /\ stack' # <<>> /\ ~Deleted(stack'[Len(stack')].at)
            \/ stack' = Front(walks)
        BY <2>0, <3>3, WalkEnters
      <3>. QED
        BY <2>1, <3>3, <3>4 DEF Entered, Last
    <2>3. CASE Return
      <3>1. PICK i \in DOMAIN handlers : Walk(stack, i + 1)
        BY <2>3 DEF Return
      <3>2. i + 1 \in Nat \ {0} /\ Len(stack) >= 1 /\ Len(Front(stack)) < Len(stack)
        BY <2>0, <2>3, <3>1 DEF Return, ListOK, Front
      <3>3. \/ /\ stack' # <<>> /\ ~Deleted(stack'[Len(stack')].at)
            \/ stack' = Front(stack)
        BY <2>0, <3>1, <3>2, WalkEnters
      <3>4. stack' # Front(stack)
        BY <2>0, <3>2 DEF Entered, Front
      <3>. QED
        BY <3>3, <3>4 DEF Entered, Last
    <2>4. CASE \/ Event_AddHandler \/ Event_AddHandlerWithTimeout \/ Event_AddTimerHandler
               \/ Event_ChangeTimeout \/ Event_DelHandler \/ Event_DestroySelector
               \/ Tick
      <3>1. stack' = stack
        BY <2>4 DEF Event_AddHandler, Event_AddHandlerWithTimeout, Event_AddTimerHandler,
                    Add, Event_ChangeTimeout, Event_DelHandler, Event_DestroySelector, Tick
      <3>. QED
        BY <2>1, <3>1
    <2>. QED
      BY <2>2, <2>3, <2>4 DEF Next
  <1>. QED
    BY <1>1, LoopSafety, PTL DEF Spec, DeletedNeverCalled

=============================================================================

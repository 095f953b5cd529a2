---------------------------- MODULE SignalsProofs ----------------------------
(***************************************************************************)
(* What is proved of Signals: the types with their bounds on the stack and *)
(* the pipe, that the event loop always hears of a signal, and that no     *)
(* child is reaped before it is registered, for any set of children, any   *)
(* number of tunnels and SIGTERMs and any limit of sighandler.             *)
(*                                                                         *)
(* The inductive invariant describes the stack: asynchronous handlers of   *)
(* different signals on top, at most one interruptible call below them,    *)
(* and below that only calls of tunnel_cleanup, as many as SIGTERMs and    *)
(* nested exit commands account for.  What the pipe holds and who will     *)
(* look at fired is then read off the frames.  A second invariant, built   *)
(* on it, says where a signal is that has not been dealt with: pending, in *)
(* a handler that has begun, or marked where DoPipe is not about to reset  *)
(* it.                                                                     *)
(***************************************************************************)
EXTENDS Signals, TLAPS

Async == {"mark", "test", "write", "full"}
Scans == {"read", "clear", "scan", "reset", "waitpid", "sighandler"}

(* Handlers of different signals, then one call, then tunnel_cleanup. *)
Ordered(s) ==
    \A i, j \in 1..Len(s) : i < j =>
        /\ s[i].at \notin Async => s[j].at = "cleanup"
        /\ s[i].at \in Async /\ s[j].at \in Async => s[i].arg # s[j].arg

(* The calls of tunnel_cleanup under which more than MaxNested others wait *)
(* took a SIGTERM each, of which there have been n.                        *)
Paid(s, n) == \A i \in 1..Len(s) : s[i].at = "cleanup" => Len(s) - i <= n + MaxNested

Is(s, i, where) == IF i <= Len(s) /\ s[i].at = where THEN 1 ELSE 0
Fulls(s) == Is(s, 1, "full") + Is(s, 2, "full")
Writes(s) == Is(s, 1, "write") + Is(s, 2, "write")

(* What the pipe holds while PipeFull is not set, is the bytes of handlers *)
(* that have yet to set it; DoPipe reads and clears with the flag set, so  *)
(* that no handler can write, and while the flag is set there is a byte or *)
(* DoPipe is about to clear it.                                            *)
PipeMatches(s, p, isfull) ==
    /\ ~isfull => p = Fulls(s)
    /\ p + Writes(s) <= 2
    /\ \A i \in 1..Len(s) :
         /\ s[i].at = "full" => p > 0
         /\ s[i].at \in {"read", "clear"} =>
                isfull /\ \A j \in 1..Len(s) : s[j].at \notin {"write", "full"}
         /\ s[i].at = "clear" => p = 0
    /\ isfull => p > 0 \/ \E i \in 1..Len(s) : s[i].at = "clear"

(* The frame f will write to the pipe or look at fired[sig]. *)
WillSee(f, sig) ==
    \/ f.at \in {"test", "write", "read", "clear"}
    \/ f.at \in {"scan", "reset", "waitpid", "sighandler"} /\ f.arg \in {"SIGTERM", sig}

Heard(s, p, fd) ==
    \A sig \in Signal : fd[sig] => p > 0 \/ \E i \in 1..Len(s) : WillSee(s[i], sig)

Unregistered(ch) == {c \in Child : ch[c] \in {"forked", "unknown zombie"}}

(* A child that is not in the table yet is about to be registered. *)
Registers(s, ch) ==
    \A c \in Child :
        /\ ch[c] # "reaped"
        /\ ch[c] \in {"forked", "unknown zombie"} =>
              \E i \in 1..Len(s) : s[i].at = "register" /\ s[i].arg = c

(* DoPipe begins with SIGTERM, and only SIGTERM is sighandler's. *)
StartsWithTerm(s) ==
    \A i \in 1..Len(s) : s[i].at \in {"read", "clear", "sighandler"} => s[i].arg = "SIGTERM"

ChildState == {"none", "forked", "running", "unknown zombie", "zombie", "handled",
               "reaped"}

SigTypes ==
    /\ stack \in Seq(Frame)
    /\ pending \subseteq Signal /\ missed \subseteq Signal
    /\ fired \in [Signal -> BOOLEAN]
    /\ pipe \in Nat /\ PipeFull \in BOOLEAN /\ installed \in BOOLEAN
    /\ child \in [Child -> ChildState]
    /\ tunnels \in 0 .. Tunnels /\ count \in 0 .. MaxCount
    /\ exited \in BOOLEAN /\ terms \in 0 .. MaxTerm
    /\ ~exited => count < MaxCount

SigInv ==
    /\ SigTypes
    /\ Ordered(stack) /\ Paid(stack, count) /\ StartsWithTerm(stack)
    /\ PipeMatches(stack, pipe, PipeFull)
    /\ count = 0 => Heard(stack, pipe, fired)
    /\ Registers(stack, child)

-----------------------------------------------------------------------------
(* Frames and stacks. *)

(* Every frame is a record of what its call does next and for which signal *)
(* or child.                                                               *)
LEMMA FrameFacts ==
    ASSUME NEW f \in Frame
    PROVE  /\ \A w : [f EXCEPT !.at = w] = [at |-> w, arg |-> f.arg]
           /\ f.at \in Async \cup Scans => f.arg \in Signal
           /\ f.at = "register" => f.arg \in Child
           /\ f.at \in Async \cup Scans \cup {"cleanup", "register"}
    BY DEF Frame, Async, Scans

(* The frames there are. *)
LEMMA FrameIntro ==
    /\ \A w \in Async \cup Scans, a \in Signal : [at |-> w, arg |-> a] \in Frame
    /\ \A a \in {"SIGTERM", "exit"} : [at |-> "cleanup", arg |-> a] \in Frame
    /\ \A c \in Child : [at |-> "register", arg |-> c] \in Frame
    BY DEF Frame, Async, Scans

(* A call puts its frame on the stack. *)
LEMMA Pushed ==
    ASSUME NEW s \in Seq(Frame), NEW f \in Frame, NEW t, t = <<f>> \o s
    PROVE  /\ t \in Seq(Frame) /\ Len(t) = Len(s) + 1 /\ t[1] = f
           /\ \A i \in 1..Len(t) : i > 1 => t[i] = s[i - 1] /\ i - 1 \in 1..Len(s)
           /\ \A i \in 1..Len(s) : t[i + 1] = s[i] /\ i + 1 \in 1..Len(t)
    OBVIOUS

(* A call goes on: its frame changes. *)
LEMMA Replaced ==
    ASSUME NEW s \in Seq(Frame), s # <<>>, NEW f \in Frame, NEW t,
           t = <<f>> \o Tail(s)
    PROVE  /\ t \in Seq(Frame) /\ Len(t) = Len(s) /\ t[1] = f /\ Len(s) >= 1
           /\ \A i \in 1..Len(s) : i > 1 => t[i] = s[i]
    OBVIOUS

(* A call returns. *)
LEMMA Popped ==
    ASSUME NEW s \in Seq(Frame), s # <<>>, NEW t, t = Tail(s)
    PROVE  /\ t \in Seq(Frame) /\ Len(s) = Len(t) + 1
           /\ \A i \in 1..Len(t) : t[i] = s[i + 1] /\ i + 1 \in 1..Len(s)
           /\ \A i \in 1..Len(s) : i > 1 => t[i - 1] = s[i] /\ i - 1 \in 1..Len(t)
    OBVIOUS

(* There are two signals, so the third frame is no handler, and from the   *)
(* fourth on there are only calls of tunnel_cleanup.                       *)
LEMMA TwoHandlers ==
    ASSUME NEW s \in Seq(Frame), Ordered(s)
    PROVE  /\ \A i \in 1..Len(s) : i >= 3 => s[i].at \notin Async
           /\ \A i \in 1..Len(s) : i >= 4 => s[i].at = "cleanup"
    <1>1. ASSUME NEW i \in 1..Len(s), i >= 3, s[1].at \in Async, s[2].at \in Async,
                 s[i].at \in Async
          PROVE  FALSE
      <2>1. 1 \in 1..Len(s) /\ 2 \in 1..Len(s)
        BY <1>1
      <2>2. s[1].arg # s[2].arg /\ s[1].arg # s[i].arg /\ s[2].arg # s[i].arg
        BY <1>1, <2>1 DEF Ordered
      <2>3. s[1] \in Frame /\ s[2] \in Frame /\ s[i] \in Frame
        BY <2>1
      <2>4. s[1].arg \in Signal /\ s[2].arg \in Signal /\ s[i].arg \in Signal
        BY <1>1, <2>3, FrameFacts
      <2>. QED  BY <2>2, <2>4 DEF Signal
    <1>2. ASSUME NEW i \in 1..Len(s), i >= 3 PROVE s[i].at \notin Async
      <2>1. CASE s[1].at \in Async /\ s[2].at \in Async
        BY <1>1, <1>2, <2>1
      <2>2. CASE s[1].at \notin Async \/ s[2].at \notin Async
        <3>1. 1 \in 1..Len(s) /\ 2 \in 1..Len(s) /\ 1 < i /\ 2 < i
          BY <1>2
        <3>2. s[i].at = "cleanup"
          BY <2>2, <3>1 DEF Ordered
        <3>. QED  BY <3>2 DEF Async
      <2>. QED  BY <2>1, <2>2
    <1>3. ASSUME NEW i \in 1..Len(s), i >= 4 PROVE s[i].at = "cleanup"
      <2>1. 3 \in 1..Len(s) /\ 3 < i
        BY <1>3
      <2>2. s[3].at \notin Async
        BY <1>2, <2>1
      <2>. QED  BY <2>1, <2>2 DEF Ordered
    <1>. QED  BY <1>2, <1>3

(* Below a call that is no handler there are only calls of tunnel_cleanup. *)
LEMMA OnlyCleanupBelow ==
    ASSUME NEW s \in Seq(Frame), Ordered(s), s # <<>>, s[1].at \notin Async
    PROVE  \A i \in 1..Len(s) : i > 1 => s[i].at = "cleanup"
    <1>. SUFFICES ASSUME NEW i \in 1..Len(s), i > 1 PROVE s[i].at = "cleanup"
      OBVIOUS
    <1>1. 1 \in 1..Len(s) /\ 1 < i
      OBVIOUS
    <1>. QED  BY <1>1 DEF Ordered

-----------------------------------------------------------------------------
(* What the three changes of the stack preserve. *)

(* The order of the stack when a call goes on as what it was. *)
LEMMA ReplacedOrder ==
    ASSUME NEW s \in Seq(Frame), s # <<>>, NEW f \in Frame, NEW t,
           t = <<f>> \o Tail(s), Ordered(s),
           s[1].at \in Async <=> f.at \in Async,
           f.at \in Async => f.arg = s[1].arg
    PROVE  Ordered(t)
    <1>1. /\ Len(t) = Len(s) /\ t[1] = f /\ Len(s) >= 1
          /\ \A i \in 1..Len(s) : i > 1 => t[i] = s[i]
      BY Replaced
    <1>2. ASSUME NEW i \in 1..Len(t), NEW j \in 1..Len(t), i < j
          PROVE  /\ t[i].at \notin Async => t[j].at = "cleanup"
                 /\ t[i].at \in Async /\ t[j].at \in Async => t[i].arg # t[j].arg
      <2>1. i \in 1..Len(s) /\ j \in 1..Len(s) /\ t[j] = s[j]
        BY <1>1, <1>2
      <2>2. /\ s[i].at \notin Async => s[j].at = "cleanup"
            /\ s[i].at \in Async /\ s[j].at \in Async => s[i].arg # s[j].arg
        BY <1>2, <2>1 DEF Ordered
      <2>3. CASE i = 1
        BY <1>1, <2>1, <2>2, <2>3
      <2>4. CASE i > 1
        BY <1>1, <2>1, <2>2, <2>4
      <2>. QED  BY <2>3, <2>4
    <1>. QED  BY <1>2 DEF Ordered

(* ... and when it returns. *)
LEMMA PoppedOrder ==
    ASSUME NEW s \in Seq(Frame), s # <<>>, NEW t, t = Tail(s), Ordered(s)
    PROVE  Ordered(t)
    <1>1. /\ Len(s) = Len(t) + 1
          /\ \A i \in 1..Len(t) : t[i] = s[i + 1] /\ i + 1 \in 1..Len(s)
      BY Popped
    <1>2. ASSUME NEW i \in 1..Len(t), NEW j \in 1..Len(t), i < j
          PROVE  /\ t[i].at \notin Async => t[j].at = "cleanup"
                 /\ t[i].at \in Async /\ t[j].at \in Async => t[i].arg # t[j].arg
      <2>1. i + 1 \in 1..Len(s) /\ j + 1 \in 1..Len(s) /\ i + 1 < j + 1
        BY <1>1, <1>2
      <2>2. t[i] = s[i + 1] /\ t[j] = s[j + 1]
        BY <1>1
      <2>. QED  BY <2>1, <2>2 DEF Ordered
    <1>. QED  BY <1>2 DEF Ordered

(* A handler interrupts whatever runs, except a handler of its own signal; *)
(* any other call is made from select, above calls of tunnel_cleanup only. *)
LEMMA PushedOrder ==
    ASSUME NEW s \in Seq(Frame), NEW f \in Frame, NEW t, t = <<f>> \o s, Ordered(s),
           \/ /\ f.at \in Async
              /\ \A i \in 1..Len(s) : s[i].at \in Async => s[i].arg # f.arg
           \/ \A i \in 1..Len(s) : s[i].at = "cleanup"
    PROVE  Ordered(t)
    <1>1. /\ Len(t) = Len(s) + 1 /\ t[1] = f
          /\ \A i \in 1..Len(t) : i > 1 => t[i] = s[i - 1] /\ i - 1 \in 1..Len(s)
      BY Pushed
    <1>2. ASSUME NEW i \in 1..Len(t), NEW j \in 1..Len(t), i < j
          PROVE  /\ t[i].at \notin Async => t[j].at = "cleanup"
                 /\ t[i].at \in Async /\ t[j].at \in Async => t[i].arg # t[j].arg
      <2>1. j > 1 /\ t[j] = s[j - 1] /\ j - 1 \in 1..Len(s)
        BY <1>1, <1>2
      <2>2. CASE i = 1
        BY <1>1, <2>1, <2>2 DEF Async
      <2>3. CASE i > 1
        <3>1. t[i] = s[i - 1] /\ i - 1 \in 1..Len(s) /\ i - 1 < j - 1
          BY <1>1, <1>2, <2>3
        <3>. QED  BY <2>1, <3>1 DEF Ordered
      <2>. QED  BY <2>2, <2>3
    <1>. QED  BY <1>2 DEF Ordered

(* The depth of the calls of tunnel_cleanup. *)
LEMMA PushedPaid ==
    ASSUME NEW s \in Seq(Frame), NEW f \in Frame, NEW t, t = <<f>> \o s, NEW n \in Nat,
           Paid(s, n), f.at = "cleanup" => Len(s) <= MaxNested
    PROVE  Paid(t, n)
    <1>1. /\ Len(t) = Len(s) + 1 /\ t[1] = f
          /\ \A i \in 1..Len(t) : i > 1 => t[i] = s[i - 1] /\ i - 1 \in 1..Len(s)
      BY Pushed
    <1>2. ASSUME NEW i \in 1..Len(t), t[i].at = "cleanup" PROVE Len(t) - i <= n + MaxNested
      <2>1. CASE i = 1
        BY <1>1, <1>2, <2>1, SignalsAssumption
      <2>2. CASE i > 1
        <3>1. Len(s) - (i - 1) <= n + MaxNested
          BY <1>1, <1>2, <2>2 DEF Paid
        <3>. QED  BY <1>1, <3>1, SignalsAssumption
      <2>. QED  BY <2>1, <2>2
    <1>. QED  BY <1>2 DEF Paid

(* ... a call that goes on as no new call of tunnel_cleanup, *)
LEMMA ReplacedPaid ==
    ASSUME NEW s \in Seq(Frame), s # <<>>, NEW f \in Frame, NEW t,
           t = <<f>> \o Tail(s), NEW n \in Nat, Paid(s, n), f.at # "cleanup"
    PROVE  Paid(t, n)
    <1>1. /\ Len(t) = Len(s) /\ t[1] = f /\ Len(s) >= 1
          /\ \A i \in 1..Len(s) : i > 1 => t[i] = s[i]
      BY Replaced
    <1>2. ASSUME NEW i \in 1..Len(t), t[i].at = "cleanup" PROVE Len(t) - i <= n + MaxNested
      <2>1. i \in 1..Len(s) /\ t[i] = s[i]
        BY <1>1, <1>2
      <2>. QED  BY <1>1, <1>2, <2>1 DEF Paid
    <1>. QED  BY <1>2 DEF Paid

(* ... one that goes on to tunnel_cleanup and is counted for it, *)
LEMMA CleanupPaid ==
    ASSUME NEW s \in Seq(Frame), s # <<>>, NEW f \in Frame, NEW t,
           t = <<f>> \o Tail(s), NEW n \in Nat, Paid(s, n),
           Ordered(s), s[1].at \notin Async
    PROVE  Paid(t, n + 1)
    <1>1. /\ Len(t) = Len(s) /\ t[1] = f /\ Len(s) >= 1
          /\ \A i \in 1..Len(s) : i > 1 => t[i] = s[i]
      BY Replaced
    <1>2. \A i \in 1..Len(s) : i > 1 => s[i].at = "cleanup"
      BY OnlyCleanupBelow
    <1>3. Len(s) >= 2 => Len(s) - 2 <= n + MaxNested
      BY <1>1, <1>2 DEF Paid
    <1>4. ASSUME NEW i \in 1..Len(t), t[i].at = "cleanup" PROVE Len(t) - i <= (n + 1) + MaxNested
      BY <1>1, <1>3, SignalsAssumption
    <1>. QED  BY <1>4 DEF Paid

(* ... and one that returns. *)
LEMMA PoppedPaid ==
    ASSUME NEW s \in Seq(Frame), s # <<>>, NEW t, t = Tail(s), NEW n \in Nat, Paid(s, n)
    PROVE  Paid(t, n)
    <1>1. /\ Len(s) = Len(t) + 1
          /\ \A i \in 1..Len(t) : t[i] = s[i + 1] /\ i + 1 \in 1..Len(s)
      BY Popped
    <1>2. ASSUME NEW i \in 1..Len(t), t[i].at = "cleanup" PROVE Len(t) - i <= n + MaxNested
      <2>1. Len(s) - (i + 1) <= n + MaxNested
        BY <1>1, <1>2 DEF Paid
      <2>. QED  BY <1>1, <2>1, SignalsAssumption
    <1>. QED  BY <1>2 DEF Paid

(* DoPipe's first signal. *)
LEMMA PushedTerm ==
    ASSUME NEW s \in Seq(Frame), NEW f \in Frame, NEW t, t = <<f>> \o s,
           StartsWithTerm(s), f.at \in {"read", "clear", "sighandler"} => f.arg = "SIGTERM"
    PROVE  StartsWithTerm(t)
    <1>1. /\ Len(t) = Len(s) + 1 /\ t[1] = f
          /\ \A i \in 1..Len(t) : i > 1 => t[i] = s[i - 1] /\ i - 1 \in 1..Len(s)
      BY Pushed
    <1>2. ASSUME NEW i \in 1..Len(t), t[i].at \in {"read", "clear", "sighandler"}
          PROVE  t[i].arg = "SIGTERM"
      <2>1. CASE i = 1
        BY <1>1, <1>2, <2>1
      <2>2. CASE i # 1
        <3>1. i > 1
          BY <1>1, <2>2
        <3>2. t[i] = s[i - 1] /\ i - 1 \in 1..Len(s)
          BY <1>1, <3>1
        <3>. QED  BY <1>2, <3>2 DEF StartsWithTerm
      <2>. QED  BY <2>1, <2>2
    <1>. QED  BY <1>2 DEF StartsWithTerm

(* ... also when a call goes on, *)
LEMMA ReplacedTerm ==
    ASSUME NEW s \in Seq(Frame), s # <<>>, NEW f \in Frame, NEW t,
           t = <<f>> \o Tail(s), StartsWithTerm(s),
           f.at \in {"read", "clear", "sighandler"} => f.arg = "SIGTERM"
    PROVE  StartsWithTerm(t)
    <1>1. /\ Len(t) = Len(s) /\ t[1] = f /\ Len(s) >= 1
          /\ \A i \in 1..Len(s) : i > 1 => t[i] = s[i]
      BY Replaced
    <1>. QED  BY <1>1 DEF StartsWithTerm

(* ... and when it returns. *)
LEMMA PoppedTerm ==
    ASSUME NEW s \in Seq(Frame), s # <<>>, NEW t, t = Tail(s), StartsWithTerm(s)
    PROVE  StartsWithTerm(t)
    <1>1. /\ Len(s) = Len(t) + 1
          /\ \A i \in 1..Len(t) : t[i] = s[i + 1] /\ i + 1 \in 1..Len(s)
      BY Popped
    <1>. QED  BY <1>1 DEF StartsWithTerm

(* A child to be registered stays so under a new call, *)
LEMMA PushedRegisters ==
    ASSUME NEW s \in Seq(Frame), NEW f \in Frame, NEW t, t = <<f>> \o s,
           NEW ch, Registers(s, ch)
    PROVE  Registers(t, ch)
    <1>1. \A i \in 1..Len(s) : t[i + 1] = s[i] /\ i + 1 \in 1..Len(t)
      BY Pushed
    <1>2. ASSUME NEW c \in Child, ch[c] \in {"forked", "unknown zombie"}
          PROVE  \E i \in 1..Len(t) : t[i].at = "register" /\ t[i].arg = c
      <2>1. PICK i \in 1..Len(s) : s[i].at = "register" /\ s[i].arg = c
        BY <1>2, Zenon DEF Registers
      <2>2. i + 1 \in 1..Len(t) /\ t[i + 1].at = "register" /\ t[i + 1].arg = c
        BY <1>1, <2>1
      <2>. QED  BY <2>2, Zenon
    <1>. QED  BY <1>2, Zenon DEF Registers

(* ... when a call that is not to register it goes on, *)
LEMMA ReplacedRegisters ==
    ASSUME NEW s \in Seq(Frame), s # <<>>, NEW f \in Frame, NEW t,
           t = <<f>> \o Tail(s), NEW ch, Registers(s, ch), s[1].at # "register"
    PROVE  Registers(t, ch)
    <1>1. /\ Len(t) = Len(s)
          /\ \A i \in 1..Len(s) : i > 1 => t[i] = s[i]
      BY Replaced
    <1>2. ASSUME NEW c \in Child, ch[c] \in {"forked", "unknown zombie"}
          PROVE  \E i \in 1..Len(t) : t[i].at = "register" /\ t[i].arg = c
      <2>1. PICK i \in 1..Len(s) : s[i].at = "register" /\ s[i].arg = c
        BY <1>2, Zenon DEF Registers
      <2>2. i > 1
        BY <2>1
      <2>3. i \in 1..Len(t) /\ t[i].at = "register" /\ t[i].arg = c
        BY <1>1, <2>1, <2>2
      <2>. QED  BY <2>3, Zenon
    <1>. QED  BY <1>2, Zenon DEF Registers

(* ... and when one returns. *)
LEMMA PoppedRegisters ==
    ASSUME NEW s \in Seq(Frame), s # <<>>, NEW t, t = Tail(s), NEW ch,
           Registers(s, ch),
           s[1].at = "register" => s[1].arg \notin Unregistered(ch)
    PROVE  Registers(t, ch)
    <1>1. \A i \in 1..Len(s) : i > 1 => t[i - 1] = s[i] /\ i - 1 \in 1..Len(t)
      BY Popped
    <1>2. ASSUME NEW c \in Child, ch[c] \in {"forked", "unknown zombie"}
          PROVE  \E i \in 1..Len(t) : t[i].at = "register" /\ t[i].arg = c
      <2>1. PICK i \in 1..Len(s) : s[i].at = "register" /\ s[i].arg = c
        BY <1>2, Zenon DEF Registers
      <2>2. c \in Unregistered(ch)
        BY <1>2, Zenon DEF Unregistered
      <2>3. i > 1
        BY <2>1, <2>2
      <2>4. i - 1 \in 1..Len(t) /\ t[i - 1].at = "register" /\ t[i - 1].arg = c
        BY <1>1, <2>1, <2>3
      <2>. QED  BY <2>4, Zenon
    <1>. QED  BY <1>2, Zenon DEF Registers

-----------------------------------------------------------------------------
(* The pipe and its flag. *)

(* The handlers that are at or past their write are the two at the top. *)
LEMMA ReplacedIs ==
    ASSUME NEW s \in Seq(Frame), s # <<>>, NEW f \in Frame, NEW t,
           t = <<f>> \o Tail(s), NEW w \in Async
    PROVE  /\ Is(t, 1, w) = (IF f.at = w THEN 1 ELSE 0)
           /\ Is(s, 1, w) = (IF s[1].at = w THEN 1 ELSE 0)
           /\ Is(t, 2, w) = Is(s, 2, w)
           /\ Is(s, 2, w) \in {0, 1}
    <1>1. /\ Len(t) = Len(s) /\ t[1] = f /\ Len(s) >= 1 /\ Len(s) \in Nat
          /\ \A i \in 1..Len(s) : i > 1 => t[i] = s[i]
      BY Replaced
    <1>2. 2 <= Len(s) => t[2] = s[2]
      BY <1>1
    <1>. QED  BY <1>1, <1>2 DEF Is

(* ... when the call at the top returns, *)
LEMMA PoppedIs ==
    ASSUME NEW s \in Seq(Frame), s # <<>>, NEW t, t = Tail(s), Ordered(s), NEW w \in Async
    PROVE  /\ Is(s, 1, w) = (IF s[1].at = w THEN 1 ELSE 0)
           /\ Is(t, 1, w) = Is(s, 2, w)
           /\ Is(t, 2, w) = 0
           /\ Is(s, 2, w) \in {0, 1}
    <1>1. /\ Len(s) = Len(t) + 1 /\ Len(t) \in Nat
          /\ \A i \in 1..Len(t) : t[i] = s[i + 1] /\ i + 1 \in 1..Len(s)
      BY Popped
    <1>2. 1 <= Len(t) => t[1] = s[2]
      BY <1>1
    <1>3. 2 <= Len(t) => t[2] = s[3] /\ 3 \in 1..Len(s)
      BY <1>1
    <1>4. 2 <= Len(t) => t[2].at \notin Async
      BY <1>3, TwoHandlers
    <1>. QED  BY <1>1, <1>2, <1>4 DEF Is

(* ... and under a new call. *)
LEMMA PushedIs ==
    ASSUME NEW s \in Seq(Frame), NEW f \in Frame, NEW t, t = <<f>> \o s, Ordered(t),
           NEW w \in Async
    PROVE  /\ Is(t, 1, w) = (IF f.at = w THEN 1 ELSE 0)
           /\ Is(t, 2, w) = Is(s, 1, w)
           /\ Is(s, 2, w) = 0
           /\ Is(s, 1, w) \in {0, 1}
    <1>1. /\ t \in Seq(Frame) /\ Len(t) = Len(s) + 1 /\ t[1] = f /\ Len(s) \in Nat
          /\ \A i \in 1..Len(s) : t[i + 1] = s[i] /\ i + 1 \in 1..Len(t)
      BY Pushed
    <1>2. 1 <= Len(s) => t[2] = s[1]
      BY <1>1
    <1>3. 2 <= Len(s) => t[3] = s[2] /\ 3 \in 1..Len(t)
      BY <1>1
    <1>4. 2 <= Len(s) => s[2].at \notin Async
      <2>1. \A i \in 1..Len(t) : i >= 3 => t[i].at \notin Async
        BY <1>1, TwoHandlers
      <2>. QED  BY <1>3, <2>1
    <1>. QED  BY <1>1, <1>2, <1>4 DEF Is

Neutral == (Async \cup Scans \cup {"cleanup", "register"}) \ {"write", "full", "read", "clear"}

(* Calls that use neither the pipe nor its flag come, *)
LEMMA PipePushed ==
    ASSUME NEW s \in Seq(Frame), NEW f \in Frame, NEW t, t = <<f>> \o s, Ordered(t),
           NEW p \in Nat, NEW b \in BOOLEAN, PipeMatches(s, p, b), f.at \in Neutral
    PROVE  PipeMatches(t, p, b)
    <1>1. /\ Len(t) = Len(s) + 1 /\ t[1] = f
          /\ \A i \in 1..Len(t) : i > 1 => t[i] = s[i - 1] /\ i - 1 \in 1..Len(s)
          /\ \A i \in 1..Len(s) : t[i + 1] = s[i] /\ i + 1 \in 1..Len(t)
      BY Pushed
    <1>2. f.at \notin {"write", "full", "read", "clear"}
      BY DEF Neutral
    <1>3. \A i \in 1..Len(t) : t[i].at \in {"write", "full", "read", "clear"} =>
             t[i] = s[i - 1] /\ i - 1 \in 1..Len(s)
      BY <1>1, <1>2
    <1>4. Fulls(t) = Fulls(s) /\ Writes(t) = Writes(s)
      <2>1. "full" \in Async /\ "write" \in Async
        BY DEF Async
      <2>2. Is(t, 1, "full") = 0 /\ Is(t, 2, "full") = Is(s, 1, "full") /\ Is(s, 2, "full") = 0
            /\ Is(s, 1, "full") \in {0, 1}
        <3>1. /\ Is(t, 1, "full") = (IF f.at = "full" THEN 1 ELSE 0)
              /\ Is(t, 2, "full") = Is(s, 1, "full")
              /\ Is(s, 2, "full") = 0
              /\ Is(s, 1, "full") \in {0, 1}
          BY <2>1, PushedIs, ZenonT(40)
        <3>. QED  BY <1>2, <3>1
      <2>3. Is(t, 1, "write") = 0 /\ Is(t, 2, "write") = Is(s, 1, "write") /\ Is(s, 2, "write") = 0
            /\ Is(s, 1, "write") \in {0, 1}
        <3>1. /\ Is(t, 1, "write") = (IF f.at = "write" THEN 1 ELSE 0)
              /\ Is(t, 2, "write") = Is(s, 1, "write")
              /\ Is(s, 2, "write") = 0
              /\ Is(s, 1, "write") \in {0, 1}
          BY <2>1, PushedIs, ZenonT(40)
        <3>. QED  BY <1>2, <3>1
      <2>. QED  BY <2>2, <2>3 DEF Fulls, Writes
    <1>5. ~b => p = Fulls(t)
      BY <1>4 DEF PipeMatches
    <1>6. p + Writes(t) <= 2
      BY <1>4 DEF PipeMatches
    <1>7. ASSUME NEW i \in 1..Len(t)
          PROVE  /\ t[i].at = "full" => p > 0
                 /\ t[i].at \in {"read", "clear"} =>
                        b /\ \A j \in 1..Len(t) : t[j].at \notin {"write", "full"}
                 /\ t[i].at = "clear" => p = 0
      BY <1>3 DEF PipeMatches
    <1>8. b => p > 0 \/ \E i \in 1..Len(t) : t[i].at = "clear"
      BY <1>1 DEF PipeMatches
    <1>. QED  BY <1>5, <1>6, <1>7, <1>8 DEF PipeMatches

(* ... go on, *)
LEMMA PipeReplaced ==
    ASSUME NEW s \in Seq(Frame), s # <<>>, NEW f \in Frame, NEW t,
           t = <<f>> \o Tail(s), s[1].at \in Neutral, f.at \in Neutral,
           NEW p \in Nat, NEW b \in BOOLEAN, PipeMatches(s, p, b)
    PROVE  PipeMatches(t, p, b)
    <1>1. /\ Len(t) = Len(s) /\ t[1] = f /\ Len(s) >= 1
          /\ \A i \in 1..Len(s) : i > 1 => t[i] = s[i]
      BY Replaced
    <1>2. /\ f.at \notin {"write", "full", "read", "clear"}
          /\ s[1].at \notin {"write", "full", "read", "clear"}
      BY DEF Neutral
    <1>3. /\ \A i \in 1..Len(t) : t[i].at \in {"write", "full", "read", "clear"} =>
             t[i] = s[i] /\ i \in 1..Len(s)
          /\ \A i \in 1..Len(s) : s[i].at = "clear" => t[i] = s[i] /\ i \in 1..Len(t)
      BY <1>1, <1>2
    <1>4. Fulls(t) = Fulls(s) /\ Writes(t) = Writes(s)
      <2>1. Is(t, 1, "full") = Is(s, 1, "full") /\ Is(t, 2, "full") = Is(s, 2, "full")
        <3>1. /\ Is(t, 1, "full") = (IF f.at = "full" THEN 1 ELSE 0)
              /\ Is(s, 1, "full") = (IF s[1].at = "full" THEN 1 ELSE 0)
              /\ Is(t, 2, "full") = Is(s, 2, "full")
          BY ReplacedIs DEF Async
        <3>. QED  BY <1>2, <3>1
      <2>2. Is(t, 1, "write") = Is(s, 1, "write") /\ Is(t, 2, "write") = Is(s, 2, "write")
        <3>1. /\ Is(t, 1, "write") = (IF f.at = "write" THEN 1 ELSE 0)
              /\ Is(s, 1, "write") = (IF s[1].at = "write" THEN 1 ELSE 0)
              /\ Is(t, 2, "write") = Is(s, 2, "write")
          BY ReplacedIs DEF Async
        <3>. QED  BY <1>2, <3>1
      <2>. QED  BY <2>1, <2>2 DEF Fulls, Writes
    <1>5. ~b => p = Fulls(t)
      BY <1>4 DEF PipeMatches
    <1>6. p + Writes(t) <= 2
      BY <1>4 DEF PipeMatches
    <1>7. ASSUME NEW i \in 1..Len(t)
          PROVE  /\ t[i].at = "full" => p > 0
                 /\ t[i].at \in {"read", "clear"} =>
                        b /\ \A j \in 1..Len(t) : t[j].at \notin {"write", "full"}
                 /\ t[i].at = "clear" => p = 0
      BY <1>3 DEF PipeMatches
    <1>8. b => p > 0 \/ \E i \in 1..Len(t) : t[i].at = "clear"
      BY <1>3 DEF PipeMatches
    <1>. QED  BY <1>5, <1>6, <1>7, <1>8 DEF PipeMatches

(* ... and return. *)
LEMMA PipePopped ==
    ASSUME NEW s \in Seq(Frame), s # <<>>, NEW t, t = Tail(s), Ordered(s),
           s[1].at \in Neutral,
           NEW p \in Nat, NEW b \in BOOLEAN, PipeMatches(s, p, b)
    PROVE  PipeMatches(t, p, b)
    <1>1. /\ Len(s) = Len(t) + 1
          /\ \A i \in 1..Len(t) : t[i] = s[i + 1] /\ i + 1 \in 1..Len(s)
          /\ \A i \in 1..Len(s) : i > 1 => t[i - 1] = s[i] /\ i - 1 \in 1..Len(t)
      BY Popped
    <1>2. s[1].at \notin {"write", "full", "read", "clear"}
      BY DEF Neutral
    <1>3. Fulls(t) = Fulls(s) /\ Writes(t) = Writes(s)
      <2>1. "full" \in Async /\ "write" \in Async
        BY DEF Async
      <2>2. Is(s, 1, "full") = 0 /\ Is(t, 1, "full") = Is(s, 2, "full") /\ Is(t, 2, "full") = 0
            /\ Is(s, 2, "full") \in {0, 1}
        BY <1>2, <2>1, PoppedIs, ZenonT(40)
      <2>3. Is(s, 1, "write") = 0 /\ Is(t, 1, "write") = Is(s, 2, "write") /\ Is(t, 2, "write") = 0
            /\ Is(s, 2, "write") \in {0, 1}
        BY <1>2, <2>1, PoppedIs, ZenonT(40)
      <2>. QED  BY <2>2, <2>3 DEF Fulls, Writes
    <1>5. ~b => p = Fulls(t)
      BY <1>3 DEF PipeMatches
    <1>6. p + Writes(t) <= 2
      BY <1>3 DEF PipeMatches
    <1>7. ASSUME NEW i \in 1..Len(t)
          PROVE  /\ t[i].at = "full" => p > 0
                 /\ t[i].at \in {"read", "clear"} =>
                        b /\ \A j \in 1..Len(t) : t[j].at \notin {"write", "full"}
                 /\ t[i].at = "clear" => p = 0
      BY <1>1 DEF PipeMatches
    <1>8. ASSUME b, ~(p > 0) PROVE \E i \in 1..Len(t) : t[i].at = "clear"
      <2>1. PICK i \in 1..Len(s) : s[i].at = "clear"
        BY <1>8 DEF PipeMatches
      <2>2. i > 1
        BY <1>2, <2>1
      <2>. QED  BY <1>1, <2>1, <2>2
    <1>. QED  BY <1>5, <1>6, <1>7, <1>8 DEF PipeMatches

(* A handler that finds the flag clear goes on to write, and nobody reads. *)
LEMMA PipeToWrite ==
    ASSUME NEW s \in Seq(Frame), s # <<>>, NEW f \in Frame, NEW t,
           t = <<f>> \o Tail(s), Ordered(s), NEW p \in Nat, NEW b \in BOOLEAN,
           PipeMatches(s, p, b), ~b, s[1].at = "test", f.at = "write"
    PROVE  PipeMatches(t, p, b)
    <1>1. /\ Len(t) = Len(s) /\ t[1] = f /\ Len(s) >= 1
          /\ \A i \in 1..Len(s) : i > 1 => t[i] = s[i]
      BY Replaced
    <1>2. /\ Fulls(t) = Fulls(s) /\ Writes(t) = Is(s, 2, "write") + 1
          /\ Fulls(s) = Is(s, 2, "full")
          /\ Is(s, 2, "full") \in {0, 1} /\ Is(s, 2, "write") \in {0, 1}
          /\ Is(s, 2, "full") = 0 \/ Is(s, 2, "write") = 0
      <2>1. /\ Is(t, 1, "full") = (IF f.at = "full" THEN 1 ELSE 0)
            /\ Is(s, 1, "full") = (IF s[1].at = "full" THEN 1 ELSE 0)
            /\ Is(t, 2, "full") = Is(s, 2, "full")
            /\ Is(s, 2, "full") \in {0, 1}
        BY ReplacedIs DEF Async
      <2>2. /\ Is(t, 1, "write") = (IF f.at = "write" THEN 1 ELSE 0)
            /\ Is(s, 1, "write") = (IF s[1].at = "write" THEN 1 ELSE 0)
            /\ Is(t, 2, "write") = Is(s, 2, "write")
            /\ Is(s, 2, "write") \in {0, 1}
        BY ReplacedIs DEF Async
      <2>3. Is(s, 2, "full") = 0 \/ Is(s, 2, "write") = 0
        BY DEF Is
      <2>. QED  BY <2>1, <2>2, <2>3 DEF Fulls, Writes
    <1>3. p = Fulls(s)
      BY DEF PipeMatches
    <1>4. \A i \in 1..Len(s) : s[i].at \notin {"read", "clear"}
      BY DEF PipeMatches
    <1>5. ~b => p = Fulls(t)
      BY <1>2, <1>3
    <1>6. p + Writes(t) <= 2
      BY <1>2, <1>3
    <1>7. ASSUME NEW i \in 1..Len(t)
          PROVE  /\ t[i].at = "full" => p > 0
                 /\ t[i].at \in {"read", "clear"} =>
                        b /\ \A j \in 1..Len(t) : t[j].at \notin {"write", "full"}
                 /\ t[i].at = "clear" => p = 0
      BY <1>1, <1>4 DEF PipeMatches
    <1>. QED  BY <1>5, <1>6, <1>7 DEF PipeMatches

(* It writes. *)
LEMMA PipeWritten ==
    ASSUME NEW s \in Seq(Frame), s # <<>>, NEW f \in Frame, NEW t,
           t = <<f>> \o Tail(s), Ordered(s), NEW p \in Nat, NEW b \in BOOLEAN,
           PipeMatches(s, p, b), s[1].at = "write", f.at = "full"
    PROVE  PipeMatches(t, p + 1, b)
    <1>1. /\ Len(t) = Len(s) /\ t[1] = f /\ Len(s) >= 1
          /\ \A i \in 1..Len(s) : i > 1 => t[i] = s[i]
      BY Replaced
    <1>2. /\ Fulls(t) = Is(s, 2, "full") + 1 /\ Fulls(s) = Is(s, 2, "full")
          /\ Writes(t) = Is(s, 2, "write") /\ Writes(s) = Is(s, 2, "write") + 1
          /\ Is(s, 2, "full") \in {0, 1} /\ Is(s, 2, "write") \in {0, 1}
      <2>1. /\ Is(t, 1, "full") = (IF f.at = "full" THEN 1 ELSE 0)
            /\ Is(s, 1, "full") = (IF s[1].at = "full" THEN 1 ELSE 0)
            /\ Is(t, 2, "full") = Is(s, 2, "full")
            /\ Is(s, 2, "full") \in {0, 1}
        BY ReplacedIs DEF Async
      <2>2. /\ Is(t, 1, "write") = (IF f.at = "write" THEN 1 ELSE 0)
            /\ Is(s, 1, "write") = (IF s[1].at = "write" THEN 1 ELSE 0)
            /\ Is(t, 2, "write") = Is(s, 2, "write")
            /\ Is(s, 2, "write") \in {0, 1}
        BY ReplacedIs DEF Async
      <2>. QED  BY <2>1, <2>2 DEF Fulls, Writes
    <1>3. (~b => p = Fulls(s)) /\ p + Writes(s) <= 2
      BY DEF PipeMatches
    <1>4. \A i \in 1..Len(s) : s[i].at \notin {"read", "clear"}
      BY <1>1 DEF PipeMatches
    <1>5. ~b => p + 1 = Fulls(t)
      BY <1>2, <1>3
    <1>6. (p + 1) + Writes(t) <= 2
      BY <1>2, <1>3
    <1>7. ASSUME NEW i \in 1..Len(t)
          PROVE  /\ t[i].at = "full" => p + 1 > 0
                 /\ t[i].at \in {"read", "clear"} =>
                        b /\ \A j \in 1..Len(t) : t[j].at \notin {"write", "full"}
                 /\ t[i].at = "clear" => p + 1 = 0
      BY <1>1, <1>4
    <1>. QED  BY <1>5, <1>6, <1>7 DEF PipeMatches

(* It sets the flag and returns. *)
LEMMA PipeFlagged ==
    ASSUME NEW s \in Seq(Frame), s # <<>>, NEW t, t = Tail(s), Ordered(s),
           s[1].at = "full", NEW p \in Nat, NEW b \in BOOLEAN, PipeMatches(s, p, b)
    PROVE  PipeMatches(t, p, TRUE)
    <1>1. /\ Len(s) = Len(t) + 1 /\ 1 \in 1..Len(s)
          /\ \A i \in 1..Len(t) : t[i] = s[i + 1] /\ i + 1 \in 1..Len(s)
      BY Popped
    <1>2. p > 0 /\ \A i \in 1..Len(s) : s[i].at \notin {"read", "clear"}
      BY <1>1 DEF PipeMatches
    <1>3. Writes(t) <= Writes(s) /\ Writes(t) \in Nat /\ Writes(s) \in Nat
      <2>1. /\ Is(s, 1, "write") = (IF s[1].at = "write" THEN 1 ELSE 0)
            /\ Is(t, 1, "write") = Is(s, 2, "write")
            /\ Is(t, 2, "write") = 0
            /\ Is(s, 2, "write") \in {0, 1}
        BY PoppedIs DEF Async
      <2>. QED  BY <2>1 DEF Writes
    <1>4. p + Writes(t) <= 2
      BY <1>3 DEF PipeMatches
    <1>5. ASSUME NEW i \in 1..Len(t)
          PROVE  /\ t[i].at = "full" => p > 0
                 /\ t[i].at \in {"read", "clear"} =>
                        TRUE /\ \A j \in 1..Len(t) : t[j].at \notin {"write", "full"}
                 /\ t[i].at = "clear" => p = 0
      BY <1>1, <1>2
    <1>. QED  BY <1>2, <1>4, <1>5 DEF PipeMatches

(* No handler is at work in the pipe when there are only calls of          *)
(* tunnel_cleanup.                                                         *)
LEMMA NobodyWrites ==
    ASSUME NEW s \in Seq(Frame), \A i \in 1..Len(s) : s[i].at \notin {"write", "full"}
    PROVE  Fulls(s) = 0 /\ Writes(s) = 0
    <1>1. \A i \in {1, 2} : i <= Len(s) => s[i].at \notin {"write", "full"}
      OBVIOUS
    <1>. QED  BY <1>1 DEF Fulls, Writes, Is

(* DoPipe is called: with a byte in the pipe the flag is set. *)
LEMMA PipeToRead ==
    ASSUME NEW s \in Seq(Frame), NEW f \in Frame, NEW t, t = <<f>> \o s,
           \A i \in 1..Len(s) : s[i].at = "cleanup", f.at = "read",
           NEW p \in Nat, NEW b \in BOOLEAN, PipeMatches(s, p, b), p > 0
    PROVE  PipeMatches(t, p, b)
    <1>1. /\ t \in Seq(Frame) /\ Len(t) = Len(s) + 1 /\ t[1] = f
          /\ \A i \in 1..Len(t) : i > 1 => t[i] = s[i - 1] /\ i - 1 \in 1..Len(s)
      BY Pushed
    <1>2. \A i \in 1..Len(t) : t[i].at \in {"read", "cleanup"}
      BY <1>1
    <1>3. Fulls(s) = 0 /\ Writes(s) = 0 /\ Fulls(t) = 0 /\ Writes(t) = 0
      BY <1>1, <1>2, NobodyWrites
    <1>4. b
      BY <1>3 DEF PipeMatches
    <1>5. p + Writes(t) <= 2
      BY <1>3 DEF PipeMatches
    <1>6. ASSUME NEW i \in 1..Len(t)
          PROVE  /\ t[i].at = "full" => p > 0
                 /\ t[i].at \in {"read", "clear"} =>
                        b /\ \A j \in 1..Len(t) : t[j].at \notin {"write", "full"}
                 /\ t[i].at = "clear" => p = 0
      BY <1>2, <1>4
    <1>. QED  BY <1>4, <1>5, <1>6 DEF PipeMatches

(* It empties the pipe. *)
LEMMA PipeRead ==
    ASSUME NEW s \in Seq(Frame), s # <<>>, NEW f \in Frame, NEW t,
           t = <<f>> \o Tail(s), Ordered(s), NEW p \in Nat, NEW b \in BOOLEAN,
           PipeMatches(s, p, b), s[1].at = "read", f.at = "clear"
    PROVE  PipeMatches(t, 0, b)
    <1>1. /\ Len(t) = Len(s) /\ t[1] = f /\ Len(s) >= 1
          /\ \A i \in 1..Len(s) : i > 1 => t[i] = s[i]
      BY Replaced
    <1>2. t \in Seq(Frame) /\ 1 \in 1..Len(t)
      BY Replaced
    <1>3. b /\ \A i \in 1..Len(s) : s[i].at \notin {"write", "full"}
      BY <1>1 DEF PipeMatches
    <1>4. \A i \in 1..Len(t) : t[i].at \notin {"write", "full"}
      BY <1>1, <1>3
    <1>5. Writes(t) = 0
      BY <1>2, <1>4, NobodyWrites
    <1>6. 0 + Writes(t) <= 2
      BY <1>5
    <1>7. ASSUME NEW i \in 1..Len(t)
          PROVE  /\ t[i].at = "full" => 0 > 0
                 /\ t[i].at \in {"read", "clear"} =>
                        b /\ \A j \in 1..Len(t) : t[j].at \notin {"write", "full"}
                 /\ t[i].at = "clear" => 0 = 0
      BY <1>3, <1>4
    <1>8. \E i \in 1..Len(t) : t[i].at = "clear"
      BY <1>1, <1>2
    <1>. QED  BY <1>3, <1>6, <1>7, <1>8 DEF PipeMatches

(* It clears the flag: the pipe is still empty. *)
LEMMA PipeCleared ==
    ASSUME NEW s \in Seq(Frame), s # <<>>, NEW f \in Frame, NEW t,
           t = <<f>> \o Tail(s), Ordered(s), NEW p \in Nat, NEW b \in BOOLEAN,
           PipeMatches(s, p, b), s[1].at = "clear", f.at = "scan"
    PROVE  PipeMatches(t, p, FALSE)
    <1>1. /\ Len(t) = Len(s) /\ t[1] = f /\ Len(s) >= 1
          /\ \A i \in 1..Len(s) : i > 1 => t[i] = s[i]
      BY Replaced
    <1>2. t \in Seq(Frame) /\ 1 \in 1..Len(s)
      BY Replaced
    <1>3. p = 0
      BY <1>2 DEF PipeMatches
    <1>4. \A i \in 1..Len(s) : i > 1 => s[i].at = "cleanup"
      BY OnlyCleanupBelow DEF Async
    <1>5. \A i \in 1..Len(t) : t[i].at \in {"scan", "cleanup"}
      BY <1>1, <1>4
    <1>6. Fulls(t) = 0 /\ Writes(t) = 0
      BY <1>2, <1>5, NobodyWrites
    <1>7. p = Fulls(t) /\ p + Writes(t) <= 2
      BY <1>3, <1>6
    <1>8. ASSUME NEW i \in 1..Len(t)
          PROVE  /\ t[i].at = "full" => p > 0
                 /\ t[i].at \in {"read", "clear"} =>
                        FALSE /\ \A j \in 1..Len(t) : t[j].at \notin {"write", "full"}
                 /\ t[i].at = "clear" => p = 0
      BY <1>5
    <1>. QED  BY <1>7, <1>8 DEF PipeMatches

-----------------------------------------------------------------------------
(* Who will see that a signal has fired. *)

(* The frames under a new call go on as before. *)
LEMMA PushedHeard ==
    ASSUME NEW s \in Seq(Frame), NEW f \in Frame, NEW t, t = <<f>> \o s,
           NEW p \in Nat, NEW fd \in [Signal -> BOOLEAN], Heard(s, p, fd)
    PROVE  Heard(t, p, fd)
    <1>1. \A i \in 1..Len(s) : t[i + 1] = s[i] /\ i + 1 \in 1..Len(t)
      BY Pushed
    <1>2. ASSUME NEW sig \in Signal, fd[sig], ~(p > 0)
          PROVE  \E i \in 1..Len(t) : WillSee(t[i], sig)
      <2>1. PICK i \in 1..Len(s) : WillSee(s[i], sig)
        BY <1>2 DEF Heard
      <2>. QED  BY <1>1, <2>1
    <1>. QED  BY <1>2 DEF Heard

(* The call that was at g and is at f now will see what fe has fired, or   *)
(* it was not the one to see it.                                           *)
SeesOn(g, f, fd, fe) ==
    \A sig \in Signal : fe[sig] => WillSee(f, sig) \/ (fd[sig] /\ ~WillSee(g, sig))

(* A call that goes on sees what it saw. *)
LEMMA ReplacedHeard ==
    ASSUME NEW s \in Seq(Frame), s # <<>>, NEW f \in Frame, NEW t,
           t = <<f>> \o Tail(s), NEW p \in Nat,
           NEW fd \in [Signal -> BOOLEAN], NEW fe \in [Signal -> BOOLEAN],
           Heard(s, p, fd), SeesOn(s[1], f, fd, fe)
    PROVE  Heard(t, p, fe)
    <1>1. /\ Len(t) = Len(s) /\ t[1] = f /\ 1 \in 1..Len(s)
          /\ \A i \in 1..Len(s) : i > 1 => t[i] = s[i]
      BY Replaced
    <1>2. ASSUME NEW sig \in Signal, fe[sig], ~(p > 0)
          PROVE  \E i \in 1..Len(t) : WillSee(t[i], sig)
      <2>1. CASE WillSee(f, sig)
        BY <1>1, <2>1
      <2>2. CASE fd[sig] /\ ~WillSee(s[1], sig)
        <3>1. PICK i \in 1..Len(s) : WillSee(s[i], sig)
          BY <1>2, <2>2 DEF Heard
        <3>2. i > 1
          BY <2>2, <3>1
        <3>. QED  BY <1>1, <3>1, <3>2
      <2>. QED  BY <1>2, <2>1, <2>2 DEF SeesOn
    <1>. QED  BY <1>2 DEF Heard

SawNothing(g, fd, fe) == \A sig \in Signal : fe[sig] => fd[sig] /\ ~WillSee(g, sig)

(* A call that would not have seen it returns. *)
LEMMA PoppedHeard ==
    ASSUME NEW s \in Seq(Frame), s # <<>>, NEW t, t = Tail(s), NEW p \in Nat,
           NEW fd \in [Signal -> BOOLEAN], NEW fe \in [Signal -> BOOLEAN],
           Heard(s, p, fd), SawNothing(s[1], fd, fe)
    PROVE  Heard(t, p, fe)
    <1>1. \A i \in 1..Len(s) : i > 1 => t[i - 1] = s[i] /\ i - 1 \in 1..Len(t)
      BY Popped
    <1>2. ASSUME NEW sig \in Signal, fe[sig], ~(p > 0)
          PROVE  \E i \in 1..Len(t) : WillSee(t[i], sig)
      <2>1. PICK i \in 1..Len(s) : WillSee(s[i], sig)
        BY <1>2 DEF Heard, SawNothing
      <2>2. i > 1
        BY <1>2, <2>1 DEF SawNothing
      <2>. QED  BY <1>1, <2>1, <2>2
    <1>. QED  BY <1>2 DEF Heard

-----------------------------------------------------------------------------
(* The steps. *)

(* In select only calls of tunnel_cleanup are on the stack, and DoPipe's   *)
(* frame and the handlers' are not.                                        *)
LEMMA SelectFrames ==
    ASSUME SigInv, InSelect
    PROVE  \A i \in 1..Len(stack) : stack[i].at = "cleanup"
    <1>1. CASE stack = <<>>
      BY <1>1
    <1>2. CASE stack # <<>>
      <2>1. stack \in Seq(Frame) /\ Ordered(stack)
        BY DEF SigInv, SigTypes
      <2>2. stack[1].at = "cleanup" /\ stack[1].at \notin Async
        BY <1>2, <2>1 DEF InSelect, At, Top, Async
      <2>3. \A i \in 1..Len(stack) : i > 1 => stack[i].at = "cleanup"
        BY <1>2, <2>1, <2>2, OnlyCleanupBelow
      <2>. QED  BY <2>1, <2>2, <2>3
    <1>. QED  BY <1>1, <1>2

(* The call at the top is in its frame, with its signal or child. *)
LEMMA AtFacts ==
    ASSUME SigTypes, NEW w, At(w)
    PROVE  /\ stack \in Seq(Frame) /\ stack # <<>> /\ 1 \in 1..Len(stack)
           /\ stack[1] \in Frame /\ stack[1].at = w /\ Top = stack[1]
           /\ \A v : Goto(v) = <<[at |-> v, arg |-> stack[1].arg]>> \o Tail(stack)
    <1>1. stack \in Seq(Frame) /\ stack # <<>> /\ Top = stack[1]
      BY DEF SigTypes, At, Top
    <1>2. stack[1] \in Frame /\ stack[1].at = w /\ 1 \in 1..Len(stack)
      BY <1>1 DEF At
    <1>3. \A v : [stack[1] EXCEPT !.at = v] = [at |-> v, arg |-> stack[1].arg]
      BY <1>2, FrameFacts
    <1>. QED  BY <1>1, <1>2, <1>3 DEF Goto

(* The parts of the invariant that the stack's shape decides, when a call  *)
(* goes on,                                                                *)
LEMMA GoesOn ==
    ASSUME SigInv, stack # <<>>, NEW f \in Frame, stack' = <<f>> \o Tail(stack),
           stack[1].at \in Async <=> f.at \in Async,
           f.at \in Async => f.arg = stack[1].arg, f.at # "cleanup",
           f.at \in {"read", "clear", "sighandler"} => f.arg = "SIGTERM",
           stack[1].at # "register", count' = count, child' = child
    PROVE  /\ stack' \in Seq(Frame) /\ Ordered(stack') /\ Paid(stack', count')
           /\ StartsWithTerm(stack') /\ Registers(stack', child')
    <1>1. /\ stack \in Seq(Frame) /\ Ordered(stack) /\ Paid(stack, count) /\ count \in Nat
          /\ StartsWithTerm(stack) /\ Registers(stack, child)
      BY SignalsAssumption DEF SigInv, SigTypes
    <1>2. stack' \in Seq(Frame)
      BY <1>1, Replaced
    <1>3. Ordered(stack')
      BY <1>1, ReplacedOrder
    <1>4. Paid(stack', count)
      BY <1>1, ReplacedPaid
    <1>5. StartsWithTerm(stack')
      BY <1>1, ReplacedTerm
    <1>6. Registers(stack', child)
      BY <1>1, ReplacedRegisters
    <1>. QED  BY <1>2, <1>3, <1>4, <1>5, <1>6

(* ... returns, *)
LEMMA Returns ==
    ASSUME SigInv, stack # <<>>, stack' = Tail(stack),
           stack[1].at # "register", count' = count, child' = child
    PROVE  /\ stack' \in Seq(Frame) /\ Ordered(stack') /\ Paid(stack', count')
           /\ StartsWithTerm(stack') /\ Registers(stack', child')
    <1>1. /\ stack \in Seq(Frame) /\ Ordered(stack) /\ Paid(stack, count) /\ count \in Nat
          /\ StartsWithTerm(stack) /\ Registers(stack, child)
      BY SignalsAssumption DEF SigInv, SigTypes
    <1>2. stack' \in Seq(Frame)
      BY <1>1, Popped
    <1>3. Ordered(stack')
      BY <1>1, PoppedOrder
    <1>4. Paid(stack', count)
      BY <1>1, PoppedPaid
    <1>5. StartsWithTerm(stack')
      BY <1>1, PoppedTerm
    <1>6. Registers(stack', child)
      BY <1>1, PoppedRegisters
    <1>. QED  BY <1>2, <1>3, <1>4, <1>5, <1>6

(* ... and when one is made. *)
LEMMA IsCalled ==
    ASSUME SigInv, NEW f \in Frame, stack' = <<f>> \o stack,
           \/ /\ f.at \in Async
              /\ \A i \in 1..Len(stack) : stack[i].at \in Async => stack[i].arg # f.arg
           \/ \A i \in 1..Len(stack) : stack[i].at = "cleanup",
           f.at = "cleanup" => Len(stack) <= MaxNested,
           f.at \in {"read", "clear", "sighandler"} => f.arg = "SIGTERM",
           count' = count
    PROVE  /\ stack' \in Seq(Frame) /\ Ordered(stack') /\ Paid(stack', count')
           /\ StartsWithTerm(stack') /\ Registers(stack', child)
    <1>1. /\ stack \in Seq(Frame) /\ Ordered(stack) /\ Paid(stack, count) /\ count \in Nat
          /\ StartsWithTerm(stack) /\ Registers(stack, child)
      BY SignalsAssumption DEF SigInv, SigTypes
    <1>2. stack' \in Seq(Frame)
      BY <1>1, Pushed
    <1>3. Ordered(stack')
      BY <1>1, PushedOrder
    <1>4. Paid(stack', count)
      BY <1>1, PushedPaid
    <1>5. StartsWithTerm(stack')
      BY <1>1, PushedTerm
    <1>6. Registers(stack', child)
      BY <1>1, PushedRegisters
    <1>. QED  BY <1>2, <1>3, <1>4, <1>5, <1>6

(* The invariant from its parts. *)
LEMMA FromParts ==
    ASSUME SigTypes',
           Ordered(stack') /\ Paid(stack', count') /\ StartsWithTerm(stack'),
           PipeMatches(stack', pipe', PipeFull'),
           count' = 0 => Heard(stack', pipe', fired'),
           Registers(stack', child')
    PROVE  SigInv'
    BY DEF SigInv

(* sig_handler marks its signal; after that it goes on to the pipe. *)
LEMMA MarkStep ==
    ASSUME SigInv, At("mark"), stack' = Goto("test"),
           fired' = [fired EXCEPT ![Top.arg] = TRUE],
           missed' \subseteq Signal, count' = count, child' = child,
           pipe' = pipe, PipeFull' = PipeFull,
           UNCHANGED <<pending, installed, tunnels, exited, terms>>
    PROVE  SigInv'
    <1>0. /\ stack \in Seq(Frame) /\ Ordered(stack) /\ PipeMatches(stack, pipe, PipeFull)
          /\ pipe \in Nat /\ PipeFull \in BOOLEAN /\ fired \in [Signal -> BOOLEAN]
          /\ SigTypes
      BY DEF SigInv, SigTypes
    <1>1. /\ stack # <<>> /\ stack[1] \in Frame /\ stack[1].at = "mark" /\ Top = stack[1]
          /\ Goto("test") = <<[at |-> "test", arg |-> stack[1].arg]>> \o Tail(stack)
      BY <1>0, AtFacts
    <1>2. PICK a : a = stack[1].arg
      OBVIOUS
    <1>3. PICK f : f = [at |-> "test", arg |-> a]
      OBVIOUS
    <1>4. a \in Signal /\ f \in Frame /\ f.at = "test" /\ f.arg = a
      BY <1>1, <1>2, <1>3, FrameFacts, FrameIntro DEF Async, Scans
    <1>5. stack' = <<f>> \o Tail(stack) /\ fired' = [fired EXCEPT ![a] = TRUE]
      BY <1>1, <1>2, <1>3
    <1>6. /\ stack' \in Seq(Frame) /\ Ordered(stack') /\ Paid(stack', count')
          /\ StartsWithTerm(stack') /\ Registers(stack', child')
      BY <1>1, <1>2, <1>4, <1>5, GoesOn DEF Async
    <1>7. fired' \in [Signal -> BOOLEAN]
      BY <1>0, <1>4, <1>5
    <1>8. SigTypes'
      BY <1>6, <1>7 DEF SigInv, SigTypes
    <1>9. PipeMatches(stack', pipe', PipeFull')
      <2>1. f.at \in Neutral /\ stack[1].at \in Neutral
        BY <1>1, <1>4 DEF Neutral, Async
      <2>. QED  BY <1>0, <1>1, <1>4, <1>5, <2>1, PipeReplaced
    <1>10. count' = 0 => Heard(stack', pipe', fired')
      <2>. SUFFICES ASSUME count = 0 PROVE Heard(stack', pipe, fired')
        OBVIOUS
      <2>1. Heard(stack, pipe, fired)
        BY DEF SigInv
      <2>2. SeesOn(stack[1], f, fired, fired')
        BY <1>4 DEF SeesOn, WillSee
      <2>. QED  BY <1>0, <1>1, <1>4, <1>5, <1>7, <2>1, <2>2, ReplacedHeard
    <1>. QED  BY <1>6, <1>8, <1>9, <1>10, FromParts

(* It finds the flag clear. *)
LEMMA ToWriteStep ==
    ASSUME SigInv, At("test"), stack' = Goto("write"), ~PipeFull,
           UNCHANGED <<pipe, PipeFull>>,
           UNCHANGED <<pending, fired, installed, child, tunnels, count, exited, terms,
                       missed>>
    PROVE  SigInv'
    <1>0. /\ stack \in Seq(Frame) /\ Ordered(stack) /\ PipeMatches(stack, pipe, PipeFull)
          /\ pipe \in Nat /\ PipeFull \in BOOLEAN /\ fired \in [Signal -> BOOLEAN]
          /\ SigTypes
      BY DEF SigInv, SigTypes
    <1>1. /\ stack # <<>> /\ stack[1] \in Frame /\ stack[1].at = "test" /\ Top = stack[1]
          /\ 1 \in 1..Len(stack)
          /\ Goto("write") = <<[at |-> "write", arg |-> stack[1].arg]>> \o Tail(stack)
      BY <1>0, AtFacts
    <1>2. PICK a : a = stack[1].arg
      OBVIOUS
    <1>3. PICK f : f = [at |-> "write", arg |-> a]
      OBVIOUS
    <1>4. a \in Signal /\ f \in Frame /\ f.at = "write" /\ f.arg = a
      BY <1>1, <1>2, <1>3, FrameFacts, FrameIntro DEF Async, Scans, Signal
    <1>5. stack' = <<f>> \o Tail(stack)
      BY <1>1, <1>2, <1>3
    <1>6. /\ stack' \in Seq(Frame) /\ Ordered(stack') /\ Paid(stack', count')
          /\ StartsWithTerm(stack') /\ Registers(stack', child')
      BY <1>1, <1>2, <1>4, <1>5, GoesOn DEF Async
    <1>7. fired' \in [Signal -> BOOLEAN] /\ pipe' \in Nat /\ PipeFull' \in BOOLEAN
      BY <1>0, <1>1, <1>2, <1>4
    <1>8. SigTypes'
      BY <1>6, <1>7 DEF SigInv, SigTypes
    <1>9. PipeMatches(stack', pipe', PipeFull')
      BY <1>0, <1>1, <1>4, <1>5, PipeToWrite
    <1>10. count' = 0 => Heard(stack', pipe', fired')
      <2>. SUFFICES ASSUME count = 0 PROVE Heard(stack', pipe', fired')
        OBVIOUS
      <2>1. Heard(stack, pipe, fired)
        BY DEF SigInv
      <2>2. SeesOn(stack[1], f, fired, fired')
        BY <1>4 DEF SeesOn, WillSee, Signal
      <2>. QED  BY <1>0, <1>1, <1>4, <1>5, <1>7, <2>1, <2>2, ReplacedHeard
    <1>. QED  BY <1>6, <1>8, <1>9, <1>10, FromParts

(* It writes to the pipe. *)
LEMMA WriteStep ==
    ASSUME SigInv, At("write"), stack' = Goto("full"), pipe' = pipe + 1, PipeFull' = PipeFull,
           UNCHANGED <<pending, fired, installed, child, tunnels, count, exited, terms, missed>>
    PROVE  SigInv'
    <1>0. /\ stack \in Seq(Frame) /\ Ordered(stack) /\ PipeMatches(stack, pipe, PipeFull)
          /\ pipe \in Nat /\ PipeFull \in BOOLEAN /\ fired \in [Signal -> BOOLEAN]
          /\ SigTypes
      BY DEF SigInv, SigTypes
    <1>1. /\ stack # <<>> /\ stack[1] \in Frame /\ stack[1].at = "write" /\ Top = stack[1]
          /\ 1 \in 1..Len(stack)
          /\ Goto("full") = <<[at |-> "full", arg |-> stack[1].arg]>> \o Tail(stack)
      BY <1>0, AtFacts
    <1>2. PICK a : a = stack[1].arg
      OBVIOUS
    <1>3. PICK f : f = [at |-> "full", arg |-> a]
      OBVIOUS
    <1>4. a \in Signal /\ f \in Frame /\ f.at = "full" /\ f.arg = a
      BY <1>1, <1>2, <1>3, FrameFacts, FrameIntro DEF Async, Scans, Signal
    <1>5. stack' = <<f>> \o Tail(stack)
      BY <1>1, <1>2, <1>3
    <1>6. /\ stack' \in Seq(Frame) /\ Ordered(stack') /\ Paid(stack', count')
          /\ StartsWithTerm(stack') /\ Registers(stack', child')
      BY <1>1, <1>2, <1>4, <1>5, GoesOn DEF Async
    <1>7. fired' \in [Signal -> BOOLEAN] /\ pipe' \in Nat /\ PipeFull' \in BOOLEAN
      BY <1>0, <1>1, <1>2, <1>4
    <1>8. SigTypes'
      BY <1>6, <1>7 DEF SigInv, SigTypes
    <1>9. PipeMatches(stack', pipe', PipeFull')
      BY <1>0, <1>1, <1>4, <1>5, PipeWritten
    <1>10. count' = 0 => Heard(stack', pipe', fired')
      <2>. SUFFICES ASSUME count = 0 PROVE Heard(stack', pipe', fired')
        OBVIOUS
      <2>1. Heard(stack, pipe, fired)
        BY DEF SigInv
      <2>2. pipe' > 0
        BY <1>0
      <2>. QED  BY <2>2 DEF Heard
    <1>. QED  BY <1>6, <1>8, <1>9, <1>10, FromParts

(* DoPipe empties the pipe, and will look at every signal. *)
LEMMA ReadStep ==
    ASSUME SigInv, At("read"), stack' = Goto("clear"), pipe' = 0, PipeFull' = PipeFull,
           UNCHANGED <<pending, fired, installed, child, tunnels, count, exited, terms, missed>>
    PROVE  SigInv'
    <1>0. /\ stack \in Seq(Frame) /\ Ordered(stack) /\ PipeMatches(stack, pipe, PipeFull)
          /\ pipe \in Nat /\ PipeFull \in BOOLEAN /\ fired \in [Signal -> BOOLEAN]
          /\ SigTypes
      BY DEF SigInv, SigTypes
    <1>1. /\ stack # <<>> /\ stack[1] \in Frame /\ stack[1].at = "read" /\ Top = stack[1]
          /\ 1 \in 1..Len(stack)
          /\ Goto("clear") = <<[at |-> "clear", arg |-> stack[1].arg]>> \o Tail(stack)
      BY <1>0, AtFacts
    <1>2. PICK a : a = stack[1].arg
      OBVIOUS
    <1>3. PICK f : f = [at |-> "clear", arg |-> a]
      OBVIOUS
    <1>4. a \in Signal /\ f \in Frame /\ f.at = "clear" /\ f.arg = a
      BY <1>1, <1>2, <1>3, FrameFacts, FrameIntro DEF Async, Scans, Signal
    <1>41. a = "SIGTERM"
      BY <1>1, <1>2 DEF SigInv, StartsWithTerm
    <1>5. stack' = <<f>> \o Tail(stack)
      BY <1>1, <1>2, <1>3
    <1>6. /\ stack' \in Seq(Frame) /\ Ordered(stack') /\ Paid(stack', count')
          /\ StartsWithTerm(stack') /\ Registers(stack', child')
      BY <1>1, <1>2, <1>4, <1>41, <1>5, GoesOn DEF Async
    <1>7. fired' \in [Signal -> BOOLEAN] /\ pipe' \in Nat /\ PipeFull' \in BOOLEAN
      BY <1>0, <1>1, <1>2, <1>4
    <1>8. SigTypes'
      BY <1>6, <1>7 DEF SigInv, SigTypes
    <1>9. PipeMatches(stack', pipe', PipeFull')
      BY <1>0, <1>1, <1>4, <1>5, PipeRead
    <1>10. count' = 0 => Heard(stack', pipe', fired')
      <2>. SUFFICES ASSUME count = 0 PROVE Heard(stack', pipe', fired')
        OBVIOUS
      <2>1. Heard(stack, pipe, fired)
        BY DEF SigInv
      <2>2. 1 \in 1..Len(stack') /\ stack'[1] = f
        BY <1>0, <1>1, <1>4, <1>5, Replaced
      <2>3. \A sig \in Signal : WillSee(f, sig)
        BY <1>4 DEF WillSee
      <2>. QED  BY <2>2, <2>3 DEF Heard
    <1>. QED  BY <1>6, <1>8, <1>9, <1>10, FromParts

(* It clears the flag and begins with SIGTERM. *)
LEMMA ClearStep ==
    ASSUME SigInv, At("clear"), stack' = Goto("scan"), PipeFull' = FALSE, pipe' = pipe,
           UNCHANGED <<pending, fired, installed, child, tunnels, count, exited, terms, missed>>
    PROVE  SigInv'
    <1>0. /\ stack \in Seq(Frame) /\ Ordered(stack) /\ PipeMatches(stack, pipe, PipeFull)
          /\ pipe \in Nat /\ PipeFull \in BOOLEAN /\ fired \in [Signal -> BOOLEAN]
          /\ SigTypes
      BY DEF SigInv, SigTypes
    <1>1. /\ stack # <<>> /\ stack[1] \in Frame /\ stack[1].at = "clear" /\ Top = stack[1]
          /\ 1 \in 1..Len(stack)
          /\ Goto("scan") = <<[at |-> "scan", arg |-> stack[1].arg]>> \o Tail(stack)
      BY <1>0, AtFacts
    <1>2. PICK a : a = stack[1].arg
      OBVIOUS
    <1>3. PICK f : f = [at |-> "scan", arg |-> a]
      OBVIOUS
    <1>4. a \in Signal /\ f \in Frame /\ f.at = "scan" /\ f.arg = a
      BY <1>1, <1>2, <1>3, FrameFacts, FrameIntro DEF Async, Scans, Signal
    <1>41. a = "SIGTERM"
      BY <1>1, <1>2 DEF SigInv, StartsWithTerm
    <1>5. stack' = <<f>> \o Tail(stack)
      BY <1>1, <1>2, <1>3
    <1>6. /\ stack' \in Seq(Frame) /\ Ordered(stack') /\ Paid(stack', count')
          /\ StartsWithTerm(stack') /\ Registers(stack', child')
      BY <1>1, <1>2, <1>4, <1>5, GoesOn DEF Async
    <1>7. fired' \in [Signal -> BOOLEAN] /\ pipe' \in Nat /\ PipeFull' \in BOOLEAN
      BY <1>0, <1>1, <1>2, <1>4
    <1>8. SigTypes'
      BY <1>6, <1>7 DEF SigInv, SigTypes
    <1>9. PipeMatches(stack', pipe', PipeFull')
      BY <1>0, <1>1, <1>4, <1>5, PipeCleared
    <1>10. count' = 0 => Heard(stack', pipe', fired')
      <2>. SUFFICES ASSUME count = 0 PROVE Heard(stack', pipe', fired')
        OBVIOUS
      <2>1. Heard(stack, pipe, fired)
        BY DEF SigInv
      <2>2. SeesOn(stack[1], f, fired, fired')
        BY <1>4, <1>41 DEF SeesOn, WillSee, Signal
      <2>. QED  BY <1>0, <1>1, <1>4, <1>5, <1>7, <2>1, <2>2, ReplacedHeard
    <1>. QED  BY <1>6, <1>8, <1>9, <1>10, FromParts

(* It looks at a signal that has not fired. *)
LEMMA ScanPastStep ==
    ASSUME SigInv, At("scan"), stack' = Goto("reset"), ~fired[Top.arg],
           UNCHANGED <<pipe, PipeFull>>,
           UNCHANGED <<pending, fired, installed, child, tunnels, count, exited, terms, missed>>
    PROVE  SigInv'
    <1>0. /\ stack \in Seq(Frame) /\ Ordered(stack) /\ PipeMatches(stack, pipe, PipeFull)
          /\ pipe \in Nat /\ PipeFull \in BOOLEAN /\ fired \in [Signal -> BOOLEAN]
          /\ SigTypes
      BY DEF SigInv, SigTypes
    <1>1. /\ stack # <<>> /\ stack[1] \in Frame /\ stack[1].at = "scan" /\ Top = stack[1]
          /\ 1 \in 1..Len(stack)
          /\ Goto("reset") = <<[at |-> "reset", arg |-> stack[1].arg]>> \o Tail(stack)
      BY <1>0, AtFacts
    <1>2. PICK a : a = stack[1].arg
      OBVIOUS
    <1>3. PICK f : f = [at |-> "reset", arg |-> a]
      OBVIOUS
    <1>4. a \in Signal /\ f \in Frame /\ f.at = "reset" /\ f.arg = a
      BY <1>1, <1>2, <1>3, FrameFacts, FrameIntro DEF Async, Scans, Signal
    <1>5. stack' = <<f>> \o Tail(stack)
      BY <1>1, <1>2, <1>3
    <1>6. /\ stack' \in Seq(Frame) /\ Ordered(stack') /\ Paid(stack', count')
          /\ StartsWithTerm(stack') /\ Registers(stack', child')
      BY <1>1, <1>2, <1>4, <1>5, GoesOn DEF Async
    <1>7. fired' \in [Signal -> BOOLEAN] /\ pipe' \in Nat /\ PipeFull' \in BOOLEAN
      BY <1>0, <1>1, <1>2, <1>4
    <1>8. SigTypes'
      BY <1>6, <1>7 DEF SigInv, SigTypes
    <1>9. PipeMatches(stack', pipe', PipeFull')
      <2>1. f.at \in Neutral /\ stack[1].at \in Neutral
        BY <1>1, <1>4 DEF Neutral, Async, Scans
      <2>. QED  BY <1>0, <1>1, <1>4, <1>5, <2>1, PipeReplaced
    <1>10. count' = 0 => Heard(stack', pipe', fired')
      <2>. SUFFICES ASSUME count = 0 PROVE Heard(stack', pipe', fired')
        OBVIOUS
      <2>1. Heard(stack, pipe, fired)
        BY DEF SigInv
      <2>2. SeesOn(stack[1], f, fired, fired')
        BY <1>0, <1>1, <1>2, <1>4 DEF SeesOn, WillSee, Signal
      <2>. QED  BY <1>0, <1>1, <1>4, <1>5, <1>7, <2>1, <2>2, ReplacedHeard
    <1>. QED  BY <1>6, <1>8, <1>9, <1>10, FromParts

(* It looks at a SIGTERM that has fired. *)
LEMMA ScanTermStep ==
    ASSUME SigInv, At("scan"), stack' = Goto("sighandler"), Top.arg = "SIGTERM",
           UNCHANGED <<pipe, PipeFull>>,
           UNCHANGED <<pending, fired, installed, child, tunnels, count, exited, terms, missed>>
    PROVE  SigInv'
    <1>0. /\ stack \in Seq(Frame) /\ Ordered(stack) /\ PipeMatches(stack, pipe, PipeFull)
          /\ pipe \in Nat /\ PipeFull \in BOOLEAN /\ fired \in [Signal -> BOOLEAN]
          /\ SigTypes
      BY DEF SigInv, SigTypes
    <1>1. /\ stack # <<>> /\ stack[1] \in Frame /\ stack[1].at = "scan" /\ Top = stack[1]
          /\ 1 \in 1..Len(stack)
          /\ Goto("sighandler") = <<[at |-> "sighandler", arg |-> stack[1].arg]>> \o Tail(stack)
      BY <1>0, AtFacts
    <1>2. PICK a : a = stack[1].arg
      OBVIOUS
    <1>3. PICK f : f = [at |-> "sighandler", arg |-> a]
      OBVIOUS
    <1>4. a \in Signal /\ f \in Frame /\ f.at = "sighandler" /\ f.arg = a
      BY <1>1, <1>2, <1>3, FrameFacts, FrameIntro DEF Async, Scans, Signal
    <1>41. a = "SIGTERM"
      BY <1>1, <1>2
    <1>5. stack' = <<f>> \o Tail(stack)
      BY <1>1, <1>2, <1>3
    <1>6. /\ stack' \in Seq(Frame) /\ Ordered(stack') /\ Paid(stack', count')
          /\ StartsWithTerm(stack') /\ Registers(stack', child')
      BY <1>1, <1>2, <1>4, <1>41, <1>5, GoesOn DEF Async
    <1>7. fired' \in [Signal -> BOOLEAN] /\ pipe' \in Nat /\ PipeFull' \in BOOLEAN
      BY <1>0, <1>1, <1>2, <1>4
    <1>8. SigTypes'
      BY <1>6, <1>7 DEF SigInv, SigTypes
    <1>9. PipeMatches(stack', pipe', PipeFull')
      <2>1. f.at \in Neutral /\ stack[1].at \in Neutral
        BY <1>1, <1>4 DEF Neutral, Async, Scans
      <2>. QED  BY <1>0, <1>1, <1>4, <1>5, <2>1, PipeReplaced
    <1>10. count' = 0 => Heard(stack', pipe', fired')
      <2>. SUFFICES ASSUME count = 0 PROVE Heard(stack', pipe', fired')
        OBVIOUS
      <2>1. Heard(stack, pipe, fired)
        BY DEF SigInv
      <2>2. SeesOn(stack[1], f, fired, fired')
        BY <1>0, <1>1, <1>2, <1>4 DEF SeesOn, WillSee, Signal
      <2>. QED  BY <1>0, <1>1, <1>4, <1>5, <1>7, <2>1, <2>2, ReplacedHeard
    <1>. QED  BY <1>6, <1>8, <1>9, <1>10, FromParts

(* It looks at a SIGCHLD that has fired. *)
LEMMA ScanChldStep ==
    ASSUME SigInv, At("scan"), stack' = Goto("waitpid"),
           UNCHANGED <<pipe, PipeFull>>,
           UNCHANGED <<pending, fired, installed, child, tunnels, count, exited, terms, missed>>
    PROVE  SigInv'
    <1>0. /\ stack \in Seq(Frame) /\ Ordered(stack) /\ PipeMatches(stack, pipe, PipeFull)
          /\ pipe \in Nat /\ PipeFull \in BOOLEAN /\ fired \in [Signal -> BOOLEAN]
          /\ SigTypes
      BY DEF SigInv, SigTypes
    <1>1. /\ stack # <<>> /\ stack[1] \in Frame /\ stack[1].at = "scan" /\ Top = stack[1]
          /\ 1 \in 1..Len(stack)
          /\ Goto("waitpid") = <<[at |-> "waitpid", arg |-> stack[1].arg]>> \o Tail(stack)
      BY <1>0, AtFacts
    <1>2. PICK a : a = stack[1].arg
      OBVIOUS
    <1>3. PICK f : f = [at |-> "waitpid", arg |-> a]
      OBVIOUS
    <1>4. a \in Signal /\ f \in Frame /\ f.at = "waitpid" /\ f.arg = a
      BY <1>1, <1>2, <1>3, FrameFacts, FrameIntro DEF Async, Scans, Signal
    <1>5. stack' = <<f>> \o Tail(stack)
      BY <1>1, <1>2, <1>3
    <1>6. /\ stack' \in Seq(Frame) /\ Ordered(stack') /\ Paid(stack', count')
          /\ StartsWithTerm(stack') /\ Registers(stack', child')
      BY <1>1, <1>2, <1>4, <1>5, GoesOn DEF Async
    <1>7. fired' \in [Signal -> BOOLEAN] /\ pipe' \in Nat /\ PipeFull' \in BOOLEAN
      BY <1>0, <1>1, <1>2, <1>4
    <1>8. SigTypes'
      BY <1>6, <1>7 DEF SigInv, SigTypes
    <1>9. PipeMatches(stack', pipe', PipeFull')
      <2>1. f.at \in Neutral /\ stack[1].at \in Neutral
        BY <1>1, <1>4 DEF Neutral, Async, Scans
      <2>. QED  BY <1>0, <1>1, <1>4, <1>5, <2>1, PipeReplaced
    <1>10. count' = 0 => Heard(stack', pipe', fired')
      <2>. SUFFICES ASSUME count = 0 PROVE Heard(stack', pipe', fired')
        OBVIOUS
      <2>1. Heard(stack, pipe, fired)
        BY DEF SigInv
      <2>2. SeesOn(stack[1], f, fired, fired')
        BY <1>0, <1>1, <1>2, <1>4 DEF SeesOn, WillSee, Signal
      <2>. QED  BY <1>0, <1>1, <1>4, <1>5, <1>7, <2>1, <2>2, ReplacedHeard
    <1>. QED  BY <1>6, <1>8, <1>9, <1>10, FromParts

(* child_handler finds no more children. *)
LEMMA WaitedStep ==
    ASSUME SigInv, At("waitpid"), stack' = Goto("reset"),
           UNCHANGED <<pipe, PipeFull>>,
           UNCHANGED <<pending, fired, installed, child, tunnels, count, exited, terms, missed>>
    PROVE  SigInv'
    <1>0. /\ stack \in Seq(Frame) /\ Ordered(stack) /\ PipeMatches(stack, pipe, PipeFull)
          /\ pipe \in Nat /\ PipeFull \in BOOLEAN /\ fired \in [Signal -> BOOLEAN]
          /\ SigTypes
      BY DEF SigInv, SigTypes
    <1>1. /\ stack # <<>> /\ stack[1] \in Frame /\ stack[1].at = "waitpid" /\ Top = stack[1]
          /\ 1 \in 1..Len(stack)
          /\ Goto("reset") = <<[at |-> "reset", arg |-> stack[1].arg]>> \o Tail(stack)
      BY <1>0, AtFacts
    <1>2. PICK a : a = stack[1].arg
      OBVIOUS
    <1>3. PICK f : f = [at |-> "reset", arg |-> a]
      OBVIOUS
    <1>4. a \in Signal /\ f \in Frame /\ f.at = "reset" /\ f.arg = a
      BY <1>1, <1>2, <1>3, FrameFacts, FrameIntro DEF Async, Scans, Signal
    <1>5. stack' = <<f>> \o Tail(stack)
      BY <1>1, <1>2, <1>3
    <1>6. /\ stack' \in Seq(Frame) /\ Ordered(stack') /\ Paid(stack', count')
          /\ StartsWithTerm(stack') /\ Registers(stack', child')
      BY <1>1, <1>2, <1>4, <1>5, GoesOn DEF Async
    <1>7. fired' \in [Signal -> BOOLEAN] /\ pipe' \in Nat /\ PipeFull' \in BOOLEAN
      BY <1>0, <1>1, <1>2, <1>4
    <1>8. SigTypes'
      BY <1>6, <1>7 DEF SigInv, SigTypes
    <1>9. PipeMatches(stack', pipe', PipeFull')
      <2>1. f.at \in Neutral /\ stack[1].at \in Neutral
        BY <1>1, <1>4 DEF Neutral, Async, Scans
      <2>. QED  BY <1>0, <1>1, <1>4, <1>5, <2>1, PipeReplaced
    <1>10. count' = 0 => Heard(stack', pipe', fired')
      <2>. SUFFICES ASSUME count = 0 PROVE Heard(stack', pipe', fired')
        OBVIOUS
      <2>1. Heard(stack, pipe, fired)
        BY DEF SigInv
      <2>2. SeesOn(stack[1], f, fired, fired')
        BY <1>0, <1>1, <1>2, <1>4 DEF SeesOn, WillSee, Signal
      <2>. QED  BY <1>0, <1>1, <1>4, <1>5, <1>7, <2>1, <2>2, ReplacedHeard
    <1>. QED  BY <1>6, <1>8, <1>9, <1>10, FromParts

(* DoPipe resets SIGTERM and goes on to SIGCHLD. *)
LEMMA ResetTermStep ==
    ASSUME SigInv, At("reset"), Top.arg = "SIGTERM",
           stack' = <<[at |-> "scan", arg |-> "SIGCHLD"]>> \o Tail(stack),
           fired' = [fired EXCEPT ![Top.arg] = FALSE], UNCHANGED <<pipe, PipeFull>>,
           UNCHANGED <<pending, installed, child, tunnels, count, exited, terms, missed>>
    PROVE  SigInv'
    <1>0. /\ stack \in Seq(Frame) /\ Ordered(stack) /\ PipeMatches(stack, pipe, PipeFull)
          /\ pipe \in Nat /\ PipeFull \in BOOLEAN /\ fired \in [Signal -> BOOLEAN]
          /\ SigTypes
      BY DEF SigInv, SigTypes
    <1>1. /\ stack # <<>> /\ stack[1] \in Frame /\ stack[1].at = "reset" /\ Top = stack[1]
          /\ 1 \in 1..Len(stack)
      BY <1>0, AtFacts
    <1>2. PICK a : a = stack[1].arg
      OBVIOUS
    <1>3. PICK f : f = [at |-> "scan", arg |-> "SIGCHLD"]
      OBVIOUS
    <1>4. a \in Signal /\ f \in Frame /\ f.at = "scan" /\ f.arg = "SIGCHLD"
      BY <1>1, <1>2, <1>3, FrameFacts, FrameIntro DEF Async, Scans, Signal
    <1>5. stack' = <<f>> \o Tail(stack)
      BY <1>1, <1>2, <1>3
    <1>6. /\ stack' \in Seq(Frame) /\ Ordered(stack') /\ Paid(stack', count')
          /\ StartsWithTerm(stack') /\ Registers(stack', child')
      BY <1>1, <1>2, <1>4, <1>5, GoesOn DEF Async
    <1>7. fired' \in [Signal -> BOOLEAN] /\ pipe' \in Nat /\ PipeFull' \in BOOLEAN
      BY <1>0, <1>1, <1>2, <1>4
    <1>8. SigTypes'
      BY <1>6, <1>7 DEF SigInv, SigTypes
    <1>9. PipeMatches(stack', pipe', PipeFull')
      <2>1. f.at \in Neutral /\ stack[1].at \in Neutral
        BY <1>1, <1>4 DEF Neutral, Async, Scans
      <2>2. PipeMatches(stack', pipe, PipeFull)
        BY <1>0, <1>1, <1>4, <1>5, <2>1, PipeReplaced, ZenonT(40)
      <2>. QED  BY <2>2
    <1>10. count' = 0 => Heard(stack', pipe', fired')
      <2>. SUFFICES ASSUME count = 0 PROVE Heard(stack', pipe', fired')
        OBVIOUS
      <2>1. Heard(stack, pipe, fired)
        BY DEF SigInv
      <2>2. SeesOn(stack[1], f, fired, fired')
        BY <1>0, <1>1, <1>2, <1>4 DEF SeesOn, WillSee, Signal
      <2>3. PICK fe : fe = fired'
        OBVIOUS
      <2>4. fe \in [Signal -> BOOLEAN] /\ SeesOn(stack[1], f, fired, fe)
        BY <1>7, <2>2, <2>3
      <2>5. Heard(stack', pipe, fe)
        BY <1>0, <1>1, <1>4, <1>5, <2>1, <2>4, ReplacedHeard
      <2>. QED  BY <2>3, <2>5
    <1>. QED  BY <1>6, <1>8, <1>9, <1>10, FromParts

(* sig_handler finds the flag set: there is a byte, or DoPipe will look. *)
LEMMA FoundFullStep ==
    ASSUME SigInv, At("test"), stack' = Return, PipeFull, UNCHANGED <<pipe, PipeFull>>,
           UNCHANGED <<pending, fired, installed, child, tunnels, count, exited, terms, missed>>
    PROVE  SigInv'
    <1>0. /\ stack \in Seq(Frame) /\ Ordered(stack) /\ PipeMatches(stack, pipe, PipeFull)
          /\ pipe \in Nat /\ PipeFull \in BOOLEAN /\ fired \in [Signal -> BOOLEAN]
          /\ SigTypes
      BY DEF SigInv, SigTypes
    <1>1. /\ stack # <<>> /\ stack[1] \in Frame /\ stack[1].at = "test" /\ Top = stack[1]
          /\ 1 \in 1..Len(stack) /\ stack' = Tail(stack)
      BY <1>0, AtFacts DEF Return
    <1>2. /\ stack' \in Seq(Frame) /\ Ordered(stack') /\ Paid(stack', count')
          /\ StartsWithTerm(stack') /\ Registers(stack', child')
      BY <1>1, Returns
    <1>3. fired' \in [Signal -> BOOLEAN] /\ pipe' \in Nat /\ PipeFull' \in BOOLEAN
      BY <1>0, <1>1
    <1>4. SigTypes'
      BY <1>2, <1>3 DEF SigInv, SigTypes
    <1>5. PipeMatches(stack', pipe', PipeFull')
      <2>1. stack[1].at \in Neutral
        BY <1>1 DEF Neutral, Async, Scans
      <2>. QED  BY <1>0, <1>1, <2>1, PipePopped
    <1>6. count' = 0 => Heard(stack', pipe', fired')
      <2>. SUFFICES ASSUME count = 0 PROVE Heard(stack', pipe', fired')
        OBVIOUS
      <2>1. Heard(stack, pipe, fired)
        BY DEF SigInv
      <2>2. CASE pipe > 0
        BY <2>2 DEF Heard
      <2>3. CASE ~(pipe > 0)
        <3>1. PICK i \in 1..Len(stack) : stack[i].at = "clear"
          BY <1>0, <2>3 DEF PipeMatches
        <3>2. i > 1
          BY <1>1, <3>1
        <3>3. i - 1 \in 1..Len(stack') /\ stack'[i - 1].at = "clear"
          BY <1>0, <1>1, <3>1, <3>2, Popped
        <3>. QED  BY <3>3 DEF Heard, WillSee
      <2>. QED  BY <2>2, <2>3
    <1>. QED  BY <1>2, <1>4, <1>5, <1>6, FromParts


(* sig_handler sets the flag; its byte is still in the pipe. *)
LEMMA FlagStep ==
    ASSUME SigInv, At("full"), stack' = Return, PipeFull' = TRUE, pipe' = pipe,
           UNCHANGED <<pending, fired, installed, child, tunnels, count, exited, terms, missed>>
    PROVE  SigInv'
    <1>0. /\ stack \in Seq(Frame) /\ Ordered(stack) /\ PipeMatches(stack, pipe, PipeFull)
          /\ pipe \in Nat /\ PipeFull \in BOOLEAN /\ fired \in [Signal -> BOOLEAN]
          /\ SigTypes
      BY DEF SigInv, SigTypes
    <1>1. /\ stack # <<>> /\ stack[1] \in Frame /\ stack[1].at = "full" /\ Top = stack[1]
          /\ 1 \in 1..Len(stack) /\ stack' = Tail(stack)
      BY <1>0, AtFacts DEF Return
    <1>2. /\ stack' \in Seq(Frame) /\ Ordered(stack') /\ Paid(stack', count')
          /\ StartsWithTerm(stack') /\ Registers(stack', child')
      BY <1>1, Returns
    <1>3. fired' \in [Signal -> BOOLEAN] /\ pipe' \in Nat /\ PipeFull' \in BOOLEAN
      BY <1>0, <1>1
    <1>4. SigTypes'
      BY <1>2, <1>3 DEF SigInv, SigTypes
    <1>5. PipeMatches(stack', pipe', PipeFull')
      BY <1>0, <1>1, PipeFlagged
    <1>6. count' = 0 => Heard(stack', pipe', fired')
      <2>. SUFFICES ASSUME count = 0 PROVE Heard(stack', pipe', fired')
        OBVIOUS
      <2>1. Heard(stack, pipe, fired)
        BY DEF SigInv
      <2>2. pipe > 0
        BY <1>0, <1>1 DEF PipeMatches
      <2>. QED  BY <2>2 DEF Heard
    <1>. QED  BY <1>2, <1>4, <1>5, <1>6, FromParts


(* DoPipe resets SIGCHLD and is done. *)
LEMMA ResetChldStep ==
    ASSUME SigInv, At("reset"), stack' = Return, Top.arg = "SIGCHLD",
           fired' = [fired EXCEPT ![Top.arg] = FALSE], UNCHANGED <<pipe, PipeFull>>,
           UNCHANGED <<pending, installed, child, tunnels, count, exited, terms, missed>>
    PROVE  SigInv'
    <1>0. /\ stack \in Seq(Frame) /\ Ordered(stack) /\ PipeMatches(stack, pipe, PipeFull)
          /\ pipe \in Nat /\ PipeFull \in BOOLEAN /\ fired \in [Signal -> BOOLEAN]
          /\ SigTypes
      BY DEF SigInv, SigTypes
    <1>1. /\ stack # <<>> /\ stack[1] \in Frame /\ stack[1].at = "reset" /\ Top = stack[1]
          /\ 1 \in 1..Len(stack) /\ stack' = Tail(stack)
      BY <1>0, AtFacts DEF Return
    <1>2. /\ stack' \in Seq(Frame) /\ Ordered(stack') /\ Paid(stack', count')
          /\ StartsWithTerm(stack') /\ Registers(stack', child')
      BY <1>1, Returns
    <1>3. fired' \in [Signal -> BOOLEAN] /\ pipe' \in Nat /\ PipeFull' \in BOOLEAN
      BY <1>0, <1>1
    <1>4. SigTypes'
      BY <1>2, <1>3 DEF SigInv, SigTypes
    <1>5. PipeMatches(stack', pipe', PipeFull')
      <2>1. stack[1].at \in Neutral
        BY <1>1 DEF Neutral, Async, Scans
      <2>. QED  BY <1>0, <1>1, <2>1, PipePopped
    <1>6. count' = 0 => Heard(stack', pipe', fired')
      <2>. SUFFICES ASSUME count = 0 PROVE Heard(stack', pipe', fired')
        OBVIOUS
      <2>1. Heard(stack, pipe, fired)
        BY DEF SigInv
      <2>2. SawNothing(stack[1], fired, fired')
        BY <1>0, <1>1 DEF SawNothing, WillSee, Signal
      <2>3. PICK fe : fe = fired'
        OBVIOUS
      <2>4. fe \in [Signal -> BOOLEAN] /\ SawNothing(stack[1], fired, fe)
        BY <1>3, <2>2, <2>3
      <2>5. Heard(stack', pipe, fe)
        BY <1>0, <1>1, <2>1, <2>4, PoppedHeard
      <2>. QED  BY <2>3, <2>5
    <1>. QED  BY <1>2, <1>4, <1>5, <1>6, FromParts

(* A signal is delivered; a handler of its own does not run. *)
LEMMA DeliverStep ==
    ASSUME SigInv, NEW sig \in Signal, Deliver(sig)
    PROVE  SigInv'
    <1>0. /\ stack \in Seq(Frame) /\ Ordered(stack) /\ PipeMatches(stack, pipe, PipeFull)
          /\ pipe \in Nat /\ PipeFull \in BOOLEAN /\ fired \in [Signal -> BOOLEAN]
          /\ SigTypes
      BY DEF SigInv, SigTypes
    <1>1. PICK f : f = [at |-> "mark", arg |-> sig]
      OBVIOUS
    <1>2. f \in Frame /\ f.at = "mark" /\ f.arg = sig
      BY <1>1, FrameIntro DEF Async
    <1>3. stack' = <<f>> \o stack
      BY <1>1 DEF Deliver, Call
    <1>4. \A i \in 1..Len(stack) : stack[i].at \in Async => stack[i].arg # sig
      BY <1>0 DEF Deliver, InHandler, Async
    <1>5. count' = count /\ pipe' = pipe /\ PipeFull' = PipeFull /\ child' = child
          /\ fired' = fired
      BY DEF Deliver
    <1>6. /\ stack' \in Seq(Frame) /\ Ordered(stack') /\ Paid(stack', count')
          /\ StartsWithTerm(stack') /\ Registers(stack', child')
      BY <1>2, <1>3, <1>4, <1>5, IsCalled DEF Async
    <1>7. SigTypes'
      BY <1>6 DEF SigInv, SigTypes, Deliver
    <1>8. PipeMatches(stack', pipe', PipeFull')
      <2>1. f.at \in Neutral
        BY <1>2 DEF Neutral, Async
      <2>. QED  BY <1>0, <1>2, <1>3, <1>5, <1>6, <2>1, PipePushed
    <1>9. count' = 0 => Heard(stack', pipe', fired')
      <2>1. count = 0 => Heard(stack, pipe, fired)
        BY DEF SigInv
      <2>. QED  BY <1>0, <1>2, <1>3, <1>5, <2>1, PushedHeard
    <1>. QED  BY <1>6, <1>7, <1>8, <1>9, FromParts

(* The event loop calls DoPipe. *)
LEMMA DoPipeStep ==
    ASSUME SigInv, DoPipe
    PROVE  SigInv'
    <1>0. /\ stack \in Seq(Frame) /\ Ordered(stack) /\ PipeMatches(stack, pipe, PipeFull)
          /\ pipe \in Nat /\ PipeFull \in BOOLEAN /\ fired \in [Signal -> BOOLEAN]
          /\ SigTypes
      BY DEF SigInv, SigTypes
    <1>1. PICK f : f = [at |-> "read", arg |-> "SIGTERM"]
      OBVIOUS
    <1>2. f \in Frame /\ f.at = "read" /\ f.arg = "SIGTERM"
      BY <1>1, FrameIntro DEF Scans, Signal
    <1>3. stack' = <<f>> \o stack
      BY <1>1 DEF DoPipe, Call
    <1>4. \A i \in 1..Len(stack) : stack[i].at = "cleanup"
      BY SelectFrames DEF DoPipe
    <1>5. count' = count /\ pipe' = pipe /\ PipeFull' = PipeFull /\ child' = child
          /\ fired' = fired /\ pipe > 0
      BY DEF DoPipe
    <1>6. /\ stack' \in Seq(Frame) /\ Ordered(stack') /\ Paid(stack', count')
          /\ StartsWithTerm(stack') /\ Registers(stack', child')
      BY <1>2, <1>3, <1>4, <1>5, IsCalled
    <1>7. SigTypes'
      BY <1>6 DEF SigInv, SigTypes, DoPipe
    <1>8. PipeMatches(stack', pipe', PipeFull')
      BY <1>0, <1>2, <1>3, <1>4, <1>5, PipeToRead
    <1>9. count' = 0 => Heard(stack', pipe', fired')
      BY <1>5 DEF Heard
    <1>. QED  BY <1>6, <1>7, <1>8, <1>9, FromParts

(* The operator's exit command, from the main loop. *)
LEMMA CmdExitStep ==
    ASSUME SigInv, cmd_exit
    PROVE  SigInv'
    <1>0. /\ stack \in Seq(Frame) /\ Ordered(stack) /\ PipeMatches(stack, pipe, PipeFull)
          /\ pipe \in Nat /\ PipeFull \in BOOLEAN /\ fired \in [Signal -> BOOLEAN]
          /\ SigTypes
      BY DEF SigInv, SigTypes
    <1>1. PICK f : f = [at |-> "cleanup", arg |-> "exit"]
      OBVIOUS
    <1>2. f \in Frame /\ f.at = "cleanup" /\ f.arg = "exit"
      BY <1>1, FrameIntro
    <1>3. stack' = <<f>> \o stack
      BY <1>1 DEF cmd_exit, Call
    <1>4. \A i \in 1..Len(stack) : stack[i].at = "cleanup"
      BY SelectFrames DEF cmd_exit
    <1>5. count' = count /\ pipe' = pipe /\ PipeFull' = PipeFull /\ child' = child
          /\ fired' = fired /\ Len(stack) <= MaxNested
      BY DEF cmd_exit
    <1>6. /\ stack' \in Seq(Frame) /\ Ordered(stack') /\ Paid(stack', count')
          /\ StartsWithTerm(stack') /\ Registers(stack', child')
      BY <1>2, <1>3, <1>4, <1>5, IsCalled
    <1>7. SigTypes'
      BY <1>6 DEF SigInv, SigTypes, cmd_exit
    <1>8. PipeMatches(stack', pipe', PipeFull')
      <2>1. f.at \in Neutral
        BY <1>2 DEF Neutral
      <2>2. stack' = <<f>> \o stack /\ Ordered(stack') /\ f \in Frame
        BY <1>2, <1>3, <1>6
      <2>3. PipeMatches(stack', pipe, PipeFull)
        BY <1>0, <2>1, <2>2, PipePushed
      <2>. QED  BY <1>5, <2>3
    <1>9. count' = 0 => Heard(stack', pipe', fired')
      <2>1. count = 0 => Heard(stack, pipe, fired)
        BY DEF SigInv
      <2>. QED  BY <1>0, <1>2, <1>3, <1>5, <2>1, PushedHeard
    <1>. QED  BY <1>6, <1>7, <1>8, <1>9, FromParts

(* pppd is forked, and its registration is next. *)
LEMMA ForkStep ==
    ASSUME SigInv, NEW c \in Child, fork_pppd(c)
    PROVE  SigInv'
    <1>0. /\ stack \in Seq(Frame) /\ Ordered(stack) /\ PipeMatches(stack, pipe, PipeFull)
          /\ pipe \in Nat /\ PipeFull \in BOOLEAN /\ fired \in [Signal -> BOOLEAN]
          /\ SigTypes
      BY DEF SigInv, SigTypes
    <1>1. PICK f : f = [at |-> "register", arg |-> c]
      OBVIOUS
    <1>2. f \in Frame /\ f.at = "register" /\ f.arg = c
      BY <1>1, FrameIntro
    <1>3. stack' = <<f>> \o stack
      BY <1>1 DEF fork_pppd, Call
    <1>4. \A i \in 1..Len(stack) : stack[i].at = "cleanup"
      BY SelectFrames DEF fork_pppd
    <1>5. count' = count /\ pipe' = pipe /\ PipeFull' = PipeFull /\ fired' = fired
          /\ child' = [child EXCEPT ![c] = "forked"] /\ child \in [Child -> ChildState]
      BY DEF fork_pppd, SigInv, SigTypes
    <1>6. /\ stack' \in Seq(Frame) /\ Ordered(stack') /\ Paid(stack', count')
          /\ StartsWithTerm(stack') /\ Registers(stack', child)
      BY <1>2, <1>3, <1>4, <1>5, IsCalled
    <1>7. Registers(stack', child')
      <2>1. 1 \in 1..Len(stack') /\ stack'[1].at = "register" /\ stack'[1].arg = c
        BY <1>0, <1>2, <1>3, Pushed
      <2>2. PICK t : t = stack'
        OBVIOUS
      <2>3. PICK ch : ch = child'
        OBVIOUS
      <2>4. ASSUME NEW d \in Child
            PROVE  /\ ch[d] # "reaped"
                   /\ ch[d] \in {"forked", "unknown zombie"} =>
                         \E i \in 1..Len(t) : t[i].at = "register" /\ t[i].arg = d
        <3>1. CASE d = c
          <4>1. ch[d] = "forked"
            BY <1>5, <2>3, <3>1
          <4>. QED  BY <2>1, <2>2, <3>1, <4>1
        <3>2. CASE d # c
          <4>1. ch[d] = child[d]
            BY <1>5, <2>3, <3>2
          <4>2. Registers(t, child)
            BY <1>6, <2>2
          <4>. QED  BY <4>1, <4>2, Zenon DEF Registers
        <3>. QED  BY <3>1, <3>2
      <2>5. Registers(t, ch)
        BY <2>4, Zenon DEF Registers
      <2>. QED  BY <2>2, <2>3, <2>5
    <1>8. SigTypes'
      BY <1>5, <1>6 DEF SigInv, SigTypes, fork_pppd, ChildState
    <1>9. PipeMatches(stack', pipe', PipeFull')
      <2>1. f.at \in Neutral
        BY <1>2 DEF Neutral
      <2>. QED  BY <1>0, <1>2, <1>3, <1>5, <1>6, <2>1, PipePushed
    <1>10. count' = 0 => Heard(stack', pipe', fired')
      <2>1. count = 0 => Heard(stack, pipe, fired)
        BY DEF SigInv
      <2>. QED  BY <1>0, <1>2, <1>3, <1>5, <2>1, PushedHeard
    <1>. QED  BY <1>6, <1>7, <1>8, <1>9, <1>10, FromParts

(* The child is registered: it is no longer one that nobody knows. *)
LEMMA RegisterStep ==
    ASSUME SigInv, Event_HandleChildExit
    PROVE  SigInv'
    <1>0. /\ stack \in Seq(Frame) /\ Ordered(stack) /\ PipeMatches(stack, pipe, PipeFull)
          /\ pipe \in Nat /\ PipeFull \in BOOLEAN /\ fired \in [Signal -> BOOLEAN]
          /\ SigTypes
      BY DEF SigInv, SigTypes
    <1>1. /\ stack # <<>> /\ stack[1] \in Frame /\ stack[1].at = "register" /\ Top = stack[1]
          /\ 1 \in 1..Len(stack) /\ stack' = Tail(stack)
      BY <1>0, AtFacts DEF Event_HandleChildExit, Return
    <1>2. PICK c : c = stack[1].arg
      OBVIOUS
    <1>3. c \in Child
      BY <1>1, <1>2, FrameFacts
    <1>4. /\ child' = [child EXCEPT ![c] = IF child[c] = "forked" THEN "running" ELSE "zombie"]
          /\ child \in [Child -> ChildState] /\ count \in Nat
          /\ count' = count /\ pipe' = pipe /\ PipeFull' = PipeFull /\ fired' = fired
      BY <1>1, <1>2, SignalsAssumption DEF Event_HandleChildExit, SigInv, SigTypes
    <1>5. stack' \in Seq(Frame) /\ Ordered(stack') /\ Paid(stack', count')
          /\ StartsWithTerm(stack')
      <2>1. Paid(stack, count) /\ StartsWithTerm(stack)
        BY DEF SigInv
      <2>2. stack' \in Seq(Frame)
        BY <1>0, <1>1, Popped
      <2>3. Ordered(stack')
        BY <1>0, <1>1, PoppedOrder
      <2>4. Paid(stack', count)
        BY <1>0, <1>1, <1>4, <2>1, PoppedPaid
      <2>5. StartsWithTerm(stack')
        BY <1>0, <1>1, <2>1, PoppedTerm
      <2>. QED  BY <1>4, <2>2, <2>3, <2>4, <2>5
    <1>6. Registers(stack', child')
      <2>1. PICK ch : ch = child'
        OBVIOUS
      <2>2. /\ ch[c] \notin {"forked", "unknown zombie", "reaped"}
            /\ \A d \in Child : d # c => ch[d] = child[d]
        BY <1>3, <1>4, <2>1
      <2>3. Registers(stack, child)
        BY DEF SigInv
      <2>4. ASSUME NEW d \in Child
            PROVE  /\ ch[d] # "reaped"
                   /\ ch[d] \in {"forked", "unknown zombie"} =>
                         \E i \in 1..Len(stack) : stack[i].at = "register" /\ stack[i].arg = d
        BY <2>2, <2>3, Zenon DEF Registers
      <2>5. Registers(stack, ch)
        BY <2>4, Zenon DEF Registers
      <2>6. c \notin Unregistered(ch)
        BY <2>2, Zenon DEF Unregistered
      <2>7. Registers(stack', ch)
        BY <1>0, <1>1, <1>2, <2>5, <2>6, PoppedRegisters
      <2>. QED  BY <2>1, <2>7
    <1>7. SigTypes'
      <2>1. child' \in [Child -> ChildState]
        BY <1>3, <1>4 DEF ChildState
      <2>. QED  BY <1>5, <2>1 DEF SigInv, SigTypes, Event_HandleChildExit
    <1>8. PipeMatches(stack', pipe', PipeFull')
      <2>1. stack[1].at \in Neutral
        BY <1>1 DEF Neutral
      <2>2. PipeMatches(stack', pipe, PipeFull)
        BY <1>0, <1>1, <2>1, PipePopped
      <2>. QED  BY <1>4, <2>2
    <1>9. count' = 0 => Heard(stack', pipe', fired')
      <2>. SUFFICES ASSUME count = 0 PROVE Heard(stack', pipe, fired)
        BY <1>4
      <2>1. Heard(stack, pipe, fired)
        BY DEF SigInv
      <2>2. SawNothing(stack[1], fired, fired)
        BY <1>1 DEF SawNothing, WillSee
      <2>. QED  BY <1>0, <1>1, <2>1, <2>2, PoppedHeard
    <1>. QED  BY <1>5, <1>6, <1>7, <1>8, <1>9, FromParts

(* A child exits. *)
LEMMA ChildExitsStep ==
    ASSUME SigInv, NEW c \in Child, ChildExits(c)
    PROVE  SigInv'
    <1>1. /\ child \in [Child -> ChildState] /\ child[c] \in {"forked", "running"}
          /\ child' = [child EXCEPT ![c] = IF child[c] = "forked" THEN "unknown zombie"
                                           ELSE "zombie"]
      BY DEF ChildExits, SigInv, SigTypes
    <1>2. UNCHANGED <<stack, fired, pipe, PipeFull, count>>
      BY DEF ChildExits
    <1>3. SigTypes'
      <2>1. child' \in [Child -> ChildState]
        BY <1>1 DEF ChildState
      <2>2. pending' \subseteq Signal /\ missed' \subseteq Signal
        BY DEF ChildExits, SigInv, SigTypes, Signal
      <2>. QED  BY <2>1, <2>2 DEF SigInv, SigTypes, ChildExits
    <1>4. Registers(stack', child')
      <2>1. PICK ch : ch = child'
        OBVIOUS
      <2>2. /\ ch[c] = "unknown zombie" => child[c] = "forked"
            /\ ch[c] \in {"unknown zombie", "zombie"}
            /\ \A d \in Child : d # c => ch[d] = child[d]
        BY <1>1, <2>1
      <2>3. Registers(stack, child)
        BY DEF SigInv
      <2>4. ASSUME NEW d \in Child
            PROVE  /\ ch[d] # "reaped"
                   /\ ch[d] \in {"forked", "unknown zombie"} =>
                         \E i \in 1..Len(stack) : stack[i].at = "register" /\ stack[i].arg = d
        <3>1. ch[d] # "reaped" /\ (ch[d] \in {"forked", "unknown zombie"} =>
                                      child[d] \in {"forked", "unknown zombie"})
          <4>1. child[d] # "reaped"
            BY <2>3, Zenon DEF Registers
          <4>2. CASE d = c
            BY <2>2, <4>2
          <4>3. CASE d # c
            <5>1. ch[d] = child[d]
              BY <2>2, <4>3, Zenon
            <5>. QED  BY <4>1, <5>1, Zenon
          <4>. QED  BY <4>2, <4>3
        <3>. QED  BY <2>3, <3>1, Zenon DEF Registers
      <2>5. Registers(stack, ch)
        BY <2>4, Zenon DEF Registers
      <2>. QED  BY <1>2, <2>1, <2>5
    <1>. QED  BY <1>2, <1>3, <1>4 DEF SigInv

(* When child_handler runs every child is registered, for below DoPipe     *)
(* there are only calls of tunnel_cleanup.                                 *)
LEMMA AllRegistered ==
    ASSUME SigInv, At("waitpid")
    PROVE  \A c \in Child : child[c] # "unknown zombie"
    <1>0. stack \in Seq(Frame) /\ Ordered(stack) /\ SigTypes
      BY DEF SigInv, SigTypes
    <1>1. stack # <<>> /\ stack[1].at = "waitpid" /\ stack[1].at \notin Async
      BY <1>0, AtFacts DEF Async
    <1>2. \A i \in 1..Len(stack) : stack[i].at # "register"
      <2>1. \A i \in 1..Len(stack) : i > 1 => stack[i].at = "cleanup"
        BY <1>0, <1>1, OnlyCleanupBelow
      <2>. QED  BY <1>1, <2>1
    <1>3. Registers(stack, child)
      BY DEF SigInv
    <1>. QED  BY <1>2, <1>3, Zenon DEF Registers

(* child_handler reaps a child. *)
LEMMA ReapStep ==
    ASSUME SigInv, At("waitpid"), NEW c \in Child,
           child[c] \in {"zombie", "unknown zombie"},
           child' = [child EXCEPT ![c] = IF @ = "zombie" THEN "handled" ELSE "reaped"],
           UNCHANGED <<stack, pending, fired, pipe, PipeFull, installed, tunnels, count,
                       exited, terms, missed>>
    PROVE  SigInv'
    <1>3. Registers(stack, child) /\ child \in [Child -> ChildState]
      BY DEF SigInv, SigTypes
    <1>4. child[c] # "unknown zombie"
      BY AllRegistered, Zenon
    <1>5. child' = [child EXCEPT ![c] = "handled"]
      BY <1>3, <1>4
    <1>6. SigTypes'
      <2>1. child' \in [Child -> ChildState]
        BY <1>3, <1>5 DEF ChildState
      <2>. QED  BY <2>1 DEF SigInv, SigTypes
    <1>7. Registers(stack', child')
      <2>1. PICK ch : ch = child'
        OBVIOUS
      <2>2. ch[c] = "handled" /\ \A d \in Child : d # c => ch[d] = child[d]
        BY <1>3, <1>5, <2>1
      <2>3. ch[c] # "reaped" /\ ch[c] \notin {"forked", "unknown zombie"}
        BY <2>2
      <2>4. ASSUME NEW d \in Child
            PROVE  /\ ch[d] # "reaped"
                   /\ ch[d] \in {"forked", "unknown zombie"} =>
                         \E i \in 1..Len(stack) : stack[i].at = "register" /\ stack[i].arg = d
        <3>1. CASE d = c
          BY <2>3, <3>1, Zenon
        <3>2. CASE d # c
          <4>1. ch[d] = child[d]
            BY <2>2, <3>2, Zenon
          <4>. QED  BY <1>3, <4>1, Zenon DEF Registers
        <3>. QED  BY <3>1, <3>2, Zenon
      <2>5. Registers(stack, ch)
        BY <2>4, Zenon DEF Registers
      <2>. QED  BY <2>1, <2>5
    <1>. QED  BY <1>6, <1>7 DEF SigInv

(* sighandler goes on to tunnel_cleanup, and has counted it. *)
LEMMA CleanupStep ==
    ASSUME SigInv, At("sighandler"), stack' = Goto("cleanup"), count' = count + 1,
           count' < MaxCount,
           UNCHANGED <<pending, fired, pipe, PipeFull, installed, child, tunnels, exited,
                       terms, missed>>
    PROVE  SigInv'
    <1>0. /\ stack \in Seq(Frame) /\ Ordered(stack) /\ PipeMatches(stack, pipe, PipeFull)
          /\ pipe \in Nat /\ PipeFull \in BOOLEAN /\ fired \in [Signal -> BOOLEAN]
          /\ SigTypes
      BY DEF SigInv, SigTypes
    <1>1. /\ stack # <<>> /\ stack[1] \in Frame /\ stack[1].at = "sighandler"
          /\ 1 \in 1..Len(stack)
          /\ Goto("cleanup") = <<[at |-> "cleanup", arg |-> stack[1].arg]>> \o Tail(stack)
      BY <1>0, AtFacts
    <1>2. stack[1].arg = "SIGTERM"
      BY <1>1 DEF SigInv, StartsWithTerm
    <1>3. PICK f : f = [at |-> "cleanup", arg |-> "SIGTERM"]
      OBVIOUS
    <1>4. f \in Frame /\ f.at = "cleanup"
      BY <1>3, FrameIntro
    <1>5. stack' = <<f>> \o Tail(stack)
      BY <1>1, <1>2, <1>3
    <1>6. count \in Nat /\ Paid(stack, count) /\ StartsWithTerm(stack) /\ Registers(stack, child)
      BY SignalsAssumption DEF SigInv, SigTypes
    <1>7. stack[1].at \notin Async /\ f.at \notin Async
      BY <1>1, <1>4 DEF Async
    <1>8. stack' \in Seq(Frame)
      BY <1>0, <1>1, <1>4, <1>5, Replaced
    <1>9. Ordered(stack')
      BY <1>0, <1>1, <1>4, <1>5, <1>7, ReplacedOrder
    <1>10. Paid(stack', count + 1)
      BY <1>0, <1>1, <1>4, <1>5, <1>6, <1>7, CleanupPaid
    <1>11. StartsWithTerm(stack')
      BY <1>0, <1>1, <1>4, <1>5, <1>6, ReplacedTerm
    <1>12. Registers(stack', child)
      BY <1>0, <1>1, <1>4, <1>5, <1>6, ReplacedRegisters
    <1>13. PipeMatches(stack', pipe, PipeFull)
      <2>1. f.at \in Neutral /\ stack[1].at \in Neutral
        BY <1>1, <1>4 DEF Neutral, Scans
      <2>. QED  BY <1>0, <1>1, <1>4, <1>5, <2>1, PipeReplaced, SMTT(30)
    <1>14. SigTypes'
      BY <1>6, <1>8, SignalsAssumption DEF SigInv, SigTypes
    <1>15. count' # 0
      BY <1>6
    <1>. QED  BY <1>9, <1>10, <1>11, <1>12, <1>13, <1>14, <1>15, FromParts

(* What leaves the stack, the pipe and the children alone. *)
LEMMA OtherStep ==
    ASSUME SigInv, SigTypes', UNCHANGED <<stack, fired, pipe, PipeFull, child>>,
           count' = count \/ (count' = count + 1)
    PROVE  SigInv'
    <1>1. count \in Nat /\ Paid(stack, count) /\ stack \in Seq(Frame)
      BY SignalsAssumption DEF SigInv, SigTypes
    <1>2. Paid(stack', count')
      <2>1. ASSUME NEW i \in 1..Len(stack), stack[i].at = "cleanup"
            PROVE  Len(stack) - i <= count' + MaxNested
        <3>1. Len(stack) - i <= count + MaxNested
          BY <1>1, <2>1 DEF Paid
        <3>. QED  BY <1>1, <3>1, SignalsAssumption
      <2>. QED  BY <2>1 DEF Paid
    <1>3. count' = 0 => count = 0
      BY <1>1
    <1>. QED  BY <1>2, <1>3 DEF SigInv

-----------------------------------------------------------------------------
(* The initial state has it: nothing runs and nothing has fired. *)
LEMMA SigInit ==
    ASSUME Init
    PROVE  SigInv
    <1>1. stack = <<>> /\ Len(stack) = 0 /\ stack \in Seq(Frame)
      BY DEF Init
    <1>2. SigTypes
      <2>1. installed \in BOOLEAN
        BY SignalsAssumption, Zenon DEF Init
      <2>2. fired \in [Signal -> BOOLEAN] /\ child \in [Child -> ChildState]
        BY DEF Init, ChildState
      <2>3. /\ pending \subseteq Signal /\ missed \subseteq Signal
            /\ PipeFull \in BOOLEAN /\ exited \in BOOLEAN
        BY Zenon DEF Init
      <2>4. pipe = 0 /\ tunnels = Tunnels /\ count = 0 /\ terms = 0
        BY DEF Init
      <2>5. Tunnels \in Nat /\ MaxCount \in Nat \ {0} /\ MaxTerm \in Nat
        BY SignalsAssumption
      <2>6. /\ pipe \in Nat /\ tunnels \in 0 .. Tunnels /\ count \in 0 .. MaxCount
            /\ terms \in 0 .. MaxTerm /\ count < MaxCount
        BY <2>4, <2>5
      <2>. QED  BY <1>1, <2>1, <2>2, <2>3, <2>6 DEF SigTypes
    <1>3. Ordered(stack) /\ Paid(stack, count) /\ StartsWithTerm(stack)
      BY <1>1 DEF Ordered, Paid, StartsWithTerm
    <1>4. PipeMatches(stack, pipe, PipeFull)
      BY <1>1 DEF PipeMatches, Fulls, Writes, Is, Init
    <1>5. Heard(stack, pipe, fired)
      BY <1>1 DEF Heard, Init
    <1>6. Registers(stack, child)
      BY DEF Registers, Init
    <1>. QED  BY <1>2, <1>3, <1>4, <1>5, <1>6 DEF SigInv

(* Every step keeps it. *)
LEMMA SigNext ==
    ASSUME SigInv, [Next]_vars
    PROVE  SigInv'
    <1>1. CASE UNCHANGED vars
      BY <1>1 DEF vars, SigInv, SigTypes
    <1>2. CASE SendTerm
      <2>1. SigTypes'
        <3>1. pending' \subseteq Signal
          BY <1>2 DEF SendTerm, SigInv, SigTypes, Signal
        <3>2. terms' \in 0 .. MaxTerm
          BY <1>2, SignalsAssumption DEF SendTerm, SigInv, SigTypes
        <3>. QED  BY <1>2, <3>1, <3>2 DEF SendTerm, SigInv, SigTypes
      <2>. QED  BY <1>2, <2>1, OtherStep DEF SendTerm
    <1>3. ASSUME NEW c \in Child, ChildExits(c) PROVE SigInv'
      BY <1>3, ChildExitsStep
    <1>4. ASSUME NEW c \in Child, fork_pppd(c) PROVE SigInv'
      BY <1>4, ForkStep
    <1>5. ASSUME NEW s \in Signal, Deliver(s) PROVE SigInv'
      BY <1>5, DeliverStep
    <1>6. CASE sig_handler
      <2>0. SigTypes
        BY DEF SigInv
      <2>1. CASE At("mark")
        <3>1. /\ fired' = [fired EXCEPT ![Top.arg] = TRUE]
              /\ missed' = IF Forgets(Top.arg) THEN missed \cup {Top.arg} ELSE missed
              /\ stack' = Goto("test") /\ UNCHANGED <<pipe, PipeFull>>
          BY <1>6, <2>1 DEF sig_handler, At
        <3>2. Top.arg \in Signal
          BY <2>0, <2>1, AtFacts, FrameFacts DEF Async
        <3>3. missed' \subseteq Signal
          BY <2>0, <3>1, <3>2 DEF SigTypes
        <3>. QED  BY <1>6, <2>1, <3>1, <3>3, MarkStep DEF sig_handler
      <2>2. CASE At("test") /\ PipeFull
        BY <1>6, <2>2, FoundFullStep DEF sig_handler, At
      <2>3. CASE At("test") /\ ~PipeFull
        BY <1>6, <2>3, ToWriteStep DEF sig_handler, At
      <2>4. CASE At("write")
        BY <1>6, <2>4, WriteStep DEF sig_handler, At
      <2>5. CASE At("full")
        BY <1>6, <2>5, FlagStep DEF sig_handler, At
      <2>. QED  BY <1>6, <2>1, <2>2, <2>3, <2>4, <2>5 DEF sig_handler
    <1>7. CASE DoPipe
      BY <1>7, DoPipeStep
    <1>8. CASE empty_Pipe
      <2>1. CASE At("read")
        BY <1>8, <2>1, ReadStep DEF empty_Pipe, At
      <2>2. CASE At("clear")
        BY <1>8, <2>2, ClearStep DEF empty_Pipe, At
      <2>. QED  BY <1>8, <2>1, <2>2 DEF empty_Pipe
    <1>9. CASE fire_handler
      <2>1. CASE ~fired[Top.arg]
        BY <1>9, <2>1, ScanPastStep DEF fire_handler
      <2>2. CASE fired[Top.arg] /\ Top.arg = "SIGTERM"
        BY <1>9, <2>2, ScanTermStep DEF fire_handler
      <2>3. CASE fired[Top.arg] /\ Top.arg # "SIGTERM"
        BY <1>9, <2>3, ScanChldStep DEF fire_handler
      <2>. QED  BY <2>1, <2>2, <2>3
    <1>10. CASE reset_fired
      <2>1. CASE Top.arg = "SIGTERM"
        BY <1>10, <2>1, ResetTermStep DEF reset_fired
      <2>2. CASE Top.arg # "SIGTERM"
        <3>1. Top.arg \in Signal
          BY <1>10, AtFacts, FrameFacts DEF reset_fired, SigInv, Scans
        <3>2. Top.arg = "SIGCHLD"
          BY <2>2, <3>1 DEF Signal
        <3>. QED  BY <1>10, <2>2, <3>2, ResetChldStep DEF reset_fired
      <2>. QED  BY <2>1, <2>2
    <1>11. CASE child_handler
      <2>1. ASSUME NEW c \in Child, child[c] \in {"zombie", "unknown zombie"},
                   child' = [child EXCEPT ![c] =
                                IF @ = "zombie" THEN "handled" ELSE "reaped"],
                   UNCHANGED stack
            PROVE  SigInv'
        BY <1>11, <2>1, ReapStep DEF child_handler
      <2>2. CASE stack' = Goto("reset") /\ UNCHANGED child
        BY <1>11, <2>2, WaitedStep DEF child_handler
      <2>. QED  BY <1>11, <2>1, <2>2 DEF child_handler
    <1>12. CASE ~exited /\ sighandler
      <2>1. CASE count' < MaxCount
        BY <1>12, <2>1, CleanupStep DEF sighandler
      <2>2. CASE ~(count' < MaxCount)
        <3>1. SigTypes'
          BY <1>12, <2>2, SignalsAssumption DEF sighandler, SigInv, SigTypes
        <3>. QED  BY <1>12, <2>2, <3>1, OtherStep DEF sighandler
      <2>. QED  BY <2>1, <2>2
    <1>13. CASE Event_HandleChildExit
      BY <1>13, RegisterStep
    <1>14. CASE cleanup_done
      <2>1. SigTypes'
        BY <1>14 DEF cleanup_done, SigInv, SigTypes
      <2>. QED  BY <1>14, <2>1, OtherStep DEF cleanup_done
    <1>15. CASE cmd_exit
      BY <1>15, CmdExitStep
    <1>16. CASE tunnel_free
      <2>1. SigTypes'
        BY <1>16, SignalsAssumption DEF tunnel_free, SigInv, SigTypes
      <2>. QED  BY <1>16, <2>1, OtherStep DEF tunnel_free
    <1>. QED  BY <1>1, <1>2, <1>3, <1>4, <1>5, <1>6, <1>7, <1>8, <1>9, <1>10, <1>11,
                 <1>12, <1>13, <1>14, <1>15, <1>16 DEF Next, Running

(* Every reachable state has the inductive invariant. *)
THEOREM SignalsSafety == Spec => []SigInv
    <1>1. Init => SigInv
      BY SigInit
    <1>2. SigInv /\ [Next]_vars => SigInv'
      BY SigNext
    <1>. QED  BY <1>1, <1>2, PTL DEF Spec

(* The types hold; in particular the stack never has more calls than the   *)
(* SIGTERMs that sighandler counts and the nested exit commands, and four  *)
(* more, and the pipe never more than two bytes, so that the write of      *)
(* sig_handler cannot block.                                               *)
THEOREM SignalsTypesOK == Spec => []SignalsTypeOK
    <1>1. ASSUME SigInv PROVE SignalsTypeOK
      <2>1. stack \in Seq(Frame) /\ Ordered(stack) /\ Paid(stack, count) /\ SigTypes
            /\ count \in Nat /\ count <= MaxCount
        BY <1>1, SignalsAssumption DEF SigInv, SigTypes
      <2>2. Len(stack) <= MaxNested + MaxCount + 4
        <3>1. CASE Len(stack) <= 3
          BY <2>1, <3>1, SignalsAssumption
        <3>2. CASE Len(stack) >= 4
          <4>1. 4 \in 1..Len(stack) /\ Len(stack) \in Nat
            BY <2>1, <3>2
          <4>2. stack[4].at = "cleanup"
            BY <2>1, <4>1, TwoHandlers
          <4>3. Len(stack) - 4 <= count + MaxNested
            BY <2>1, <4>1, <4>2 DEF Paid
          <4>4. MaxCount \in Nat /\ MaxNested \in Nat
            BY SignalsAssumption
          <4>. QED  BY <2>1, <4>1, <4>3, <4>4
        <3>. QED  BY <2>1, <3>1, <3>2
      <2>3. pipe <= 2
        <3>1. pipe + Writes(stack) <= 2 /\ pipe \in Nat
          BY <1>1 DEF SigInv, SigTypes, PipeMatches
        <3>2. Writes(stack) \in Nat
          BY DEF Writes, Is
        <3>. QED  BY <3>1, <3>2
      <2>. QED  BY <2>1, <2>2, <2>3 DEF SigTypes, SignalsTypeOK, ChildState
    <1>. QED  BY <1>1, SignalsSafety, PTL

-----------------------------------------------------------------------------
(* A signal that is not dealt with is on its way. *)

Has(s, w, a) == \E i \in 1..Len(s) : s[i].at = w /\ s[i].arg = a

(* It has yet to be delivered, its handler has begun, or it is marked and  *)
(* DoPipe is not about to reset it; or it came where it is forgotten.      *)
OnItsWay(sig) ==
    \/ sig \in missed \cup pending
    \/ Has(stack, "mark", sig)
    \/ fired[sig] /\ ~Has(stack, "reset", sig)

Due(sig) == Unhandled(sig) /\ (sig = "SIGTERM" => count = 0)

Announced ==
    /\ \A sig \in Signal : Due(sig) => OnItsWay(sig)
    /\ ~Has(stack, "waitpid", "SIGTERM")

(* The frames of a stack are its first and the others. *)
LEMMA PushedHas ==
    ASSUME NEW u \in Seq(Frame), NEW f \in Frame, NEW t, t = <<f>> \o u
    PROVE  \A w, a : Has(t, w, a) <=> (f.at = w /\ f.arg = a) \/ Has(u, w, a)
    <1>1. /\ t[1] = f /\ 1 \in 1..Len(t)
          /\ \A i \in 1..Len(t) : i > 1 => t[i] = u[i - 1] /\ i - 1 \in 1..Len(u)
          /\ \A i \in 1..Len(u) : t[i + 1] = u[i] /\ i + 1 \in 1..Len(t)
      BY Pushed
    <1>. TAKE w, a
    <1>2. ASSUME Has(t, w, a) PROVE (f.at = w /\ f.arg = a) \/ Has(u, w, a)
      <2>1. PICK i \in 1..Len(t) : t[i].at = w /\ t[i].arg = a
        BY <1>2 DEF Has
      <2>2. CASE i = 1
        BY <1>1, <2>1, <2>2
      <2>3. CASE i > 1
        BY <1>1, <2>1, <2>3 DEF Has
      <2>. QED  BY <2>2, <2>3
    <1>3. ASSUME f.at = w /\ f.arg = a PROVE Has(t, w, a)
      BY <1>1, <1>3 DEF Has
    <1>4. ASSUME Has(u, w, a) PROVE Has(t, w, a)
      BY <1>1, <1>4 DEF Has
    <1>. QED  BY <1>2, <1>3, <1>4

(* The same of the stack whose first call goes on or returns. *)
LEMMA TopHas ==
    ASSUME SigTypes, NEW w, At(w)
    PROVE  /\ Tail(stack) \in Seq(Frame) /\ stack[1] \in Frame /\ stack[1].at = w
           /\ Top = stack[1]
           /\ \A v, a : Has(stack, v, a) <=>
                           (w = v /\ stack[1].arg = a) \/ Has(Tail(stack), v, a)
           /\ \A v : Goto(v) = <<[at |-> v, arg |-> stack[1].arg]>> \o Tail(stack)
    <1>1. /\ stack \in Seq(Frame) /\ stack # <<>> /\ stack[1] \in Frame
          /\ stack[1].at = w /\ Top = stack[1]
          /\ \A v : Goto(v) = <<[at |-> v, arg |-> stack[1].arg]>> \o Tail(stack)
      BY AtFacts
    <1>2. Tail(stack) \in Seq(Frame) /\ stack = <<stack[1]>> \o Tail(stack)
      BY <1>1
    <1>3. \A v, a : Has(stack, v, a) <=>
              (stack[1].at = v /\ stack[1].arg = a) \/ Has(Tail(stack), v, a)
      BY <1>1, <1>2, PushedHas
    <1>. QED  BY <1>1, <1>2, <1>3

(* What the first call becomes. *)
LEMMA GotoHas ==
    ASSUME SigTypes, NEW w \in Async \cup Scans, At(w), NEW v \in Async \cup Scans,
           stack' = Goto(v)
    PROVE  \A x, a : Has(stack', x, a) <=>
                        (v = x /\ stack[1].arg = a) \/ Has(Tail(stack), x, a)
    <1>1. /\ Tail(stack) \in Seq(Frame) /\ stack[1] \in Frame /\ stack[1].at = w
          /\ Goto(v) = <<[at |-> v, arg |-> stack[1].arg]>> \o Tail(stack)
      BY TopHas
    <1>2. PICK f : f = [at |-> v, arg |-> stack[1].arg]
      OBVIOUS
    <1>3. f \in Frame /\ f.at = v /\ f.arg = stack[1].arg
      BY <1>1, <1>2, FrameFacts, FrameIntro
    <1>4. stack' = <<f>> \o Tail(stack)
      BY <1>1, <1>2
    <1>. QED  BY <1>1, <1>3, <1>4, PushedHas

(* DoPipe has looked at a signal and will reset it. *)
LEMMA ForgetsHas ==
    ASSUME SigTypes, NEW s \in Signal
    PROVE  Forgets(s) <=> Has(stack, "reset", s)
    <1>1. stack \in Seq(Frame) /\ DOMAIN stack = 1..Len(stack)
      BY DEF SigTypes
    <1>2. \A f \in Frame : f = [at |-> "reset", arg |-> s] <=> f.at = "reset" /\ f.arg = s
      BY DEF Frame
    <1>3. \A i \in 1..Len(stack) : stack[i] \in Frame
      BY <1>1
    <1>. QED  BY <1>1, <1>2, <1>3, Zenon DEF Forgets, Has

(* The initial state: nobody has been sent a signal. *)
LEMMA AnnouncedInit ==
    ASSUME Init
    PROVE  Announced
    <1>1. \A sig \in Signal : ~Unhandled(sig)
      BY DEF Init, Unhandled, Signal
    <1>2. Len(stack) = 0
      BY DEF Init
    <1>. QED  BY <1>1, <1>2 DEF Announced, Due, Has

(* A step that leaves the stack and fired alone, and forgets no signal,    *)
(* takes no signal off its way.                                            *)
LEMMA AnnouncedStill ==
    ASSUME Announced, UNCHANGED <<stack, fired>>,
           missed \cup pending \subseteq missed' \cup pending',
           \A sig \in Signal : Due(sig)' => Due(sig) \/ sig \in missed' \cup pending'
    PROVE  Announced'
    BY Zenon DEF Announced, OnItsWay, Has

(* A step of the call at the top that sends nobody a signal. *)
LEMMA AnnouncedGoto ==
    ASSUME SigTypes, Announced,
           NEW w \in Async \cup Scans, At(w), NEW v \in Async \cup Scans,
           stack' = Goto(v), w # "mark", v # "reset", v = "waitpid" => Top.arg = "SIGCHLD",
           UNCHANGED <<fired, pending, missed, child, terms, count>>
    PROVE  Announced'
    <1>1. /\ \A x, a : Has(stack, x, a) <=>
                          (w = x /\ stack[1].arg = a) \/ Has(Tail(stack), x, a)
          /\ Top = stack[1]
      BY TopHas
    <1>2. \A x, a : Has(stack', x, a) <=>
                       (v = x /\ stack[1].arg = a) \/ Has(Tail(stack), x, a)
      BY GotoHas
    <1>3. ~Has(stack', "waitpid", "SIGTERM")
      BY <1>1, <1>2 DEF Announced
    <1>4. ASSUME NEW sig \in Signal, Due(sig)' PROVE OnItsWay(sig)'
      <2>1. Due(sig)
        BY <1>4 DEF Due, Unhandled
      <2>2. OnItsWay(sig)
        BY <2>1 DEF Announced
      <2>3. Has(stack, "mark", sig) => Has(stack', "mark", sig)
        BY <1>1, <1>2
      <2>4. Has(stack', "reset", sig) => Has(stack, "reset", sig)
        BY <1>1, <1>2
      <2>. QED  BY <2>2, <2>3, <2>4 DEF OnItsWay
    <1>. QED  BY <1>3, <1>4 DEF Announced

(* A call of the event loop or of a child's callback returns, or one is    *)
(* made.                                                                   *)
LEMMA AnnouncedPop ==
    ASSUME SigTypes, Announced, NEW w, At(w), w # "mark", stack' = Tail(stack),
           UNCHANGED <<fired, pending, missed, terms, count>>,
           \A sig \in Signal : Due(sig)' => Due(sig)
    PROVE  Announced'
    <1>1. \A x, a : Has(stack, x, a) <=>
                       (w = x /\ stack[1].arg = a) \/ Has(Tail(stack), x, a)
      BY TopHas
    <1>2. ~Has(stack', "waitpid", "SIGTERM")
      BY <1>1 DEF Announced
    <1>3. ASSUME NEW sig \in Signal, Due(sig)' PROVE OnItsWay(sig)'
      <2>1. OnItsWay(sig)
        BY <1>3 DEF Announced
      <2>. QED  BY <1>1, <2>1 DEF OnItsWay
    <1>. QED  BY <1>2, <1>3 DEF Announced

LEMMA AnnouncedPush ==
    ASSUME SigTypes, Announced, NEW f \in Frame, stack' = <<f>> \o stack,
           f.at \notin {"reset", "waitpid"},
           UNCHANGED <<fired, missed, terms, count>>,
           \A sig \in pending : sig \in pending' \/ (f.at = "mark" /\ f.arg = sig),
           \A sig \in Signal : Due(sig)' => Due(sig)
    PROVE  Announced'
    <1>1. \A x, a : Has(stack', x, a) <=> (f.at = x /\ f.arg = a) \/ Has(stack, x, a)
      BY PushedHas DEF SigTypes
    <1>2. ~Has(stack', "waitpid", "SIGTERM")
      BY <1>1 DEF Announced
    <1>3. ASSUME NEW sig \in Signal, Due(sig)' PROVE OnItsWay(sig)'
      <2>1. OnItsWay(sig)
        BY <1>3 DEF Announced
      <2>. QED  BY <1>1, <2>1 DEF OnItsWay
    <1>. QED  BY <1>2, <1>3 DEF Announced

(* sighandler calls tunnel_cleanup. *)
LEMMA CleanupHas ==
    ASSUME SigInv, At("sighandler"), stack' = Goto("cleanup")
    PROVE  \A x, a : x \notin {"cleanup", "sighandler"} =>
                        (Has(stack', x, a) <=> Has(stack, x, a))
    <1>1. /\ Tail(stack) \in Seq(Frame) /\ stack[1] \in Frame /\ stack # <<>>
          /\ \A x, a : Has(stack, x, a) <=>
                          ("sighandler" = x /\ stack[1].arg = a) \/ Has(Tail(stack), x, a)
          /\ Goto("cleanup") = <<[at |-> "cleanup", arg |-> stack[1].arg]>> \o Tail(stack)
      BY TopHas, AtFacts DEF SigInv
    <1>2. stack[1].arg = "SIGTERM"
      BY AtFacts DEF SigInv, StartsWithTerm
    <1>3. PICK f : f = [at |-> "cleanup", arg |-> "SIGTERM"]
      OBVIOUS
    <1>4. f \in Frame /\ f.at = "cleanup" /\ stack' = <<f>> \o Tail(stack)
      BY <1>1, <1>2, <1>3, FrameIntro
    <1>5. \A x, a : Has(stack', x, a) <=> (f.at = x /\ f.arg = a) \/ Has(Tail(stack), x, a)
      BY <1>1, <1>4, PushedHas
    <1>. QED  BY <1>1, <1>4, <1>5

(* The frame of Event_HandleChildExit is that of a child which is not in   *)
(* the table.                                                              *)
Entering ==
    \A c \in Child : Has(stack, "register", c) => child[c] \in {"forked", "unknown zombie"}

LEMMA EnteringKept ==
    ASSUME Entering, child' = child,
           \A c \in Child : Has(stack', "register", c) => Has(stack, "register", c)
    PROVE  Entering'
    BY Zenon DEF Entering

LEMMA EnteringNext ==
    ASSUME SigInv, Entering, [Next]_vars
    PROVE  Entering'
    <1>0. SigTypes
      BY DEF SigInv
    <1>1. ASSUME stack' = stack, child' = child PROVE Entering'
      BY <1>1, EnteringKept
    <1>2. ASSUME NEW w, At(w), stack' = Tail(stack), child' = child PROVE Entering'
      <2>1. \A c : Has(stack', "register", c) => Has(stack, "register", c)
        BY <1>0, <1>2, TopHas
      <2>. QED  BY <1>2, <2>1, EnteringKept
    <1>3. ASSUME NEW w \in Async \cup Scans, At(w), NEW v \in Async \cup Scans,
                 stack' = Goto(v), child' = child
          PROVE  Entering'
      <2>1. v # "register"
        BY DEF Async, Scans
      <2>2. \A c : Has(stack', "register", c) => Has(stack, "register", c)
        BY <1>0, <1>3, <2>1, TopHas, GotoHas
      <2>. QED  BY <1>3, <2>2, EnteringKept
    <1>4. ASSUME NEW f \in Frame, f.at # "register", child' = child, NEW u \in Seq(Frame),
                 \A c : Has(u, "register", c) => Has(stack, "register", c),
                 stack' = <<f>> \o u
          PROVE  Entering'
      <2>1. \A x, a : Has(stack', x, a) <=> (f.at = x /\ f.arg = a) \/ Has(u, x, a)
        BY <1>4, PushedHas
      <2>. QED  BY <1>4, <2>1, EnteringKept
    <1>5. CASE UNCHANGED vars \/ SendTerm \/ cleanup_done \/ tunnel_free
      BY <1>1, <1>5 DEF vars, SendTerm, cleanup_done, tunnel_free
    <1>6. ASSUME NEW c \in Child, ChildExits(c) PROVE Entering'
      <2>1. /\ stack' = stack /\ child \in [Child -> ChildState]
            /\ child' = [child EXCEPT ![c] =
                            IF child[c] = "forked" THEN "unknown zombie" ELSE "zombie"]
            /\ child[c] \in {"forked", "running"}
        BY <1>0, <1>6 DEF ChildExits, SigTypes
      <2>2. \A d \in Child : child[d] \in {"forked", "unknown zombie"} =>
                                child'[d] \in {"forked", "unknown zombie"}
        BY <2>1
      <2>. QED  BY <2>1, <2>2, Zenon DEF Entering
    <1>7. ASSUME NEW c \in Child, fork_pppd(c) PROVE Entering'
      <2>1. PICK f : f = [at |-> "register", arg |-> c]
        OBVIOUS
      <2>2. f \in Frame /\ f.arg = c /\ stack \in Seq(Frame) /\ stack' = <<f>> \o stack
        BY <1>0, <1>7, <2>1, FrameIntro DEF fork_pppd, Call, SigTypes
      <2>3. \A x, a : Has(stack', x, a) <=> (f.at = x /\ f.arg = a) \/ Has(stack, x, a)
        BY <2>2, PushedHas
      <2>4. /\ child'[c] = "forked"
            /\ \A d \in Child : d # c => child'[d] = child[d]
        BY <1>0, <1>7 DEF fork_pppd, SigTypes
      <2>. QED  BY <2>2, <2>3, <2>4, Zenon DEF Entering
    <1>8. ASSUME NEW s \in Signal, Deliver(s) PROVE Entering'
      <2>1. PICK f : f = [at |-> "mark", arg |-> s]
        OBVIOUS
      <2>2. f \in Frame /\ f.at # "register" /\ stack' = <<f>> \o stack /\ child' = child
        BY <1>8, <2>1, FrameIntro DEF Deliver, Call, Async
      <2>. QED  BY <1>0, <1>4, <2>2 DEF SigTypes
    <1>9. CASE sig_handler
      <2>1. /\ child' = child
            /\ \/ At("mark") /\ stack' = Goto("test")
               \/ At("test") /\ (stack' = Goto("write") \/ stack' = Tail(stack))
               \/ At("write") /\ stack' = Goto("full")
               \/ At("full") /\ stack' = Tail(stack)
        BY <1>9 DEF sig_handler, Return
      <2>. QED  BY <1>2, <1>3, <2>1 DEF Async
    <1>10. CASE DoPipe
      <2>1. PICK f : f = [at |-> "read", arg |-> "SIGTERM"]
        OBVIOUS
      <2>2. f \in Frame /\ f.at # "register" /\ stack' = <<f>> \o stack /\ child' = child
        BY <1>10, <2>1, FrameIntro DEF DoPipe, Call, Scans, Signal
      <2>. QED  BY <1>0, <1>4, <2>2 DEF SigTypes
    <1>11. CASE empty_Pipe \/ fire_handler
      <2>1. /\ child' = child
            /\ \E w, v \in Scans : At(w) /\ stack' = Goto(v)
        BY <1>11 DEF empty_Pipe, fire_handler, Scans
      <2>. QED  BY <1>3, <2>1
    <1>12. CASE reset_fired
      <2>1. At("reset") /\ child' = child
        BY <1>12 DEF reset_fired
      <2>2. CASE stack' = Tail(stack)
        BY <1>2, <2>1, <2>2
      <2>3. CASE stack' = <<[at |-> "scan", arg |-> "SIGCHLD"]>> \o Tail(stack)
        <3>1. PICK f : f = [at |-> "scan", arg |-> "SIGCHLD"]
          OBVIOUS
        <3>2. f \in Frame /\ f.at # "register" /\ stack' = <<f>> \o Tail(stack)
          BY <2>3, <3>1, FrameIntro DEF Scans, Signal
        <3>3. /\ Tail(stack) \in Seq(Frame)
              /\ \A c : Has(Tail(stack), "register", c) => Has(stack, "register", c)
          BY <1>0, <2>1, TopHas
        <3>. QED  BY <1>4, <2>1, <3>2, <3>3
      <2>. QED  BY <1>12, <2>2, <2>3 DEF reset_fired, Return
    <1>13. CASE child_handler
      <2>1. At("waitpid")
        BY <1>13 DEF child_handler
      <2>2. CASE stack' = Goto("reset") /\ child' = child
        BY <1>3, <2>1, <2>2 DEF Scans
      <2>3. CASE stack' = stack
        <3>1. \A i \in 1..Len(stack) : stack[i].at # "register"
          <4>1. stack \in Seq(Frame) /\ stack # <<>> /\ stack[1].at = "waitpid"
            BY <1>0, <2>1, AtFacts
          <4>2. \A i \in 1..Len(stack) : i > 1 => stack[i].at = "cleanup"
            BY <4>1, OnlyCleanupBelow DEF SigInv, Async
          <4>. QED  BY <4>1, <4>2
        <3>. QED  BY <2>3, <3>1 DEF Entering, Has
      <2>. QED  BY <1>13, <2>2, <2>3 DEF child_handler
    <1>14. CASE sighandler
      <2>1. At("sighandler") /\ child' = child /\ (stack' = Goto("cleanup") \/ stack' = stack)
        BY <1>14 DEF sighandler
      <2>2. CASE stack' = Goto("cleanup")
        BY <2>1, <2>2, CleanupHas, EnteringKept
      <2>. QED  BY <1>1, <2>1, <2>2
    <1>15. CASE Event_HandleChildExit
      <2>1. /\ stack \in Seq(Frame) /\ stack # <<>> /\ stack[1] \in Frame
            /\ stack[1].at = "register" /\ Top = stack[1] /\ stack' = Tail(stack)
        BY <1>0, <1>15, AtFacts DEF Event_HandleChildExit, Return
      <2>2. \A i \in 1..Len(stack) : i > 1 => stack[i].at = "cleanup"
        BY <2>1, OnlyCleanupBelow DEF SigInv, Async
      <2>3. \A i \in 1..Len(stack') : stack'[i].at # "register"
        BY <2>1, <2>2, Popped
      <2>. QED  BY <2>3 DEF Entering, Has
    <1>16. CASE cmd_exit
      <2>1. PICK f : f = [at |-> "cleanup", arg |-> "exit"]
        OBVIOUS
      <2>2. f \in Frame /\ f.at # "register" /\ stack' = <<f>> \o stack /\ child' = child
        BY <1>16, <2>1, FrameIntro DEF cmd_exit, Call
      <2>. QED  BY <1>0, <1>4, <2>2 DEF SigTypes
    <1>. QED  BY <1>5, <1>6, <1>7, <1>8, <1>9, <1>10, <1>11, <1>12, <1>13, <1>14, <1>15,
                 <1>16 DEF Next, Running

(* Every step keeps each signal that is not dealt with on its way. *)
LEMMA AnnouncedNext ==
    ASSUME SigInv, Entering, Announced, [Next]_vars
    PROVE  Announced'
    <1>0. SigTypes
      BY DEF SigInv
    <1>1. CASE UNCHANGED vars
      BY <1>1, AnnouncedStill DEF vars, Due, Unhandled
    <1>2. CASE SendTerm
      <2>1. missed \cup pending \subseteq missed' \cup pending'
        BY <1>2 DEF SendTerm
      <2>2. ASSUME NEW sig \in Signal, Due(sig)'
            PROVE  Due(sig) \/ sig \in missed' \cup pending'
        BY <1>2, <2>2 DEF SendTerm, Due, Unhandled
      <2>. QED  BY <1>2, <2>1, <2>2, AnnouncedStill DEF SendTerm
    <1>3. ASSUME NEW c \in Child, ChildExits(c) PROVE Announced'
      <2>1. missed \cup pending \subseteq missed' \cup pending'
        BY <1>3 DEF ChildExits
      <2>2. "SIGCHLD" \in missed' \cup pending'
        BY <1>3 DEF ChildExits
      <2>3. ASSUME NEW sig \in Signal, Due(sig)'
            PROVE  Due(sig) \/ sig \in missed' \cup pending'
        <3>1. CASE sig = "SIGTERM"
          BY <1>3, <2>3, <3>1 DEF ChildExits, Due, Unhandled
        <3>2. CASE sig = "SIGCHLD"
          BY <2>2, <3>2
        <3>. QED  BY <3>1, <3>2 DEF Signal
      <2>. QED  BY <1>3, <2>1, <2>3, AnnouncedStill DEF ChildExits
    <1>4. ASSUME NEW c \in Child, fork_pppd(c) PROVE Announced'
      <2>1. PICK f : f = [at |-> "register", arg |-> c]
        OBVIOUS
      <2>2. f \in Frame /\ f.at = "register" /\ stack' = <<f>> \o stack
        BY <1>4, <2>1, FrameIntro DEF fork_pppd, Call
      <2>3. ASSUME NEW sig \in Signal, Due(sig)' PROVE Due(sig)
        <3>1. \A d \in Child : child'[d] \in {"zombie", "unknown zombie"} =>
                                  child[d] \in {"zombie", "unknown zombie"}
          BY <1>0, <1>4 DEF fork_pppd, SigTypes
        <3>. QED  BY <1>4, <2>3, <3>1 DEF fork_pppd, Due, Unhandled
      <2>4. UNCHANGED <<fired, missed, terms, count, pending>>
        BY <1>4 DEF fork_pppd
      <2>. QED  BY <1>0, <2>2, <2>3, <2>4, AnnouncedPush
    <1>5. ASSUME NEW s \in Signal, Deliver(s) PROVE Announced'
      <2>1. PICK f : f = [at |-> "mark", arg |-> s]
        OBVIOUS
      <2>2. f \in Frame /\ f.at = "mark" /\ f.arg = s /\ stack' = <<f>> \o stack
        BY <1>5, <2>1, FrameIntro DEF Deliver, Call, Async
      <2>3. \A sig \in pending : sig \in pending' \/ (f.at = "mark" /\ f.arg = sig)
        BY <1>5, <2>2 DEF Deliver
      <2>4. \A sig \in Signal : Due(sig)' => Due(sig)
        BY <1>5 DEF Deliver, Due, Unhandled
      <2>5. UNCHANGED <<fired, missed, terms, count>>
        BY <1>5 DEF Deliver
      <2>. QED  BY <1>0, <2>2, <2>3, <2>4, <2>5, AnnouncedPush
    <1>6. CASE sig_handler
      <2>0. UNCHANGED <<pending, child, terms, count>>
        BY <1>6 DEF sig_handler
      <2>1. CASE At("mark")
        <3>1. /\ fired' = [fired EXCEPT ![Top.arg] = TRUE]
              /\ missed' = IF Forgets(Top.arg) THEN missed \cup {Top.arg} ELSE missed
              /\ stack' = Goto("test")
          BY <1>6, <2>1 DEF sig_handler, At
        <3>2. PICK a : a = Top.arg
          OBVIOUS
        <3>3. a \in Signal /\ a = stack[1].arg
          BY <1>0, <2>1, <3>2, AtFacts, FrameFacts DEF Async
        <3>4. Forgets(a) <=> Has(stack, "reset", a)
          BY <1>0, <3>3, ForgetsHas
        <3>5. \A x, b : Has(stack, x, b) <=> ("mark" = x /\ a = b) \/ Has(Tail(stack), x, b)
          BY <1>0, <2>1, <3>3, TopHas
        <3>6. \A x, b : Has(stack', x, b) <=> ("test" = x /\ a = b) \/ Has(Tail(stack), x, b)
          BY <1>0, <2>1, <3>1, <3>3, GotoHas DEF Async
        <3>7. \A b \in Signal : fired'[b] <=> (fired[b] \/ b = a)
          BY <1>0, <3>1, <3>2, <3>3, Zenon DEF SigTypes
        <3>8. \A b \in Signal : b \in missed' <=> b \in missed \/ (b = a /\ Forgets(a))
          BY <3>1, <3>2
        <3>9. ~Has(stack', "waitpid", "SIGTERM")
          BY <3>5, <3>6 DEF Announced
        <3>10. ASSUME NEW sig \in Signal, Due(sig)' PROVE OnItsWay(sig)'
          <4>1. OnItsWay(sig)
            BY <2>0, <3>10 DEF Announced, Due, Unhandled
          <4>2. CASE sig = a
            BY <3>4, <3>5, <3>6, <3>7, <3>8, <4>2 DEF OnItsWay
          <4>3. CASE sig # a
            <5>1. /\ Has(stack, "mark", sig) => Has(stack', "mark", sig)
                  /\ Has(stack', "reset", sig) => Has(stack, "reset", sig)
              BY <3>5, <3>6, <4>3
            <5>. QED  BY <2>0, <3>7, <3>8, <4>1, <4>3, <5>1 DEF OnItsWay
          <4>. QED  BY <4>2, <4>3
        <3>. QED  BY <3>9, <3>10 DEF Announced
      <2>2. CASE At("test") \/ At("write") \/ At("full")
        <3>1. UNCHANGED <<fired, missed>>
          BY <1>6, <2>2 DEF sig_handler, At
        <3>2. PICK w : w \in {"test", "write", "full"} /\ At(w)
          BY <2>2
        <3>3. \/ stack' = Goto("write") \/ stack' = Goto("full")
              \/ stack' = Tail(stack)
          BY <1>6, <2>2 DEF sig_handler, At, Return
        <3>4. CASE stack' = Tail(stack)
          <4>1. \A sig \in Signal : Due(sig)' => Due(sig)
            BY <2>0 DEF Due, Unhandled
          <4>. QED  BY <1>0, <2>0, <3>1, <3>2, <3>4, <4>1, AnnouncedPop
        <3>5. CASE stack' = Goto("write")
          BY <1>0, <2>0, <3>1, <3>2, <3>5, AnnouncedGoto DEF Async
        <3>6. CASE stack' = Goto("full")
          BY <1>0, <2>0, <3>1, <3>2, <3>6, AnnouncedGoto DEF Async
        <3>. QED  BY <3>3, <3>4, <3>5, <3>6
      <2>. QED  BY <1>6, <2>1, <2>2 DEF sig_handler
    <1>7. CASE DoPipe
      <2>1. PICK f : f = [at |-> "read", arg |-> "SIGTERM"]
        OBVIOUS
      <2>2. f \in Frame /\ f.at = "read" /\ stack' = <<f>> \o stack
        BY <1>7, <2>1, FrameIntro DEF DoPipe, Call, Scans, Signal
      <2>3. \A sig \in Signal : Due(sig)' => Due(sig)
        BY <1>7 DEF DoPipe, Due, Unhandled
      <2>4. UNCHANGED <<fired, missed, terms, count, pending>>
        BY <1>7 DEF DoPipe
      <2>. QED  BY <1>0, <2>2, <2>3, <2>4, AnnouncedPush
    <1>8. CASE empty_Pipe
      <2>1. UNCHANGED <<fired, pending, missed, child, terms, count>>
        BY <1>8 DEF empty_Pipe
      <2>2. CASE At("read")
        <3>1. stack' = Goto("clear")
          BY <1>8, <2>2 DEF empty_Pipe, At
        <3>. QED  BY <1>0, <2>1, <2>2, <3>1, AnnouncedGoto DEF Scans
      <2>3. CASE At("clear")
        <3>1. stack' = Goto("scan")
          BY <1>8, <2>3 DEF empty_Pipe, At
        <3>. QED  BY <1>0, <2>1, <2>3, <3>1, AnnouncedGoto DEF Scans
      <2>. QED  BY <1>8, <2>2, <2>3 DEF empty_Pipe
    <1>9. CASE fire_handler
      <2>1. /\ UNCHANGED <<fired, pending, missed, child, terms, count>>
            /\ At("scan")
        BY <1>9 DEF fire_handler
      <2>2. PICK a : a = Top.arg
        OBVIOUS
      <2>3. a \in Signal /\ a = stack[1].arg
        BY <1>0, <2>1, <2>2, AtFacts, FrameFacts DEF Scans
      <2>4. CASE ~fired[a]
        <3>1. stack' = Goto("reset")
          BY <1>9, <2>2, <2>4 DEF fire_handler
        <3>2. \A x, b : Has(stack, x, b) <=> ("scan" = x /\ a = b) \/ Has(Tail(stack), x, b)
          BY <1>0, <2>1, <2>3, TopHas
        <3>3. \A x, b : Has(stack', x, b) <=> ("reset" = x /\ a = b) \/ Has(Tail(stack), x, b)
          BY <1>0, <2>1, <2>3, <3>1, GotoHas DEF Scans
        <3>4. ~Has(stack', "waitpid", "SIGTERM")
          BY <3>2, <3>3 DEF Announced
        <3>5. ASSUME NEW sig \in Signal, Due(sig)' PROVE OnItsWay(sig)'
          <4>1. OnItsWay(sig)
            BY <2>1, <3>5 DEF Announced, Due, Unhandled
          <4>2. Has(stack, "mark", sig) => Has(stack', "mark", sig)
            BY <3>2, <3>3
          <4>3. Has(stack', "reset", sig) => Has(stack, "reset", sig) \/ sig = a
            BY <3>2, <3>3
          <4>. QED  BY <2>1, <2>4, <4>1, <4>2, <4>3 DEF OnItsWay
        <3>. QED  BY <3>4, <3>5 DEF Announced
      <2>5. CASE fired[a] /\ a = "SIGTERM"
        <3>1. stack' = Goto("sighandler")
          BY <1>9, <2>2, <2>5 DEF fire_handler
        <3>. QED  BY <1>0, <2>1, <3>1, AnnouncedGoto DEF Scans
      <2>6. CASE fired[a] /\ a = "SIGCHLD"
        <3>1. stack' = Goto("waitpid")
          BY <1>9, <2>2, <2>6 DEF fire_handler
        <3>. QED  BY <1>0, <2>1, <2>2, <2>6, <3>1, AnnouncedGoto DEF Scans
      <2>. QED  BY <2>3, <2>4, <2>5, <2>6 DEF Signal
    <1>10. CASE reset_fired
      <2>1. UNCHANGED <<pending, missed, child, terms, count>> /\ At("reset")
        BY <1>10 DEF reset_fired
      <2>2. PICK a : a = Top.arg
        OBVIOUS
      <2>3. a \in Signal /\ a = stack[1].arg
        BY <1>0, <2>1, <2>2, AtFacts, FrameFacts DEF Scans
      <2>4. \A x, b : Has(stack, x, b) <=> ("reset" = x /\ a = b) \/ Has(Tail(stack), x, b)
        BY <1>0, <2>1, <2>3, TopHas
      <2>5. \A x, b : x # "scan" => (Has(stack', x, b) <=> Has(Tail(stack), x, b))
        <3>1. CASE a = "SIGTERM"
          <4>1. PICK f : f = [at |-> "scan", arg |-> "SIGCHLD"]
            OBVIOUS
          <4>2. f \in Frame /\ f.at = "scan"
            BY <4>1, FrameIntro DEF Scans, Signal
          <4>3. stack' = <<f>> \o Tail(stack) /\ Tail(stack) \in Seq(Frame)
            BY <1>0, <1>10, <2>1, <2>2, <3>1, <4>1, TopHas DEF reset_fired
          <4>4. \A x, b : Has(stack', x, b) <=>
                             (f.at = x /\ f.arg = b) \/ Has(Tail(stack), x, b)
            BY <4>2, <4>3, PushedHas
          <4>. QED  BY <4>2, <4>4
        <3>2. CASE a # "SIGTERM"
          <4>1. stack' = Tail(stack)
            BY <1>10, <2>2, <3>2 DEF reset_fired, Return
          <4>. QED  BY <4>1
        <3>. QED  BY <3>1, <3>2
      <2>6. \A b \in Signal : b # a => (fired'[b] <=> fired[b])
        BY <1>0, <1>10, <2>2, <2>3, Zenon DEF reset_fired, SigTypes
      <2>7. ~Has(stack', "waitpid", "SIGTERM")
        BY <2>4, <2>5 DEF Announced
      <2>8. ASSUME NEW sig \in Signal, Due(sig)' PROVE OnItsWay(sig)'
        <3>1. OnItsWay(sig)
          BY <2>1, <2>8 DEF Announced, Due, Unhandled
        <3>2. /\ Has(stack, "mark", sig) => Has(stack', "mark", sig)
              /\ Has(stack', "reset", sig) => Has(stack, "reset", sig)
              /\ sig = a => Has(stack, "reset", sig)
          BY <2>4, <2>5
        <3>. QED  BY <2>1, <2>6, <3>1, <3>2 DEF OnItsWay
      <2>. QED  BY <2>7, <2>8 DEF Announced
    <1>11. CASE child_handler
      <2>1. UNCHANGED <<fired, pending, missed, terms, count>> /\ At("waitpid")
        BY <1>11 DEF child_handler
      <2>2. ASSUME NEW c \in Child, child[c] \in {"zombie", "unknown zombie"},
                   child' = [child EXCEPT ![c] =
                                IF @ = "zombie" THEN "handled" ELSE "reaped"],
                   UNCHANGED stack
            PROVE  Announced'
        <3>1. \A d \in Child : child'[d] \in {"zombie", "unknown zombie"} =>
                                  child[d] \in {"zombie", "unknown zombie"}
          BY <1>0, <2>2 DEF SigTypes
        <3>2. \A sig \in Signal : Due(sig)' => Due(sig)
          BY <2>1, <3>1 DEF Due, Unhandled
        <3>. QED  BY <2>1, <2>2, <3>2, AnnouncedStill
      <2>3. CASE /\ \A c \in Child : child[c] \notin {"zombie", "unknown zombie"}
                 /\ stack' = Goto("reset") /\ UNCHANGED child
        <3>1. PICK a : a = Top.arg
          OBVIOUS
        <3>2. a \in Signal /\ a = stack[1].arg
          BY <1>0, <2>1, <3>1, AtFacts, FrameFacts DEF Scans
        <3>3. \A x, b : Has(stack, x, b) <=>
                           ("waitpid" = x /\ a = b) \/ Has(Tail(stack), x, b)
          BY <1>0, <2>1, <3>2, TopHas
        <3>4. \A x, b : Has(stack', x, b) <=>
                           ("reset" = x /\ a = b) \/ Has(Tail(stack), x, b)
          BY <1>0, <2>1, <2>3, <3>2, GotoHas DEF Scans
        <3>5. a = "SIGCHLD"
          BY <3>2, <3>3 DEF Announced, Signal
        <3>6. ~Has(stack', "waitpid", "SIGTERM")
          BY <3>3, <3>4 DEF Announced
        <3>7. ASSUME NEW sig \in Signal, Due(sig)' PROVE OnItsWay(sig)'
          <4>1. sig # a
            BY <2>3, <3>5, <3>7 DEF Due, Unhandled
          <4>2. OnItsWay(sig)
            BY <2>1, <2>3, <3>7 DEF Announced, Due, Unhandled
          <4>3. /\ Has(stack, "mark", sig) => Has(stack', "mark", sig)
                /\ Has(stack', "reset", sig) => Has(stack, "reset", sig)
            BY <3>3, <3>4, <4>1
          <4>. QED  BY <2>1, <4>2, <4>3 DEF OnItsWay
        <3>. QED  BY <3>6, <3>7 DEF Announced
      <2>. QED  BY <1>11, <2>2, <2>3 DEF child_handler
    <1>12. CASE ~exited /\ sighandler
      <2>1. /\ UNCHANGED <<pending, fired, missed, child, terms>> /\ At("sighandler")
            /\ count' > 0 /\ (stack' = Goto("cleanup") \/ UNCHANGED stack)
        BY <1>0, <1>12 DEF sighandler, SigTypes
      <2>2. \A x, a : x \in {"mark", "reset", "waitpid"} =>
                         (Has(stack', x, a) <=> Has(stack, x, a))
        BY <2>1, CleanupHas
      <2>4. ASSUME NEW sig \in Signal, Due(sig)' PROVE OnItsWay(sig)'
        <3>1. sig = "SIGCHLD"
          BY <2>1, <2>4 DEF Due, Signal
        <3>2. OnItsWay(sig)
          BY <2>1, <2>4, <3>1 DEF Announced, Due, Unhandled
        <3>. QED  BY <2>1, <2>2, <3>2 DEF OnItsWay
      <2>. QED  BY <2>2, <2>4 DEF Announced
    <1>13. CASE Event_HandleChildExit
      <2>1. /\ UNCHANGED <<fired, pending, missed, terms, count>> /\ At("register")
            /\ stack' = Tail(stack)
        BY <1>13 DEF Event_HandleChildExit, Return
      <2>2. stack[1].arg \in Child /\ Top = stack[1] /\ Has(stack, "register", stack[1].arg)
        BY <1>0, <2>1, AtFacts, FrameFacts DEF Has
      <2>3. child[stack[1].arg] \in {"forked", "unknown zombie"}
        BY <2>2 DEF Entering
      <2>4. ASSUME NEW sig \in Signal, Due(sig)' PROVE Due(sig)
        <3>1. \A d \in Child : child'[d] \in {"zombie", "unknown zombie"} =>
                                  child[d] \in {"zombie", "unknown zombie"}
          BY <1>0, <1>13, <2>2, <2>3 DEF Event_HandleChildExit, SigTypes
        <3>. QED  BY <2>1, <2>4, <3>1 DEF Due, Unhandled
      <2>. QED  BY <1>0, <2>1, <2>4, AnnouncedPop
    <1>14. CASE cleanup_done
      <2>1. UNCHANGED <<stack, fired, missed, pending, child, terms, count>>
        BY <1>14 DEF cleanup_done
      <2>. QED  BY <2>1, AnnouncedStill DEF Due, Unhandled
    <1>15. CASE cmd_exit
      <2>1. PICK f : f = [at |-> "cleanup", arg |-> "exit"]
        OBVIOUS
      <2>2. f \in Frame /\ f.at = "cleanup" /\ stack' = <<f>> \o stack
        BY <1>15, <2>1, FrameIntro DEF cmd_exit, Call
      <2>3. \A sig \in Signal : Due(sig)' => Due(sig)
        BY <1>15 DEF cmd_exit, Due, Unhandled
      <2>4. UNCHANGED <<fired, missed, terms, count, pending>>
        BY <1>15 DEF cmd_exit
      <2>. QED  BY <1>0, <2>2, <2>3, <2>4, AnnouncedPush
    <1>16. CASE tunnel_free
      <2>1. UNCHANGED <<stack, fired, missed, pending, child, terms, count>>
        BY <1>16 DEF tunnel_free
      <2>. QED  BY <2>1, AnnouncedStill DEF Due, Unhandled
    <1>. QED  BY <1>1, <1>2, <1>3, <1>4, <1>5, <1>6, <1>7, <1>8, <1>9, <1>10, <1>11,
                 <1>12, <1>13, <1>14, <1>15, <1>16 DEF Next, Running

(* Every reachable state has both. *)
LEMMA SignalsAnnounced == Spec => [](Entering /\ Announced)
    <1>1. Init => Entering /\ Announced
      <2>1. ASSUME Init PROVE Entering
        BY <2>1 DEF Init, Entering, Has
      <2>. QED  BY <2>1, AnnouncedInit
    <1>2. SigInv /\ Entering /\ Announced /\ [Next]_vars => Entering' /\ Announced'
      BY EnteringNext, AnnouncedNext
    <1>. QED  BY <1>1, <1>2, SignalsSafety, PTL DEF Spec

(* DoPipe and sig_handler never lose the wake-up.  When the event loop     *)
(* waits in select and a handler would not write, there is a byte in the   *)
(* pipe; and, before sighandler has begun the shutdown, so there is when a *)
(* signal has fired, and when a SIGTERM or a child that has exited is not  *)
(* dealt with, unless its signal has yet to be delivered or came where it  *)
(* is forgotten.                                                           *)
THEOREM AlwaysWakesUp == Spec => []WakesUp
    <1>1. ASSUME SigInv, Announced, InSelect PROVE WakesUp
      <2>1. \A i \in 1..Len(stack) : stack[i].at = "cleanup"
        BY <1>1, SelectFrames
      <2>2. PipeFull => pipe > 0
        BY <1>1, <2>1 DEF SigInv, PipeMatches
      <2>3. ASSUME count = 0, NEW s \in Signal, fired[s] PROVE pipe > 0
        <3>1. Heard(stack, pipe, fired)
          BY <1>1, <2>3 DEF SigInv
        <3>2. \A i \in 1..Len(stack) : ~WillSee(stack[i], s)
          BY <2>1 DEF WillSee
        <3>. QED  BY <2>3, <3>1, <3>2 DEF Heard
      <2>4. ASSUME count = 0, NEW s \in Signal, Unhandled(s)
            PROVE  s \in pending \cup missed \/ pipe > 0
        <3>1. OnItsWay(s)
          BY <1>1, <2>4 DEF Announced, Due
        <3>2. ~Has(stack, "mark", s)
          BY <2>1 DEF Has
        <3>. QED  BY <2>3, <2>4, <3>1, <3>2 DEF OnItsWay
      <2>. QED  BY <2>2, <2>3, <2>4 DEF WakesUp
    <1>2. SigInv /\ Announced => WakesUp
      BY <1>1 DEF WakesUp
    <1>. QED  BY <1>2, SignalsSafety, SignalsAnnounced, PTL

(* fork and Event_HandleChildExit are one callback of the event loop, and  *)
(* child_handler is another: whenever child_handler reaps a child, its     *)
(* entry is in the table.                                                  *)
THEOREM NeverReapedUnknown == Spec => []NoneReapedUnknown
    <1>1. ASSUME SigInv PROVE NoneReapedUnknown
      BY <1>1, Zenon DEF SigInv, Registers, NoneReapedUnknown
    <1>. QED  BY <1>1, SignalsSafety, PTL
=============================================================================

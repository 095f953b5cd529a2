------------------------------- MODULE Signals -------------------------------
(***************************************************************************)
(* Signals and child processes: src/rp-l2tp/libevent/event_sig.c, the      *)
(* signal handler of main.c and the fork in handlers/sync-pppd.c.          *)
(*                                                                         *)
(* There is one thread.  Its stack holds the calls that a signal can       *)
(* interrupt (DoPipe, establish_session after fork) and the asynchronous   *)
(* sig_handler on top of them; with no such call, or in the event loop of  *)
(* tunnel_cleanup, it waits in select.  Each frame says what it does next. *)
(* SIGINT is handled as SIGTERM is and left out.                           *)
(***************************************************************************)
EXTENDS Integers, Sequences, FiniteSets

CONSTANTS Child,        \* the pppd processes
          First,        \* no child has been registered before
          Tunnels,      \* tunnels at the start
          MaxCount,     \* the count at which sighandler gives up (5)
          MaxTerm,      \* bound: SIGTERMs sent
          MaxNested     \* bound: calls of tunnel_cleanup within which an exit
                        \* command is read

ASSUME SignalsAssumption ==
    /\ IsFiniteSet(Child) /\ First \in BOOLEAN
    /\ Tunnels \in Nat /\ MaxCount \in Nat \ {0}
    /\ MaxTerm \in Nat /\ MaxNested \in Nat

Signal == {"SIGTERM", "SIGCHLD"}

VARIABLES stack,      \* innermost call first
          pending,    \* signals the kernel has yet to deliver
          fired,      \* SignalHandlers[sig].fired
          pipe,       \* bytes in Pipe
          PipeFull,
          installed,  \* whether SIGCHLD has its handler
          child,      \* the processes and their entries in child_process_table
          tunnels,    \* entries of tunnels_by_my_id
          count,      \* count of sighandler
          exited,
          terms,      \* history: SIGTERMs sent
          missed      \* history: signals that came where they are forgotten

vars == <<stack, pending, fired, pipe, PipeFull, installed, child, tunnels,
          count, exited, terms, missed>>

Top == Head(stack)
At(where) == stack # <<>> /\ Top.at = where
Call(where, arg) == <<[at |-> where, arg |-> arg]>> \o stack
Goto(where) == <<[Top EXCEPT !.at = where]>> \o Tail(stack)
Return == Tail(stack)

(* tunnel_cleanup waits as long as there is a tunnel *)
InSelect == ~exited /\ (stack = <<>> \/ (At("cleanup") /\ tunnels > 0))

Init ==
    /\ stack = <<>> /\ pending = {} /\ missed = {}
    /\ fired = [s \in Signal |-> FALSE]
    /\ pipe = 0 /\ PipeFull = FALSE
    /\ installed = ~First
    /\ child = [c \in Child |-> "none"]
    /\ tunnels = Tunnels /\ count = 0 /\ exited = FALSE /\ terms = 0

(***************************************************************************)
(* The kernel.                                                             *)
(***************************************************************************)
SendTerm ==
    /\ ~exited /\ terms < MaxTerm
    /\ terms' = terms + 1
    /\ pending' = pending \cup {"SIGTERM"}
    /\ UNCHANGED <<stack, fired, pipe, PipeFull, installed, child, tunnels, count,
                   exited, missed>>

(* without a handler SIGCHLD is ignored *)
ChildExits(c) ==
    /\ child[c] \in {"forked", "running"}
    /\ child' = [child EXCEPT ![c] =
                    IF @ = "forked" THEN "unknown zombie" ELSE "zombie"]
    /\ IF installed THEN pending' = pending \cup {"SIGCHLD"} /\ UNCHANGED missed
                    ELSE missed' = missed \cup {"SIGCHLD"} /\ UNCHANGED pending
    /\ UNCHANGED <<stack, fired, pipe, PipeFull, installed, tunnels, count, exited,
                   terms>>

(* a signal is blocked while its own handler runs, the other is not *)
InHandler(s) ==
    \E i \in DOMAIN stack :
        stack[i].at \in {"mark", "test", "write", "full"} /\ stack[i].arg = s

Deliver(s) ==
    /\ ~exited /\ s \in pending /\ ~InHandler(s)
    /\ pending' = pending \ {s}
    /\ stack' = Call("mark", s)
    /\ UNCHANGED <<fired, pipe, PipeFull, installed, child, tunnels, count, exited,
                   terms, missed>>

(***************************************************************************)
(* sig_handler, one step for each access to what it shares with DoPipe.    *)
(***************************************************************************)
(* DoPipe has tested fired, and run the handler, and will now reset it *)
Forgets(s) == \E i \in DOMAIN stack : stack[i] = [at |-> "reset", arg |-> s]

(* mutant: children are reaped in the asynchronous handler *)
AsyncReap ==
    /\ At("mark")
    /\ fired' = [fired EXCEPT ![Top.arg] = TRUE]
    /\ child' = [c \in Child |-> CASE child[c] = "zombie" -> "handled"
                                [] child[c] = "unknown zombie" -> "reaped"
                                [] OTHER -> child[c]]
    /\ pipe' = IF PipeFull THEN pipe ELSE pipe + 1
    /\ PipeFull' = TRUE
    /\ stack' = Return
    /\ UNCHANGED <<pending, installed, tunnels, count, exited, terms, missed>>

sig_handler ==
    /\ \/ /\ At("mark")
          /\ fired' = [fired EXCEPT ![Top.arg] = TRUE]
          /\ missed' = IF Forgets(Top.arg) THEN missed \cup {Top.arg} ELSE missed
          /\ stack' = Goto("test")
          /\ UNCHANGED <<pipe, PipeFull>>
       \/ /\ At("test")
          /\ stack' = IF PipeFull THEN Return ELSE Goto("write")
          /\ UNCHANGED <<pipe, PipeFull, fired, missed>>
       \/ /\ At("write")
          /\ pipe' = pipe + 1
          /\ stack' = Goto("full")
          /\ UNCHANGED <<PipeFull, fired, missed>>
       \/ /\ At("full")
          /\ PipeFull' = TRUE
          /\ stack' = Return
          /\ UNCHANGED <<pipe, fired, missed>>
    /\ UNCHANGED <<pending, installed, child, tunnels, count, exited, terms>>

(***************************************************************************)
(* DoPipe, called by the event loop: it empties the pipe, then scans the   *)
(* signals in the order of their numbers, SIGTERM before SIGCHLD.          *)
(***************************************************************************)
DoPipe ==
    /\ InSelect /\ pipe > 0
    /\ stack' = Call("read", "SIGTERM")
    /\ UNCHANGED <<pending, fired, pipe, PipeFull, installed, child, tunnels, count,
                   exited, terms, missed>>

(* mutant: PipeFull is cleared before the pipe is read *)
ReadLast ==
    /\ \/ /\ At("read")
          /\ PipeFull' = FALSE
          /\ stack' = Goto("clear")
          /\ UNCHANGED pipe
       \/ /\ At("clear")
          /\ pipe' = 0
          /\ stack' = Goto("scan")
          /\ UNCHANGED PipeFull
    /\ UNCHANGED <<pending, fired, installed, child, tunnels, count, exited, terms,
                   missed>>

empty_Pipe ==
    /\ \/ /\ At("read")
          /\ pipe' = 0
          /\ stack' = Goto("clear")
          /\ UNCHANGED PipeFull
       \/ /\ At("clear")
          /\ PipeFull' = FALSE
          /\ stack' = Goto("scan")
          /\ UNCHANGED pipe
    /\ UNCHANGED <<pending, fired, installed, child, tunnels, count, exited, terms,
                   missed>>

(* a signal that has fired is handled, by sighandler or child_handler *)
fire_handler ==
    /\ At("scan")
    /\ stack' = IF ~fired[Top.arg] THEN Goto("reset")
                ELSE Goto(IF Top.arg = "SIGTERM" THEN "sighandler" ELSE "waitpid")
    /\ UNCHANGED <<pending, fired, pipe, PipeFull, installed, child, tunnels, count,
                   exited, terms, missed>>

(* mutant: all signals are reset, the ones already scanned too *)
ResetAll ==
    /\ At("reset")
    /\ fired' = [s \in Signal |-> FALSE]
    /\ stack' = IF Top.arg = "SIGTERM"
                THEN <<[at |-> "scan", arg |-> "SIGCHLD"]>> \o Tail(stack)
                ELSE Return
    /\ UNCHANGED <<pending, pipe, PipeFull, installed, child, tunnels, count, exited,
                   terms, missed>>

reset_fired ==
    /\ At("reset")
    /\ fired' = [fired EXCEPT ![Top.arg] = FALSE]
    /\ stack' = IF Top.arg = "SIGTERM"
                THEN <<[at |-> "scan", arg |-> "SIGCHLD"]>> \o Tail(stack)
                ELSE Return
    /\ UNCHANGED <<pending, pipe, PipeFull, installed, child, tunnels, count, exited,
                   terms, missed>>

(* mutant: one child for each signal *)
ReapOne ==
    /\ At("waitpid")
    /\ \/ \E c \in Child :
             /\ child[c] \in {"zombie", "unknown zombie"}
             /\ child' = [child EXCEPT ![c] =
                             IF @ = "zombie" THEN "handled" ELSE "reaped"]
             /\ stack' = Goto("reset")
       \/ /\ \A c \in Child : child[c] \notin {"zombie", "unknown zombie"}
          /\ stack' = Goto("reset")
          /\ UNCHANGED child
    /\ UNCHANGED <<pending, fired, pipe, PipeFull, installed, tunnels, count, exited,
                   terms, missed>>

(* waitpid until there is no zombie left; the handler is called for a      *)
(* process that is in the table                                            *)
child_handler ==
    /\ At("waitpid")
    /\ \/ \E c \in Child :
             /\ child[c] \in {"zombie", "unknown zombie"}
             /\ child' = [child EXCEPT ![c] =
                             IF @ = "zombie" THEN "handled" ELSE "reaped"]
             /\ UNCHANGED stack
       \/ /\ \A c \in Child : child[c] \notin {"zombie", "unknown zombie"}
          /\ stack' = Goto("reset")
          /\ UNCHANGED child
    /\ UNCHANGED <<pending, fired, pipe, PipeFull, installed, tunnels, count, exited,
                   terms, missed>>

(* mutant: it never gives up *)
NeverGivesUp ==
    /\ At("sighandler")
    /\ count' = count + 1
    /\ stack' = Goto("cleanup")
    /\ UNCHANGED <<pending, fired, pipe, PipeFull, installed, child, tunnels, exited,
                   terms, missed>>

(* sighandler of main.c: l2tp_cleanup runs an event loop of its own and    *)
(* does not return                                                         *)
sighandler ==
    /\ At("sighandler")
    /\ count' = count + 1
    /\ IF count' < MaxCount
       THEN stack' = Goto("cleanup") /\ UNCHANGED exited
       ELSE exited' = TRUE /\ UNCHANGED stack
    /\ UNCHANGED <<pending, fired, pipe, PipeFull, installed, child, tunnels, terms,
                   missed>>

(***************************************************************************)
(* The rest of the event loop.                                             *)
(***************************************************************************)
(* establish_session: fork, and then Event_HandleChildExit *)
fork_pppd(c) ==
    /\ InSelect /\ child[c] = "none"
    /\ child' = [child EXCEPT ![c] = "forked"]
    /\ stack' = Call("register", c)
    /\ UNCHANGED <<pending, fired, pipe, PipeFull, installed, tunnels, count, exited,
                   terms, missed>>

Event_HandleChildExit ==
    /\ At("register")
    /\ installed' = TRUE
    /\ child' = [child EXCEPT ![Top.arg] =
                    IF @ = "forked" THEN "running" ELSE "zombie"]
    /\ stack' = Return
    /\ UNCHANGED <<pending, fired, pipe, PipeFull, tunnels, count, exited, terms,
                   missed>>

(* In select the stack holds only calls of tunnel_cleanup. *)
cmd_exit ==
    /\ InSelect /\ Len(stack) <= MaxNested
    /\ stack' = Call("cleanup", "exit")
    /\ UNCHANGED <<pending, fired, pipe, PipeFull, installed, child, tunnels, count,
                   exited, terms, missed>>

(* a tunnel is freed *)
tunnel_free ==
    /\ InSelect /\ tunnels > 0
    /\ tunnels' = tunnels - 1
    /\ UNCHANGED <<stack, pending, fired, pipe, PipeFull, installed, child, count,
                   exited, terms, missed>>

(* the loop of tunnel_cleanup ends, and with it the program *)
cleanup_done ==
    /\ At("cleanup") /\ tunnels = 0
    /\ exited' = TRUE
    /\ UNCHANGED <<stack, pending, fired, pipe, PipeFull, installed, child, tunnels,
                   count, terms, missed>>

Running ==
    /\ ~exited
    /\ \/ sig_handler \/ DoPipe \/ empty_Pipe \/ fire_handler \/ reset_fired
       \/ child_handler \/ sighandler \/ Event_HandleChildExit \/ cleanup_done

Next ==
    \/ SendTerm
    \/ \E c \in Child : ChildExits(c) \/ fork_pppd(c)
    \/ \E s \in Signal : Deliver(s)
    \/ Running
    \/ cmd_exit \/ tunnel_free

Spec == Init /\ [][Next]_vars

(* The thread goes on, and the kernel delivers what it can deliver. *)
FairSpec == Spec /\ WF_vars(Running) /\ \A s \in Signal : WF_vars(Deliver(s))

-----------------------------------------------------------------------------
Frame == [at : {"mark", "test", "write", "full"}, arg : Signal]
   \cup [at : {"read", "clear", "scan", "reset", "waitpid", "sighandler"}, arg : Signal]
   \cup [at : {"cleanup"}, arg : {"SIGTERM", "exit"}]
   \cup [at : {"register"}, arg : Child]

(* Type correctness. *)
SignalsTypeOK ==
    /\ stack \in Seq(Frame) /\ Len(stack) <= MaxNested + MaxCount + 4
    /\ pending \subseteq Signal /\ missed \subseteq Signal
    /\ fired \in [Signal -> BOOLEAN]
    /\ pipe \in Nat /\ pipe <= 2 /\ PipeFull \in BOOLEAN /\ installed \in BOOLEAN
    /\ child \in [Child -> {"none", "forked", "running", "unknown zombie", "zombie",
                            "handled", "reaped"}]
    /\ tunnels \in 0 .. Tunnels /\ count \in 0 .. MaxCount
    /\ exited \in BOOLEAN /\ terms \in 0 .. MaxTerm

(* What a signal is sent for, and not dealt with yet. *)
Unhandled(s) == IF s = "SIGTERM" THEN terms > 0
                ELSE \E c \in Child : child[c] \in {"zombie", "unknown zombie"}

(* The event loop always hears of a signal.  When it waits in select and   *)
(* the next signal would not be written to the pipe, or a signal has fired *)
(* (before a SIGTERM is handled: sighandler leaves fired as it is), there  *)
(* is a byte in the pipe; and so there is for a SIGTERM or for a child     *)
(* that has exited, unless its signal has yet to be delivered, or came     *)
(* where it is forgotten.  sig_handler and DoPipe share PipeFull, the pipe *)
(* and fired without blocking signals; DoPipe must read before it clears   *)
(* the flag.                                                               *)
WakesUp ==
    InSelect =>
        /\ PipeFull \/ (count = 0 /\ \E s \in Signal : fired[s]) => pipe > 0
        /\ count = 0 => \A s \in Signal :
                           Unhandled(s) => s \in pending \cup missed \/ pipe > 0

(* No child is reaped before its entry is in the table, where its exit     *)
(* would go unnoticed: fork and Event_HandleChildExit are one callback.    *)
NoneReapedUnknown == \A c \in Child : child[c] # "reaped"

(* What Event_HandleChildExit promises, when a child exits its handler is  *)
(* called, it keeps except in two places: the child exits before the       *)
(* handler of SIGCHLD is installed, or the signal comes between DoPipe's   *)
(* last look and its reset of fired.                                       *)
ChildExitHandledUnlessMissed ==
    \A c \in Child : child[c] = "zombie" ~>
        (child[c] = "handled" \/ count > 0 \/ exited \/ "SIGCHLD" \in missed)

(* SIGTERM begins the shutdown, unless it comes in that same place. *)
TermHandledUnlessMissed ==
    terms > 0 ~> (count > 0 \/ exited \/ "SIGTERM" \in missed)
=============================================================================

------------------------------ MODULE EventLoop ------------------------------
(***************************************************************************)
(* The event selector of src/rp-l2tp/libevent/event.c.                     *)
(*                                                                         *)
(* A callback may do anything with the selector: add, change and delete    *)
(* handlers (its own too), destroy the selector, and run the loop again    *)
(* (sighandler and cmd_exit do).  The state is always that of a callback,  *)
(* the one of the innermost walk of the handler list, or of the caller     *)
(* outside the loop; between two callbacks nothing else can run.           *)
(* Allocation failures, bad arguments and errors of select, after which no *)
(* handler is called, leave the selector as it is and are left out.        *)
(***************************************************************************)
EXTENDS Integers, Sequences, FiniteSets, SequencesExt

CONSTANTS Handler,     \* memory for EventHandlers
          Fd,          \* file descriptors
          IoFlags,     \* what they are watched for: "READABLE", "WRITEABLE"
          Free,        \* memory that is not allocated
          MaxTime,     \* bound: the clock
          MaxNest      \* bound: calls of Event_HandleEvent inside each other

ASSUME EventLoopAssumption ==
    /\ IsFiniteSet(Handler) /\ Handler # {} /\ IoFlags \subseteq {"READABLE", "WRITEABLE"}
    /\ MaxTime \in Nat /\ MaxNest \in Nat \ {0}

VARIABLES handlers,         \* the list, its head first
          eh,               \* the EventHandlers
          opsPending, destroyPending,
          destroyed,        \* the selector has been freed
          stack,            \* the walks in progress, the innermost last
          clock

vars == <<handlers, eh, opsPending, destroyPending, destroyed, stack, clock>>

TimerBits == {"TIMER", "TIMEOUT"}
NoFd == -1
Uninitialized == -1
Time == 0..MaxTime

ASSUME FdAssumption == NoFd \notin Fd

(* calls, a history, counts the callbacks of a one-shot timer up to two. *)
EventHandlers ==
    [fd : Fd \cup {NoFd}, flags : SUBSET (IoFlags \cup TimerBits \cup {"DELETED"}),
     tmout : Time, calls : 0..2]

ASSUME FreeAssumption == Free \notin EventHandlers

(* at is the handler whose callback runs, ready and now what select and    *)
(* gettimeofday left; watched, a history, the handlers select looked at.   *)
Walks == [at : Handler, ready : SUBSET (Fd \X IoFlags),
          now : Time \cup {Uninitialized}, watched : SUBSET Handler]

nestLevel == Len(stack)
Listed == ToSet(handlers)
Deleted(h) == "DELETED" \in eh[h].flags
Timed(h) == eh[h].flags \cap TimerBits # {}
Watched == {h \in Listed : ~Deleted(h)}

Event_CreateSelector ==
    /\ handlers = <<>> /\ eh = [h \in Handler |-> Free]
    /\ opsPending = FALSE /\ destroyPending = FALSE /\ destroyed = FALSE
    /\ stack = <<>> /\ clock = 0

(***************************************************************************)
(* Adding, changing and deleting handlers, from a callback or outside.     *)
(***************************************************************************)

(* mutant: new handlers go to the end *)
AtTheEnd(h) == Append(handlers, h)

Linked(h) == <<h>> \o handlers

Add(fd, flags, tmout) ==
    /\ ~destroyed
    /\ \E h \in Handler :
        /\ eh[h] = Free
        /\ eh' = [eh EXCEPT ![h] = [fd |-> fd, flags |-> flags,
                                    tmout |-> tmout, calls |-> 0]]
        /\ handlers' = Linked(h)
    /\ UNCHANGED <<opsPending, destroyPending, destroyed, stack, clock>>

Event_AddHandler ==
    \E fd \in Fd, io \in SUBSET IoFlags \ {{}} : Add(fd, io, 0)

Event_AddHandlerWithTimeout ==
    \E fd \in Fd, io \in SUBSET IoFlags \ {{}}, t \in clock..MaxTime :
        Add(fd, io \cup {"TIMEOUT"}, t)

Event_AddTimerHandler ==
    \E t \in clock..MaxTime : Add(NoFd, {"TIMER"}, t)

Event_ChangeTimeout ==
    /\ ~destroyed
    /\ \E h \in Listed, t \in clock..MaxTime : eh' = [eh EXCEPT ![h].tmout = t]
    /\ UNCHANGED <<handlers, opsPending, destroyPending, destroyed, stack, clock>>

(* the list without the handlers of gone, the others in their order *)
Without(gone) ==
    LET kept[i \in 0..Len(handlers)] ==
            IF i = 0 THEN <<>>
            ELSE IF handlers[i] \in gone THEN kept[i - 1]
            ELSE Append(kept[i - 1], handlers[i])
    IN  kept[Len(handlers)]

DestroyHandlers(gone) ==
    /\ handlers' = Without(gone)
    /\ eh' = [h \in Handler |-> IF h \in gone THEN Free ELSE eh[h]]

(* mutant: deferred in nested loops only *)
DeferWhenDeep == nestLevel > 1

MustDefer == nestLevel > 0

Event_DelHandler ==
    /\ ~destroyed
    /\ \E h \in Listed :
        \/ /\ MustDefer
           /\ eh' = [eh EXCEPT ![h].flags = @ \cup {"DELETED"}]
           /\ opsPending' = TRUE
           /\ UNCHANGED handlers
        \/ /\ ~MustDefer
           /\ DestroyHandlers({h})
           /\ UNCHANGED opsPending
    /\ UNCHANGED <<destroyPending, destroyed, stack, clock>>

(* mutant: the handlers are not freed with the selector *)
FreeSelectorOnly == destroyed' = TRUE /\ handlers' = <<>> /\ UNCHANGED eh

DestroySelector ==
    DestroyHandlers(Listed) /\ destroyed' = TRUE

Event_DestroySelector ==
    /\ ~destroyed
    /\ \/ /\ nestLevel > 0
          /\ destroyPending' = TRUE /\ opsPending' = TRUE
          /\ UNCHANGED <<handlers, eh, destroyed>>
       \/ /\ nestLevel = 0
          /\ DestroySelector
          /\ UNCHANGED <<destroyPending, opsPending>>
    /\ UNCHANGED <<stack, clock>>

(***************************************************************************)
(* Event_HandleEvent.                                                      *)
(***************************************************************************)

DoPendingChanges ==
    /\ opsPending' = FALSE
    /\ IF destroyPending
       THEN DestroySelector
       ELSE DestroyHandlers({h \in Listed : Deleted(h)}) /\ UNCHANGED destroyed

(* What a walk finds when it comes to h. *)
PastDue(h, walk) == Timed(h) /\ eh[h].tmout <= walk.now
IsReady(h, walk) == \E flag \in eh[h].flags : <<eh[h].fd, flag>> \in walk.ready

(* mutant: no test of DELETED *)
CalledIfDeleted(h, walk) == IsReady(h, walk) \/ PastDue(h, walk)

IsCalled(h, walk) == ~Deleted(h) /\ (IsReady(h, walk) \/ PastDue(h, walk))

(* A one-shot timer is deleted before its callback runs. *)
Fires(h, walk) == "TIMER" \in eh[h].flags /\ PastDue(h, walk)
Counted(n) == IF n < 2 THEN n + 1 ELSE n

(* mutant: left for the callback to delete *)
NotDeletedYet(h) ==
    eh' = [eh EXCEPT ![h].calls = Counted(@)] /\ UNCHANGED opsPending

(* mutant: opsPending is not set *)
DeletedQuietly(h) ==
    /\ eh' = [eh EXCEPT ![h].flags = @ \cup {"DELETED"}, ![h].calls = Counted(@)]
    /\ UNCHANGED opsPending

MarkFired(h) ==
    /\ eh' = [eh EXCEPT ![h].flags = @ \cup {"DELETED"}, ![h].calls = Counted(@)]
    /\ opsPending' = TRUE

(* The walk on top of walks goes on at the i-th handler: either it comes   *)
(* to a handler to call, or to the end, and Event_HandleEvent returns.     *)
Walk(walks, i) ==
    LET walk == Last(walks)
        called == {j \in i..Len(handlers) : IsCalled(handlers[j], walk)}
        first == handlers[CHOOSE j \in called : \A k \in called : j <= k]
    IN  \/ /\ called # {}
           /\ stack' = [walks EXCEPT ![Len(walks)].at = first]
           /\ \/ Fires(first, walk) /\ MarkFired(first)
              \/ ~Fires(first, walk) /\ UNCHANGED <<eh, opsPending>>
           /\ UNCHANGED <<handlers, destroyed>>
        \/ /\ called = {}
           /\ stack' = Front(walks)
           /\ \/ Len(walks) = 1 /\ opsPending /\ DoPendingChanges
              \/ /\ Len(walks) > 1 \/ ~opsPending
                 /\ UNCHANGED <<handlers, eh, opsPending, destroyed>>

(* The callback returns. *)
Return ==
    /\ stack # <<>>
    /\ \E i \in DOMAIN handlers :
        handlers[i] = Last(stack).at /\ Walk(stack, i + 1)
    /\ UNCHANGED <<destroyPending, clock>>

foundTimeoutEvent == \E h \in Watched : Timed(h)

(* mutant: select is given a timeout only if there is no descriptor *)
TimedOutIfNoFd ==
    \/ Watched = {}
    \/ /\ \A h \in Watched : eh[h].fd = NoFd
       /\ \E h \in Watched : Timed(h) /\ eh[h].tmout <= clock

(* select does not wait, or its timeout, the earliest of all, has passed. *)
TimedOut == \/ Watched = {}
            \/ \E h \in Watched : Timed(h) /\ eh[h].tmout <= clock

FdSets == UNION {{eh[h].fd} \X (eh[h].flags \cap IoFlags) : h \in Watched}

CanEnter == ~destroyed /\ nestLevel < MaxNest

Event_HandleEvent ==
    /\ CanEnter
    /\ \E ready \in SUBSET FdSets :
        /\ ready # {} \/ TimedOut
        /\ Walk(Append(stack, [at |-> CHOOSE h \in Handler : TRUE,
                               ready |-> ready,
                               now |-> IF foundTimeoutEvent THEN clock ELSE Uninitialized,
                               watched |-> Watched]), 1)
    /\ UNCHANGED <<destroyPending, clock>>

Tick == clock < MaxTime /\ clock' = clock + 1
        /\ UNCHANGED <<handlers, eh, opsPending, destroyPending, destroyed, stack>>

Next ==
    \/ Event_AddHandler \/ Event_AddHandlerWithTimeout \/ Event_AddTimerHandler
    \/ Event_ChangeTimeout \/ Event_DelHandler \/ Event_DestroySelector
    \/ Event_HandleEvent \/ Return \/ Tick

Spec == Event_CreateSelector /\ [][Next]_vars

(* Time passes, a callback returns (or runs the loop again), and the main  *)
(* loop comes back from select once a timeout has passed.  That a          *)
(* descriptor ever becomes ready is not assumed.                           *)
Fairness ==
    /\ WF_vars(Tick) /\ WF_vars(Return)
    /\ WF_vars(stack = <<>> /\ TimedOut /\ Event_HandleEvent)

FairSpec == Spec /\ Fairness

(***************************************************************************)
(* Properties.                                                             *)
(***************************************************************************)

(* The fields of the selector, its handlers and the walks have their       *)
(* types; no handler is listed twice, and the listed ones are allocated.   *)
EventTypeOK ==
    /\ handlers \in Seq(Handler) /\ IsInjective(handlers)
    /\ eh \in [Handler -> EventHandlers \cup {Free}]
    /\ Listed = {h \in Handler : eh[h] # Free}
    /\ opsPending \in BOOLEAN /\ destroyPending \in BOOLEAN
    /\ destroyed \in BOOLEAN /\ clock \in Time
    /\ stack \in Seq(Walks)

(* Memory: while Event_HandleEvent walks the list, neither the selector    *)
(* nor the handler it stands on is freed, whatever the callbacks and the   *)
(* loops they run delete or destroy.                                       *)
NoWalkOnFreed ==
    /\ stack # <<>> => ~destroyed
    /\ \A k \in DOMAIN stack : eh[stack[k].at] # Free

(* "Timer events are only called once": whatever loops its callback runs   *)
(* and however long it takes.                                              *)
TimersFireOnce ==
    \A h \in Listed : "TIMER" \in eh[h].flags => eh[h].calls <= 1

(* No deletion is forgotten: outside the loop no deleted handler is left   *)
(* in the list, and no destruction is outstanding.                         *)
NothingLeftPending ==
    stack = <<>> => /\ \A h \in Listed : ~Deleted(h)
                    /\ ~opsPending
                    /\ destroyPending => destroyed

(* "Add immediately.  This is safe even if we are in a handler": the       *)
(* handlers a walk has still to look at are those its select looked at, so *)
(* that no new handler meets the readiness of a descriptor (which may have *)
(* been closed and opened again) or the time of a select made before it.   *)
(* now, set only if the list had a timeout, is not read if it was not set. *)
Remaining(k) == {handlers[j] : j \in {j \in DOMAIN handlers :
                    \E i \in 1..(j - 1) : handlers[i] = stack[k].at}}
MeetsOwnSelect ==
    \A k \in DOMAIN stack : \A h \in Remaining(k) :
        Deleted(h) \/ /\ h \in stack[k].watched
                      /\ Timed(h) => stack[k].now # Uninitialized

(* Event_DelHandler: once a handler is deleted its callback is not entered *)
(* again, by the walk that deleted it, by an outer or by a nested one.     *)
Entered(h) == /\ stack' # <<>> /\ Last(stack').at = h
              /\ \/ Len(stack') > Len(stack)
                 \/ Len(stack') = Len(stack) /\ Last(stack).at # h
DeletedNeverCalled == [][\A h \in Handler : Entered(h) => ~Deleted(h)]_vars

(* A timer that is due is called, unless it is deleted, postponed or       *)
(* destroyed with the selector, even if a callback never comes out of the  *)
(* loop it runs.                                                           *)
DueTimerCalled ==
    \A h \in Handler :
        (h \in Listed /\ "TIMER" \in eh[h].flags /\ eh[h].tmout <= clock)
            ~> (h \notin Listed \/ Deleted(h) \/ eh[h].tmout > clock)
=============================================================================

------------------------------ MODULE LinuxTimer ------------------------------
(***************************************************************************)
(* POSIX timers over SIGALRM, src/shared/linux_timer.c, as the UPnP daemon *)
(* (src/upnp/upnp/upnp.c) uses them: periodic timers and timers that run   *)
(* once and delete themselves, SIGALRM masked while the main loop handles  *)
(* requests and unmasked around select.                                    *)
(*                                                                         *)
(* The unit of time is the granularity of the interval timer.  The queue   *)
(* holds in it_value the time from one event to the next.  alarm_handler   *)
(* interrupts the main program wherever SIGALRM is not masked; the timer   *)
(* functions mask it for most, not all, of what they do.                   *)
(***************************************************************************)
EXTENDS Integers, Sequences, FiniteSets, SequencesExt

CONSTANTS Event,        \* the events init_event_queue allocates
          NULL,
          MaxTime,      \* bound: the times that timers are set to
          Periodics     \* how many timers the program starts with

ASSUME TimerAssumption ==
    /\ IsFiniteSet(Event) /\ NULL \notin Event
    /\ MaxTime \in Nat \ {0} /\ Periodics \in 1..Cardinality(Event)

VARIABLES event_queue,
          event_freelist,
          it_value, it_interval, flags,     \* of each event
          itimer,      \* time left on ITIMER_REAL, 0 when it is off
          pending,     \* SIGALRM has been sent and not delivered
          masked,      \* the main program's mask has SIGALRM
          main,        \* what the main program is doing, and with which event
          tds,         \* the periodic timers the main program still has
          alarm,       \* the event whose callback alarm_handler runs, or NULL
          halted,      \* how the program ended
          due,         \* history: time until each event should go off
          disturbed,   \* history: see Disturbs
          lost         \* history: see Loses

timers == <<event_queue, event_freelist, it_value, it_interval, flags>>
history == <<due, disturbed, lost>>
vars == <<timers, itimer, pending, masked, main, tds, alarm, halted, history>>

Times == 1..MaxTime
Running == halted = "no" /\ alarm = NULL

(* The main program runs: a signal that is not masked is delivered first. *)
At(pc) == Running /\ (pending => masked) /\ main.pc = pc

Goto(pc, e, list) == main' = [pc |-> pc, event |-> e, list |-> list]

init_event_queue ==
    /\ event_queue = <<>> /\ event_freelist = SetToSeq(Event)
    /\ it_value = [e \in Event |-> 0] /\ it_interval = [e \in Event |-> 0]
    /\ flags = [e \in Event |-> {}]
    /\ itimer = 0 /\ pending = FALSE /\ masked = FALSE
    /\ main = [pc |-> "start", event |-> NULL, list |-> <<>>] /\ tds = <<>>
    /\ alarm = NULL /\ halted = "no"
    /\ due = [e \in Event |-> 0] /\ disturbed = FALSE /\ lost = {}

(***************************************************************************)
(* The queue.                                                              *)
(***************************************************************************)

timerroundup(t) == IF t = 0 THEN 1 ELSE t

(* The it_values of the first k events of the queue, added up. *)
Sums(value, q) ==
    LET sum[k \in 0..Len(q)] == IF k = 0 THEN 0 ELSE sum[k - 1] + value[q[k]]
    IN  sum

(* mutant: the new event is not counted off its follower *)
InsertOnly(value, q, e, t) ==
    LET sum == Sums(value, q)
        places == {k \in 0..Len(q) : sum[k] <= t}
        n == CHOOSE k \in places : \A j \in places : j <= k
    IN  [queue |-> InsertAt(q, n + 1, e), value |-> [value EXCEPT ![e] = t - sum[n]]]

(* "March down the list, decrementing the new timer by the current         *)
(* it_value of each event": e is to go off after t.                        *)
Insert(value, q, e, t) ==
    LET sum == Sums(value, q)
        places == {k \in 0..Len(q) : sum[k] <= t}
        n == CHOOSE k \in places : \A j \in places : j <= k
        own == t - sum[n]
    IN  [queue |-> InsertAt(q, n + 1, e),
         value |-> [x \in Event |-> IF x = e THEN own
                                    ELSE IF n < Len(q) /\ x = q[n + 1]
                                         THEN value[x] - own ELSE value[x]]]

(* mutant: the timer is left as it is *)
TimerNotSet(q, value, off) == itimer' = off /\ it_value' = value

(* The interval timer is set for the first event of q, and to off if there *)
(* is none.                                                                *)
Reissue(q, value, off) ==
    \/ q = <<>> /\ itimer' = off /\ it_value' = value
    \/ /\ q # <<>>
       /\ itimer' = timerroundup(value[Head(q)])
       /\ it_value' = [value EXCEPT ![Head(q)] = timerroundup(@)]

(***************************************************************************)
(* The kernel: time and the interval timer.                                *)
(***************************************************************************)

Tick ==
    /\ halted = "no" /\ (itimer > 0 \/ alarm # NULL)
    /\ itimer' = IF itimer > 0 THEN itimer - 1 ELSE 0
    /\ pending' = (pending \/ itimer = 1)
    /\ due' = [e \in Event |-> IF due[e] > 0 THEN due[e] - 1 ELSE 0]
    /\ itimer # itimer' \/ due # due'
    /\ UNCHANGED <<timers, masked, main, tds, alarm, halted, disturbed, lost>>

(***************************************************************************)
(* The main program: main, upnp_main and enqueue_event.                    *)
(***************************************************************************)

select ==                  \* unblock_alarm, and it waits
    /\ At("process") \/ (At("start") /\ Len(tds) = Periodics)
    /\ Goto("select", NULL, <<>>)
    /\ masked' = FALSE
    /\ UNCHANGED <<timers, itimer, pending, tds, alarm, halted, history>>

(* block_alarm; there is a request, or a signal has told it to stop. *)
process_receive_fds ==
    /\ At("select")
    /\ Goto("process", NULL, <<>>) \/ Goto("stop", NULL, <<>>)
    /\ masked' = TRUE
    /\ UNCHANGED <<timers, itimer, pending, tds, alarm, halted, history>>

(* timer_create reads event_freelist, then writes it; SIGALRM may come     *)
(* between the two.  The first periodic timer is that of main; those of    *)
(* init_device are created before upnp_main's block_alarm and the others   *)
(* after it, so that it may come before any but the first.                 *)
timer_create ==
    /\ At("process") \/ (At("start") /\ Len(tds) < Periodics)
    /\ UNCHANGED masked \/ (main.pc = "start" /\ tds # <<>> /\ masked' = TRUE)
    /\ \/ /\ event_freelist = <<>>
          /\ halted' = "assert" /\ UNCHANGED <<main, flags>>
       \/ /\ event_freelist # <<>>
          /\ Goto("create", Head(event_freelist), <<>>)
          /\ flags' = [flags EXCEPT ![Head(event_freelist)] = {}]
          /\ UNCHANGED halted
    /\ UNCHANGED <<event_queue, event_freelist, it_value, it_interval, itimer, pending,
                   tds, alarm, history>>

timer_created ==
    /\ At("create") /\ Goto("settime", main.event, <<>>)
    /\ \E k \in DOMAIN event_freelist :
        /\ event_freelist[k] = main.event
        /\ event_freelist' = SubSeq(event_freelist, k + 1, Len(event_freelist))
    /\ UNCHANGED <<event_queue, it_value, it_interval, flags, itimer, pending,
                   masked, tds, alarm, halted, history>>

(* timer_settime and timer_cancel mask SIGALRM; the timer may still expire. *)
block_timer ==
    /\ At("settime") \/ (At("stop") /\ tds # <<>>)
    /\ ~masked /\ masked' = TRUE
    /\ UNCHANGED <<timers, itimer, pending, main, tds, alarm, halted, history>>

(* History: an expired timer whose signal waits is counted as still to     *)
(* come, and the signal goes to whatever is at the top.                    *)
Disturbs == disturbed' = (disturbed \/ pending)

(* mutant: the top event is not set to the time left *)
TopUnchanged == it_value

TopTimeLeft ==
    IF itimer > 0 /\ event_queue # <<>> /\ itimer <= it_value[Head(event_queue)]
    THEN [it_value EXCEPT ![Head(event_queue)] = itimer]
    ELSE it_value

(* e is set to go off after t, and then each period if that is not 0.      *)
(* unblock_timer leaves SIGALRM unmasked, also within block_alarm.         *)
SetTime(e, t, period) ==
    LET new == Insert(TopTimeLeft, event_queue, e, t)
    IN  /\ event_queue' = new.queue /\ it_value' = new.value
        /\ it_interval' = [it_interval EXCEPT ![e] = period]
        /\ itimer' = IF Head(new.queue) = e THEN new.value[e] ELSE itimer
        /\ due' = [due EXCEPT ![e] = t]
        /\ masked' = FALSE
        /\ Disturbs
        /\ UNCHANGED <<event_freelist, flags, pending, alarm, halted, lost>>

(* A periodic timer at the start, a timer for one occasion in a request.   *)
timer_settime ==
    /\ At("settime") /\ masked
    /\ \E t \in Times :
        \/ /\ Len(tds) < Periodics
           /\ SetTime(main.event, t, t)
           /\ tds' = Append(tds, main.event) /\ Goto("start", NULL, <<>>)
        \/ /\ Len(tds) = Periodics
           /\ SetTime(main.event, t, 0)
           /\ UNCHANGED tds /\ Goto("process", NULL, <<>>)

(* timer_delete of the periodic timers, that of main last: timer_cancel,   *)
(* masked; a first event gives the time it has waited, not what is left,   *)
(* to the second; another event gives its follower nothing.                *)
timer_delete ==
    /\ At("stop") /\ masked
    /\ \E i \in DOMAIN tds :
       LET e == tds[i]
           k == SelectInSeq(event_queue, LAMBDA x : x = e)
           rest == RemoveAt(event_queue, k)
           waited == it_value[e] - itimer
           value == IF k = 1 /\ rest # <<>>
                    THEN [it_value EXCEPT ![rest[1]] = @ + waited] ELSE it_value
       IN  /\ Len(tds) > 1 => i > 1
           /\ event_queue' = rest /\ Reissue(rest, value, 0)
           /\ flags' = [flags EXCEPT ![e] = {"CANCELLED"}]
           /\ disturbed' = (disturbed \/ pending \/ k < Len(event_queue))
           /\ tds' = RemoveAt(tds, i) /\ Goto("cancelled", e, <<>>)
    /\ masked' = FALSE
    /\ UNCHANGED <<event_freelist, it_interval, pending, alarm, halted, due, lost>>

(* Its return to the free list, in two steps that SIGALRM may part. *)
timer_deleted ==
    /\ At("cancelled")
    /\ flags' = [flags EXCEPT ![main.event] = @ \cup {"DELETED"}]
    /\ Goto("recycle", main.event, event_freelist)
    /\ UNCHANGED <<event_queue, event_freelist, it_value, it_interval, itimer, pending,
                   masked, tds, alarm, halted, history>>

recycle ==
    /\ At("recycle") /\ Goto("stop", NULL, <<>>)
    /\ event_freelist' = <<main.event>> \o main.list
    /\ UNCHANGED <<event_queue, it_value, it_interval, flags, itimer, pending,
                   masked, tds, alarm, halted, history>>

exit ==
    /\ At("stop") /\ tds = <<>>
    /\ halted' = "exit"
    /\ UNCHANGED <<timers, itimer, pending, masked, main, tds, alarm, history>>

(***************************************************************************)
(* alarm_handler.                                                          *)
(***************************************************************************)

(* The first event of q leaves the queue and its callback begins. *)
Pop(q) == event_queue' = Tail(q) /\ alarm' = Head(q)

alarm_handler ==
    /\ Running /\ pending /\ ~masked
    /\ pending' = FALSE
    /\ \/ event_queue # <<>> /\ Pop(event_queue) /\ UNCHANGED halted
       \/ event_queue = <<>> /\ halted' = "null" /\ UNCHANGED <<event_queue, alarm>>
    /\ UNCHANGED <<event_freelist, it_value, it_interval, flags, itimer, masked, main,
                   tds, history>>

(* History: the main program has read event_freelist and will overwrite    *)
(* what the callback writes to it, so the handler's event is lost.         *)
Loses == main.pc \in {"create", "recycle"}

(* mutant: the callback does not delete its timer *)
NeverReturned == UNCHANGED <<flags, event_freelist, due, lost>>

(* The callback of a timer without an interval ends with timer_delete of   *)
(* its own timer, which is not on the queue.                               *)
OneShotEnds ==
    /\ flags' = [flags EXCEPT ![alarm] = @ \cup {"CANCELLED", "DELETED"}]
    /\ event_freelist' = <<alarm>> \o event_freelist
    /\ lost' = IF Loses THEN lost \cup {alarm} ELSE lost
    /\ UNCHANGED due

(* "... plus any subsequent events that will expire very soon thereafter" *)
AtOnce(q, value) == q # <<>> /\ value[Head(q)] = 0

callback_returns ==
    /\ halted = "no" /\ alarm # NULL
    /\ LET recurs == it_interval[alarm] > 0
           new == IF recurs THEN Insert(it_value, event_queue, alarm, it_interval[alarm])
                  ELSE [queue |-> event_queue, value |-> it_value]
       IN  /\ \/ ~recurs /\ OneShotEnds
              \/ /\ recurs
                 /\ due' = [due EXCEPT ![alarm] = it_interval[alarm]]
                 /\ UNCHANGED <<event_freelist, flags, lost>>
           /\ \/ /\ AtOnce(new.queue, new.value)
                 /\ Pop(new.queue) /\ it_value' = new.value /\ UNCHANGED itimer
              \/ /\ ~AtOnce(new.queue, new.value)
                 /\ event_queue' = new.queue /\ alarm' = NULL
                 /\ Reissue(new.queue, new.value, itimer)
    /\ UNCHANGED <<it_interval, pending, masked, main, tds, halted, disturbed>>

MainStep ==
    \/ select \/ process_receive_fds \/ timer_create \/ timer_created \/ block_timer
    \/ timer_settime \/ timer_delete \/ timer_deleted \/ recycle \/ exit

Next == Tick \/ MainStep \/ alarm_handler \/ callback_returns

Spec == init_event_queue /\ [][Next]_vars

(* Time passes, signals are delivered, callbacks return and the main       *)
(* program runs; requests and the signal to stop need not come.            *)
Fairness ==
    /\ WF_vars(Tick) /\ WF_vars(alarm_handler) /\ WF_vars(callback_returns)
    /\ WF_vars(MainStep /\ main.pc # "select")

FairSpec == Spec /\ Fairness

(***************************************************************************)
(* Properties.                                                             *)
(***************************************************************************)

(* The queue, the free list, the events and the program have their types. *)
TimerTypeOK ==
    /\ event_queue \in Seq(Event) /\ event_freelist \in Seq(Event)
    /\ it_value \in [Event -> Nat] /\ it_interval \in [Event -> 0..MaxTime]
    /\ flags \in [Event -> SUBSET {"CANCELLED", "DELETED"}]
    /\ itimer \in Nat /\ pending \in BOOLEAN /\ masked \in BOOLEAN
    /\ main.pc \in {"start", "select", "process", "create", "settime", "stop",
                    "cancelled", "recycle"}
    /\ tds \in Seq(Event) /\ Len(tds) <= Periodics
    /\ main.event \in Event \cup {NULL} /\ alarm \in Event \cup {NULL}
    /\ due \in [Event -> 0..MaxTime]
    /\ halted \in {"no", "null", "assert", "exit"} /\ disturbed \in BOOLEAN
    /\ lost \subseteq Event

(* The events off the lists: one that the main program has taken off the   *)
(* free list or off the queue, and the one whose callback runs.            *)
Taken == {e \in {main.event} : main.pc \in {"settime", "cancelled", "recycle"}}
InHand == Taken \cup ({alarm} \ {NULL})

(* The types are right, no it_value is less than zero, and every event is  *)
(* in exactly one place, wherever the alarm interrupts: on the queue once, *)
(* on the free list once, in the hands of the handler or of the main       *)
(* program; but for those that callbacks returned while timer_create or    *)
(* timer_delete had read event_freelist and not yet written it.  They are  *)
(* on the free list until it is written, and after that nowhere.           *)
OnePlaceUnlessLost ==
    LET queued == ToSet(event_queue)
        free == ToSet(event_freelist)
    IN  /\ TimerTypeOK
        /\ IsInjective(event_queue) /\ IsInjective(event_freelist)
        /\ queued \cup free \cup InHand \cup lost = Event
        /\ queued \cap free = {} /\ InHand \cap (queued \cup free) = {}
        /\ alarm \notin Taken
        /\ lost \cap (queued \cup InHand) = {}
        /\ ~Loses => lost \cap free = {}
        /\ \A e \in queued : flags[e] = {}

(* "It is an error if the amount of time remaining is more than the amount *)
(* of time requested by the top event": neither this nor the error of      *)
(* check_timer comes up, and with an event on the queue the timer runs or  *)
(* its signal is on the way.                                               *)
TimerForTop ==
    event_queue # <<>> /\ alarm = NULL =>
        /\ itimer <= it_value[Head(event_queue)]
        /\ itimer > 0 \/ pending

(* The k-th event of the queue goes off after the time left on the timer   *)
(* and the it_values of the events from the second on.                     *)
TimeTo(k) == itimer + Sums(it_value, event_queue)[k] - it_value[Head(event_queue)]

(* "The top element of the event queue must have expired", and no other    *)
(* event is set to go off early; as long as no timer is set or cancelled   *)
(* while SIGALRM waits, and only the last timer of the queue is cancelled. *)
NeverEarlyUnlessDisturbed ==
    ~disturbed =>
        /\ halted # "null"
        /\ pending /\ alarm = NULL =>
              event_queue # <<>> /\ due[Head(event_queue)] = 0
        /\ alarm = NULL => \A k \in DOMAIN event_queue : due[event_queue[k]] <= TimeTo(k)
        /\ alarm # NULL => due[alarm] = 0

(* Every timer on the queue goes off, or is deleted. *)
EveryTimerGoesOff ==
    \A e \in Event :
        (e \in ToSet(event_queue)) ~> (alarm = e \/ flags[e] # {} \/ halted # "no")

(* "The top element of the event queue must have expired" when the handler *)
(* is called.                                                              *)
TopHasExpired ==
    Running /\ pending /\ ~masked => event_queue # <<>> /\ due[Head(event_queue)] = 0
=============================================================================

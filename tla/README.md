# TLA+ models of rp-l2tp and of the UPnP timers

The repository is the source of a router firmware: a few programs of its own
and many vendored ones. The part with the richest protocol and concurrency
logic is `src/rp-l2tp`, an L2TP daemon (LAC and LNS) that starts one `pppd` per
call. This directory holds models of it: the reliable control transport and the
channel it implements, the life of tunnels, calls and pppd processes, the
delivery of signals, the event selector, its hash tables and the command socket.
Outside it, the timers over SIGALRM of the UPnP daemon are modelled. Every safety
property that a run checks is proved for every size, and so is that the transport
implements its channel; liveness is model checked.

To check: `tlc -config X.cfg M` for a run of module `M`, `tlapm M.tla` for the
proofs. `PROJECT.json` lists the runs, the source lines behind each definition,
the hazards, the theorems, and for every property a mutation of the code that
breaks it (the definitions marked `mutant` in the modules).

## 1. Inventory

### l2tpd

| Component | State | Operations | Depends on |
|---|---|---|---|
| Control transport (`tunnel.c`) | per tunnel: `Ns`, `Nr`, `peer_Nr`, `Ns_on_wire`, `cwnd`, `ssthresh`, transmit queue, `timeout_handler`, `ack_handler` | queue a message, run the queue, receive a datagram, delayed ZLB, retransmission | datagram I/O, timers |
| Tunnel state machine (`tunnel.c`) | `tunnels_by_my_id`, `state`, `hello_handler`, sessions of the tunnel | SCCRQ/SCCRP/SCCCN/StopCCN/HELLO, add and delete session, reestablish, `tunnel_cleanup` | transport below, sessions above |
| Session state machine (`session.c`) | `state`, call handler, private data | ICRQ/ICRP/ICCN/CDN, call, free | tunnel, call handler |
| pppd handler (`handlers/sync-pppd.c`) | `struct slave`: pid, socket or pty, back pointer to the session | establish, close, `slave_exited`, frames | session, child exits |
| Signals and children (`libevent/event_sig.c`, `main.c`) | self-pipe, `PipeFull`, `fired`, child table, `count` | `sig_handler`, `DoPipe`, `child_handler`, `sighandler` | event loop |
| Commands (`handlers/cmd.c`) | command socket | start-session, stop-session, exit, dump | tunnel, session, TCP events |
| Event selector (`libevent/event.c`, `hash.c`) | list of handlers, `nestLevel`, `opsPending`; hash tables with cursors | add, change, delete, run one pass, destroy; insert, remove, find, iterate | select |
| TCP events (`libevent/event_tcp.c`) | an `EventTcpState` per connection: buffer, timeout, callback | accept, read a line, write | event selector |
| Datagrams, authentication (`dgram.c`, `auth.c`, `md5.c`, `network.c`) | none to speak of | encode, decode, hide, send | sockets |
| Configuration and peers (`options.c`, `peer.c`) | peer list | parse, find | - |

How they interact: everything runs in one thread under one event loop, by
callbacks. A datagram goes from `network.c` to the transport, from there to the
tunnel or session handler, which may queue messages, free sessions, start or
kill a pppd, arm a redial, or free the very tunnel it was called for. A pppd's
exit arrives as SIGCHLD through the self-pipe. `tunnel_cleanup` runs a nested
event loop, from a command or from within the handler of a signal.

What is hard in it:

- datagrams that are lost, repeated, overtaken, or late after a timeout;
  16-bit numbers that wrap; the window at its limits; a socket that refuses;
- StopCCNs that cross; a call, its tunnel and its pppd that may each end first,
  each with its own redial code, five places in all;
- HELLO and destruction sharing one timer;
- a shutdown that waits in an ordinary event loop, redials included;
- an asynchronous handler that shares flags with code that does not block it;
- callbacks that change the list that is being walked, or run the loop again,
  and loops over a table that free the entry they stand on;
- an exit command that waits inside the callback that read it.

What makes each part correct:

- transport: delivery exactly once and in order; nothing dropped from the queue
  before it has arrived; a timer exactly while something is unacknowledged; the
  peer's window respected; every message settled, every stopped tunnel freed;
- tunnels, sessions, pppd: no orphaned pppd or session, every closing tunnel
  watched by a timer, the last session takes its tunnel with it, no call
  redialled twice or after it was stopped, redialling and shutdown that end;
- signals: the event loop always wakes up, every SIGTERM and child exit is
  handled, no child is reaped before it is known;
- event selector: no walk on freed memory, no deleted handler called, no handler
  called for a select that did not watch it, timers that go off once and do go
  off; hash tables: every lookup right, every iteration complete;
- command socket: no descriptor leaked, shared or watched after it was closed;
  every connection closed in the end; exit ends the program.

### UPnP timers

`src/shared/linux_timer.c` gives the UPnP daemon (`src/upnp`) its timers over one
interval timer: `event_queue`, whose events hold the time from one to the next,
`event_freelist`, and the signal handler `alarm_handler`, which runs callbacks. The
main loop masks SIGALRM except around `select`; the timer functions mask it for
most of what they do, and `unblock_timer` unmasks it whatever the main loop
wanted. Correct means: every event is in exactly one place, the interval timer is
set for the first one, none goes off before its time, each goes off. The first
does not always hold: a callback that returns its event to the free list while
`timer_create` or `timer_delete` is between reading and writing that list loses it
(section 5).

### The rest of the repository

Not modelled. `src/rc`, `src/httpd`, the rest of `src/upnp`, `src/netconf`,
`src/infosrv`, `src/nvram`, the rest of `src/shared` and the login clients are
process control and text I/O around nvram; `src/brcm-src-2.6`, the kernel
drivers and the patch directories, nine tenths of all lines, are vendor or
third-party code, much of it register tables. One part of that is worth
modelling later: the multicast forwarding tables with their timers and locks
(`brcm-src-2.6/emf`).

## 2. Modules

```
ControlChannel           operators on one l2tp_tunnel: queue, window, timers
  Transport              two tunnels and a network       MCTransport (TLC)
    Channel              what Transport promises, by INSTANCE
  TransportProofs        lemmas about the operators, safety of the transport
    ChannelProofs        Transport implements Channel
Calls                    tunnels, sessions, pppd, redial  MCCalls (TLC)
  CallsProofs
Signals                  event_sig.c, sighandler, fork    MCSignals (TLC)
  SignalsProofs
EventLoop                event.c                          MCEventLoop (TLC)
  EventLoopProofs
HashTable                hash.c, the loops over sessions  MCHashTable (TLC)
  HashTableProofs
CommandSocket            event_tcp.c and cmd.c            MCCommandSocket (TLC)
  CommandSocketProofs
LinuxTimer               linux_timer.c, the UPnP loop     MCLinuxTimer (TLC)
  LinuxTimerProofs
```

### ControlChannel and Transport

A tunnel is a record with the field names of `l2tp_tunnel`. `xmit_queue` is the
list from `xmit_queue_head`, `xmit_new` the position of `xmit_new_dgrams`, a
timer is armed or not. Each C function on the queue is an operator of the same
name. `Transport` runs two of them, the LAC's and the one the LNS makes for its
SCCRQ, over a set of datagrams.

| Action | Code |
|---|---|
| `XmitControlMessage` | `l2tp_tunnel_xmit_control_message`, `tunnel_send_StopCCN` |
| `HandleSCCRQ` | `tunnel_handle_SCCRQ` |
| `ReceiveOutOfSequence`, `ReceiveInSequence`, `ReceiveStopCCN` | `l2tp_tunnel_handle_received_control_datagram` with its two early returns, `tunnel_process_received_datagram`, `tunnel_handle_StopCCN` |
| `tunnel_do_ack`, `tunnel_handle_timeout`, `tunnel_finally_cleanup` | the timers |
| `Lose` | the network |

Abstractions:

- Sequence numbers are unbounded counters; every comparison is made on their
  value modulo `SeqMod`, as the code makes it on 16 bits. `SERIAL_LT` and
  `SERIAL_GT` are the macros.
- `Fresh`: no datagram survives in the network for half a turn of the sequence
  space (32768 messages on a connection whose window is 8). Without this no
  16-bit protocol is correct; the code relies on it silently.
- The handlers above are reduced to their effect on the transport: in answer
  to a message, or at any time, they queue some member of `Payload` or a
  StopCCN.
- A repeated SCCRQ makes a second tunnel in the code (there is a TODO about
  it); it has no effect on the tunnel followed here.
- Messages are well-formed. AVPs, hiding and the challenge are not modelled.
- Histories `sent` and `delivered` are for the properties only.

### Channel

What the code above the transport relies on: two ends that send messages, each
processed by the other in order and once; acknowledgements that only grow and
never run ahead of the peer; an end that was told to stop sends no more but still
takes what comes; an end that is freed does nothing. It has no network, window or
timer. `Transport!ImplementsChannel` says that Transport implements it under the
mapping `status` from the tunnel's state and `acked` from `peer_Nr`: losses,
retransmissions, ZLBs and timeouts are stuttering steps, a datagram that brings a
message, and an acknowledgement, is one `Receive`. `Calls` uses the transport
through this contract.

### Calls

One daemon with one peer entry in its configuration; the peer is the
environment. A tunnel keeps its state, whether its queue is empty (`unacked`),
which callback `hello_handler` holds, and whether it has carried a session; a
session its state, tunnel, role and slave; a slave its process state, whether it
was sent SIGTERM, and the back pointer. `redial` counts the pending
`l2tp_tunnel_reestablish` timers, `fail` is `peer->fail`, kept only up to
`maxfail + 1` since the test no longer changes beyond it.

| Action | Code |
|---|---|
| `cmd_start_session`, `cmd_stop_session`, `tunnel_cleanup`, `Exit` | `cmd.c`, `tunnel_cleanup`, `main.c` |
| `l2tp_tunnel_reestablish` | redial timer, `l2tp_session_call_lns`, `l2tp_tunnel_find_for_peer`, `tunnel_establish` |
| `Receive...`, `HandleSCCRQ` | one for each message, the whole handler with the end of `handle_received_control_datagram` |
| `tunnel_handle_timeout`, `tunnel_do_hello`, `tunnel_finally_cleanup` | timers |
| `PppdExits`, `slave_exited` | the process, and the child handler |

What lies below is used through what Transport shows: messages arrive once and
in order, and an unacknowledged queue ends in `tunnel_handle_timeout`. So only
the last of a series of retransmissions is a step. With `PeerObeys = FALSE` the
peer sends any well-formed message at any time; with `TRUE` only those that fit
the state, so that a violation does not rest on a faulty peer.

Assumptions: the operator starts no call during a shutdown (the command socket
stays open, but this would only repeat what a redial does); the sets `Tid`,
`Sid` and `Pid` stand for identifiers that are free when wanted, an action that
finds none is not taken.

### Signals

One thread with an explicit stack. A frame is a call that a signal can
interrupt, at the step it is about to take; steps are the accesses to what
`sig_handler` shares with the rest. `Deliver` puts `sig_handler` on top at any
point, with its own signal blocked and the other not. Tunnels are only counted.
The event loop of a `tunnel_cleanup` that waits takes SIGTERMs and exit commands,
each of which begins another on top of it; `MaxNested` bounds how deep an exit
command comes.
SIGINT has the same handler as SIGTERM and is left out. A signal without a
handler and of default disposition (SIGCHLD before the first
`Event_HandleChildExit`) is ignored.

### EventLoop

The list of handlers in its order, each handler's memory (or `Free`), and a stack
of walks, one for each call of `Event_HandleEvent` in progress. A state is always
one in which a callback runs, or the program outside the loop; it may call any
function of the selector. `Event_HandleEvent` is `select` and the walk up to the
first callback, `Return` the walk from one callback to the next, or to its end
with `DoPendingChanges`. `now` is uninitialized when no handler had a timeout, as
in the code. An allocation that fails, a bad argument or a failing select changes
nothing and is left out.

### HashTable

The buckets and the `next`, `prev`, `hashval` of each item, with the four loops of
`tunnel.c` over a tunnel's sessions: they free the entry they stand on after
`hash_remove` (StopCCN), without it (destruction, `tunnel_free`), or delete it or
not (`tunnel_tell_sessions_tunnel_open`). A freed entry keeps its links, so that
reading one shows. The history `older` says which entries were inserted before
which: the order in which the chains must have them, and which of two entries with
the same key a lookup must find.

### CommandSocket

Clients connect; `handle_accept`, `handle_readable` and `handle_writeable` are the
callbacks, each with all it calls: `cmd_acceptor`, `cmd_handler`, `cmd_reply`,
`free_state`, `close`. Descriptors are the lowest free, as the kernel gives them,
so that one that was closed comes back for another client. What a client sends is
`exit` or something else; partial reads and writes leave the state as it is. The
selector is EventLoop's, reduced to the list, the walk, and the failure of
`select` on a closed descriptor, which ends the program. `exit` starts a loop
inside the callback; the walk it interrupts is never resumed.

### LinuxTimer

The unit of time is the granularity of the interval timer. `main.pc` says where
the main program is; its steps are split where SIGALRM may come between two
accesses: around `event_freelist`, and before `block_timer`. `alarm_handler` takes
the first event off and `callback_returns` puts it back, takes the next one that
is due at the same time, or sets the interval timer. Callbacks of timers without
an interval delete their timer; other effects of callbacks are left out.

The start follows `main` and `upnp_main`. The first timer, that of `main`, is made
with SIGALRM unmasked; so are those of `init_device` (`WANIPConnectionInit`), which
comes before `block_alarm`; those made after it begin with SIGALRM masked, so any
timer but the first may begin either way. At the end all periodic timers are
deleted, in any order but that of `main` last.

`due`, `disturbed` and `lost` are histories: the time until each event should go
off; whether a timer was set or cancelled while its signal waited; and the events
that callbacks returned while the main program had read `event_freelist` and was
yet to write it.

## 3. Runs

| Run | Result | States | Question |
|---|---|---|---|
| `transport` | pass | 829,537 | order, exactly once, no early dequeue, timer, window, the inductive invariant, and the refinement of Channel |
| `transport_live` | pass | 86,376 | every message settled, every stopped tunnel freed, whatever is lost |
| `calls` | pass | | orphans, timers, last session; both roles, any peer |
| `calls_live` | pass | 53,178 | no call redialled twice, none after it was stopped; shutdown ends unless a redial reopens a tunnel; `maxfail` makes redialling end |
| `calls_persist` | violation | | the manual's promise for persistent sessions |
| `signals` | pass | 75,486 | the loop wakes up; no child reaped unknown; every SIGTERM and child exit handled, but for the named gaps |
| `event_loop` | pass | 190,502 | the walk under all that callbacks may do, timers that go off once and go off |
| `hash_table` | pass | 419,930 | links, lookup, and iteration over entries that are freed |
| `command_socket` | pass | 131,175 | descriptors owned once and closed in the end; exit ends the program |
| `command_exit` | violation | | the comment of `tunnel_cleanup`, entered from the exit command |
| `linux_timer` | pass | 113,499 | every event in exactly one place unless lost in the two steps on the free list, the timer set for the first, none early unless disturbed, each goes off |
| `linux_timer_top` | violation | | the comment of `alarm_handler` |

### Bounds

- `MaxSent`: messages an end queues. A window of two frames, and with it
  datagrams that overtake each other, begins with the LAC's fourth message;
  `transport` has the LAC at seven with `SeqMod = 6`, so its numbers go round
  once, and the LNS at one. `Rws` is 2 against 8 in the code; the proofs cover
  all, both ends sending any number.
- `MaxNet = 2`: datagrams on their way, both directions together: a message and
  an older copy of another, or an acknowledgement. `transport_live` has no such
  constraint and a network that does not duplicate; each end sends two. That is
  not enough for the window of two frames to open: there one frame is outstanding
  at a time, and the count of outstanding frames does not wrap. What the window
  does beyond that is the subject of `transport` and of the proofs.
- `MaxRetransmissions = 2` against 5: one retransmission and giving up.
- `Tid`, `Sid`, `Pid`: two each. A redial during a teardown needs two tunnels,
  "last session" two sessions, a pppd that outlives its call two processes.
- `MaxStarts`: one call from our side in `calls`, besides those of the peer and
  one pending redial (`MaxRedial`); two in `calls_live`, where the peer obeys the
  protocol (`NoExtraCall` was also checked with one that does not).
- `MaxTerm`, `MaxCount`: two SIGTERMs, giving up at the third entry of
  `sighandler` against the fifth. `MaxNested = 1`: an exit command also within
  the shutdown that another one or a SIGTERM has begun.
- EventLoop: two handlers that may share a descriptor, two moments in time, loops
  three deep. Memory is used again at once, which is what makes a dangling
  pointer show; a walk that stands on one handler while the other is new, deleted
  or due needs no third.
- HashTable: four entries over three buckets; the middle of a chain of three, two
  chains, and equal keys.
- CommandSocket: two clients and two descriptors, four states: a client's reader
  and writer side by side for both; exit inside exit once.
- LinuxTimer: four events, two periodic; times of one and two units: an event in
  front of, with and behind another one. Two events may be lost at once, and all
  may be used up.

Symmetry over identifiers is used in safety runs only. Deadlock is not checked
where the program ends: both tunnels freed and the network empty, or the
process exited.

### Fairness

- Transport: the three timer handlers are weakly fair, since the event loop
  runs every timer that has expired. Nothing is assumed of the network, which
  may lose everything, nor of the layer above.
- Calls: redial, timers, reaping and the end of the shutdown loop are weakly
  fair, for the same reason. Fairness of `tunnel_handle_timeout` rests on
  `EveryMessageSettled` of Transport and on one more thing: every message
  received resets the count of retransmissions, so the peer must not send for
  ever without acknowledging. The other actions (operator, peer, pppd) are not
  fair.
- EventLoop: time passes, a callback returns, and the main loop comes back from
  select once a timeout has passed. No descriptor need ever become ready.
- CommandSocket: the same, and stopped tunnels are freed (`StoppedIsFreed`).
  Clients need do nothing.
- LinuxTimer: time passes, an unmasked signal is delivered, callbacks return, and
  the main program goes on except in `select`. That time passes is also what
  makes a request end.
- Signals: the thread goes on, and the kernel delivers a signal that is not
  blocked. Nothing is assumed of tunnels, children or the sender of signals.

## 4. Proofs

Each theorem holds for every value of the constants that satisfies the named
assumptions. Each proof has the same shape: an inductive invariant, which TLC has
checked on the instance of the run first, one lemma for each action, and the
properties as consequences. What is said below is what each invariant has to add
to the property it is for.

### Transport

`TransportProofs` proves, for every `SeqMod`, window, payload set,
retransmission limit and number of messages, with and without duplication and
refused datagrams:

| Theorem | States |
|---|---|
| `TransportSafety` | `Spec => []TransportInv` |
| `TypeCorrect` | the tunnels, network and histories keep their types |
| `DeliveryInOrder` | exactly once and in order |
| `NothingDequeuedEarly` | a message leaves the queue only after it was processed |
| `TimerWhileUnacked` | the timer runs exactly while the queue is not empty |
| `ReceiveWindowRespected` | nothing on the wire beyond the peer's window |

Assumptions, named in the module: `SeqMod` is even and positive, the window is
positive and less than half of `SeqMod`, the limit positive, the message
names distinct. In the actions: `Fresh`, and a transmit queue of at most half
the sequence space.

The argument. In-order delivery is not inductive: whether a datagram with the
right 16 bits carries the right message depends on what is in the network, and
that on the queue of its sender. `TransportInv` therefore says:

- `QueueOK`: the queue is what was sent from `peer_Nr` on, numbered without a
  gap, and `peer_Nr` is no more than the peer has processed;
- `WireOK`: `Ns_on_wire` is one past the last transmitted frame, or `xmit_new`
  is the head and an acknowledgement has overtaken it after a timeout. This is
  the case in which `tunnel_outstanding_frames` wraps; the invariant shows that
  it only closes the window, and the timer that is armed reopens it;
- `WindowOK`: the congestion window is within the peer's receive window;
- `DatagramOK`: a datagram carries the message of its number, an `Nr` its
  sender has reached, and a number inside the window;
- `SCCRQFirst`: no other message makes a tunnel;
- a tunnel that is freed, idle or stopped has an empty queue.

The module begins with the arithmetic: equal bits mean equal counters and
`SERIAL_LT` means `<` for counters less than half a turn apart (`SameBits`,
`SerialOrder`), and the congestion window after n acknowledgements stays in
its range (`WindowAfterType`, by the least counterexample). From there it
goes from operators (`EnqueueOK`, `XmitOK`, `DequeueOK`) to tunnels
(`AcceptUp`, `TimeoutStep`, ...), to a frame lemma for steps that change one end
and add datagrams (`StepOK`), to one lemma for each action.

### Transport implements Channel

`TransportImplementsChannel` is `Spec => ImplementsChannel`, with the mapping of
section 2. The operations of a tunnel are first reduced to what the mapping sees
of them: the status, and `peer_Nr` while the tunnel is up (`SameView`). Then every
action of Transport is named: enqueueing is a `Send`, or nothing if the tunnel may
not send; a datagram in sequence is one `Receive` that moves `acked` and
`delivered` together; a StopCCN ends an end; the rest stutters. The bounds that
Channel puts on an acknowledgement (it grows, and does not run ahead of what the
other end has processed) come from `TransportInv` before and after the step.

`ConnectionOrderly` uses the refinement: what a step of Channel may do (`Orderly`)
is read off its six small actions and holds of every step of the transport. An end
is handed the next message of its peer and no other, one at a time, and none once
it is freed; an end that has received StopCCN or is freed sends nothing more;
statuses only go forward; while an end is open no acknowledgement is taken back.

### Calls

| Theorem | States |
|---|---|
| `CallsSafety` | `Spec => []CallsInv` |
| `CallsTypesOK` | types |
| `NoOrphans` | `PppdAttached`: no pppd without its session |
| `NoneLeftBehind` | `SessionsServed`: no session without a tunnel that serves it |
| `AlwaysWatched` | `TunnelsWatched`: the timer that will end or check each tunnel |
| `NoIdleTunnel` | `TornDownWithLastSession` |
| `NeverRedialledTwice` | `NoExtraCall`, if only this side calls and `retain-tunnel` is off |

For any sets of tunnels, sessions and processes, any configuration and a peer that
sends any well-formed message at any time. `CallsInv` adds that a slave's session
knows the slave also when the process has exited and is not yet reaped (otherwise
`slave_exited` could free the wrong session), and that a tunnel that has received
StopCCN has an empty queue. `NeverRedialledTwice` assumes `OnlyWeCall`, the
condition under which `NoExtraCall` is meant, and which the run `calls_live`
satisfies: sessions that the peer starts are not among those `wanted` counts, and
a tunnel that is kept without a session would be redialled on a timeout for a call
that is gone. It adds that each tunnel on its way up has a session, so that of the
five redial places each takes the place of a session that ends. Assumptions:
`Sid` is finite (16-bit identifiers), `None` is no identifier, the flags are
Boolean.

### Signals

| Theorem | States |
|---|---|
| `SignalsSafety` | `Spec => []SigInv` |
| `SignalsTypesOK` | `SignalsTypeOK`: types, with the bound of the stack and of the pipe: never more than two bytes, so the handler's `write` cannot block |
| `AlwaysWakesUp` | `WakesUp`: in select the flag is not set, nor has a signal fired, nor is a SIGTERM or a zombie not dealt with, over an empty pipe, but for what is pending or came in a named gap |
| `NeverReapedUnknown` | `NoneReapedUnknown` |

For any children, tunnels, SIGTERMs, nested exit commands and limit of
`sighandler`. `SigInv` describes the stack: handlers of different signals on top,
at most one interruptible call below them, and below that only calls of
`tunnel_cleanup`, no more than `MaxNested` and the entries of `sighandler` account
for. From the frames it reads what the shared
state must be: while `PipeFull` is not set the pipe holds exactly the bytes of
handlers that have written and not yet set it; no handler can be between test and
write while `DoPipe` reads and clears; a signal that has fired has a byte in the
pipe or a frame that will still look; a child without a table entry has the frame
that will make it.

That is not enough for the last part of `WakesUp`, which relates a zombie or a
SIGTERM to its signal. `Announced`, inductive on top of `SigInv`, says where that
signal is: pending, or in the frame of a handler that has begun, or in `fired`
where `DoPipe` is not just about to reset it, or in `missed`, the history of the two
gaps of section 5. `waitpid` leads to the reset only when no zombie is left, and the
scan only when the signal has not fired; that is why nothing else is lost. It needs
`Entering`: the frame of `Event_HandleChildExit` is that of a child which is not in
the table. This is the safety half of `ChildExitHandledUnlessMissed` and
`TermHandledUnlessMissed`; that the loop then runs is left to TLC.

### EventLoop

| Theorem | States |
|---|---|
| `LoopSafety` | `Spec => []LoopInv` |
| `LoopTypesOK` | types; the list has each allocated handler once |
| `WalksSafe` | `NoWalkOnFreed` |
| `TimersOnce` | `TimersFireOnce` |
| `NothingForgotten` | `NothingLeftPending` |
| `SelectsOwn` | `MeetsOwnSelect`: a walk compares with its own select's sets and a time that was read |
| `NeverCalledAgain` | `[][...]`: no step calls a deleted handler (`DeletedNeverCalled`) |

For any handlers, descriptors and depth of nested loops. `LoopInv` adds that every
walk, not only the innermost, stands on a listed handler; that all handlers behind
it were looked at by its own select, or are deleted (new handlers go to the head,
which is what makes this true); that a deletion that waits is announced in
`opsPending`; and that a one-shot timer that was called is deleted already, so a
loop its callback runs passes over it. Assumptions: some handler can be allocated,
the markers for no descriptor and for free memory are not values of the data.

### HashTable

| Theorem | States |
|---|---|
| `TableSafety` | `Spec => []HashInv` |
| `ChainsKept` | `ChainsWellFormed`: chains in both directions, newest first, with the count |
| `NewestFound` | `FindsNewest`: a lookup ends and finds the newest entry with its key |
| `NoFreedRead` | `NoFreedEntryRead` |
| `VisitedOnce` | `EachVisitedOnce`: a loop meets each entry once and leaves none |

For any memory, number of buckets and keys, and any number of loops one after
another. What a chain contains is about what its links reach, which no invariant on
single entries says. `HashInv` replaces reachability by age: the entries are in a
strict total order of age (`Aged`), a bucket points to the newest of its entries
and each `next` to the newest of those that are older (`Linked`), each `prev` to the
oldest of those that are newer (`Counted`, with the number of entries). A loop's
cursor is the first, in the order of the iterator, of exactly what it has yet to
return (`WalkOK`). In the loops that free without `hash_remove` the links behind the
cursor dangle and `num_entries` is wrong, so there only the buckets ahead are said
to be linked; the table is initialized or freed with its tunnel afterwards.

An insertion puts the newest entry at the head, a removal joins the two
neighbours, and each is one lemma on any table, entries and ages (`InsertKeeps`,
`RemoveKeeps`). For lookup the recursion along the chain is shown to define a
function (`NthType`), and by induction on the number of steps the chain has passed
exactly the entries newer than the one it stands on (`ChainOfBucket`), so it ends
within as many steps as there are items. Calls relies on `VisitedOnce` where a tunnel
ends all its sessions in one step.

### CommandSocket

| Theorem | States |
|---|---|
| `CommandSafety` | `Spec => []CommandInv` |
| `DescriptorsOwned` | `OneStatePerDescriptor` |

For any clients, descriptors and failures. `CommandInv` adds that a walk will call
each live state at most once and no other, so that a callback finds the state it
was registered with; that two descriptors have different connections; and that two
live states have different descriptors. All of it up to the first exit command
only, after which the code breaks it (section 5).

### LinuxTimer

| Theorem | States |
|---|---|
| `TimerSafety` | `Spec => []TimerInv` |
| `EventsInOnePlace` | `OnePlaceUnlessLost`: every event in exactly one place but for the lost ones; with the types, no `it_value` below zero |
| `TimerSetForTop` | `TimerForTop` |
| `NeverEarly` | `NeverEarlyUnlessDisturbed` |

For any events, times and number of periodic timers. `TimerInv` adds

- `HandsOK`: where the event in the main program's hands is at each point that
  SIGALRM may interrupt: read from the free list and still on it, or taken off and
  nowhere else; the free list that `timer_delete` has read and will write back is
  still a part of the free list, since callbacks only add to it;
- `PeriodicsOK`: a periodic timer is on the queue or has its callback running, so
  that `timer_cancel` finds it;
- `NotEarly`: with the time left on the interval timer put at the top, the sums of
  the `it_value`s along the queue are no less than the times until the events are
  due, and while the handler runs a callback the same holds counted from now.

`TimerInv` keeps the places apart; that no event is missing is a second invariant,
`Accounted`, inductive on top of it. It follows each event through the two-step
operations and has to say which lost events can still be seen on the free list:
while `timer_create` is between its steps, exactly those in front of the event it
takes (callbacks return theirs to the head); while `timer_delete` is, exactly those
that are not on the list it has read. The write then drops these and no others:
outside the two steps no lost event is on any list or in any hand, and every other
event is in one place.

The lemmas below it say what `Insert` does to these sums: it moves none but the new
event's own (`SumsShift`, `InsertedOnTime`), and it never takes more off an
`it_value` than there is. Sums over a queue are a recursive function, whose
existence and recursion are shown first (`SumsType`).

### Only model-checked

- All liveness, which the prover does not reach.
- The three runs that end in a violation.

## 5. Where code and documentation differ

Shown by a run of its own:

1. `calls_persist`: `l2tp.conf.5` says that persistent sessions are reestablished
   after tunnel errors. A session without a pppd yet, on a tunnel that receives
   StopCCN, is not: the redial code of `close_session` is behind its return for a
   session without a slave.
2. `command_exit`: `tunnel_cleanup` "shuts down all tunnels and waits for them to
   exit". Entered from the exit command, it closes the command's descriptor after
   the reply while the handler that read it is still in the list. The next select
   fails with EBADF and the program exits with its tunnels up.
3. `linux_timer_top`: "The top element of the event queue must have expired" when
   `alarm_handler` runs. A timer set by a request while the signal of an expired
   one is held back goes in front of it (the interval timer is off, so the time
   that has passed is not taken into account), goes off at once, and the expired
   one waits again. The comment in `timer_cancel` knows the like of it for
   cancelling. `NeverEarlyUnlessDisturbed` shows that this, and cancelling a timer
   that is not the last, are the only ways.

Not a run of their own; a passing property says what remains true:

4. `tunnel_outstanding_frames` (`tunnel.c:173`) does not count "transmitted, but
   not ack'd" frames after a timeout followed by a late acknowledgement: it
   wraps to nearly 65536. The window is closed then and no frame goes out beyond
   it (`WireOK` in `TransportInv`, `FlowControl`); the queue is not empty, so the
   timer is armed (`TimerIffUnacked`), and its timeout sets `Ns_on_wire` back. All
   three are proved; that the armed timer then settles the message in this state
   is not shown, since the liveness run is too small to reach it.
5. `tunnel_cleanup` also runs redial timers, which open new tunnels that nobody
   stops; `ShutdownEndsUnlessReopened` shows that nothing else can hold it up.
6. `Event_HandleChildExit` promises a call for each exit. A SIGCHLD between
   `child_handler`'s last `waitpid` and `fired = 0` in `DoPipe` is forgotten, and a
   SIGTERM likewise; `ChildExitHandledUnlessMissed` and `TermHandledUnlessMissed`
   show that these are the only gaps besides a child that exits before SIGCHLD
   has its handler.
7. A SIGTERM's `sighandler` runs inside `DoPipe`, before `fired` is reset, and
   runs an event loop: each later SIGCHLD calls it again, and the fifth call
   exits with tunnels open.
8. The free list of `linux_timer.c` is not protected: `timer_create` reads
   `event_freelist` and writes it some statements later (lines 217 and 225),
   `timer_delete` likewise (250 and 251), and neither masks SIGALRM for it. A timer
   without an interval whose callback returns in between puts its event at the
   head of the list, and the write drops it: it is in no list and no hand for as
   long as the program runs. Each loss leaves one event fewer; with none left the
   assertion at line 221 ends the program. `OnePlaceUnlessLost` shows that no event
   is lost in any other way, and that none is ever in two places.

A half-open tunnel (SCCRQ or SCCRP acknowledged by a ZLB and never answered)
has no timer at all; `TunnelsWatched` leaves these two states out. A call of
`EventTcp_ReadBuf` or `WriteBuf` that fails leaks its descriptor
(`OneStatePerDescriptor`).

## 6. Plan

Done: all modules of section 2, and the proofs of section 4.

Open, in this order:

1. The repeated SCCRQ: a second tunnel in the composition.
2. The half-open tunnel: a liveness property that says what ends it.
3. The EMF/IGS tables, as a separate subsystem.

## 7. Not modelled

Encoding and decoding (AVPs, hiding, MD5), option parsing, PPP frames, routes and
pppd's options: byte-level code without state of its own, on which none of the
properties depends. In `event_tcp.c` the outgoing connections and cancellation, in
`linux_timer.c` `timer_change_settime` and `timer_cancel_all`: nothing calls them.
The other programs and drivers of the repository: section 1.

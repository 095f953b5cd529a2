---------------------------- MODULE CommandSocket ----------------------------
(***************************************************************************)
(* The command socket: src/rp-l2tp/handlers/cmd.c over the buffered reads  *)
(* and writes of src/rp-l2tp/libevent/event_tcp.c.                         *)
(*                                                                         *)
(* An EventTcpState and its EventHandler live together; EventLoop shows    *)
(* what the selector does with handlers, here it is reduced to the list,   *)
(* newest first, and to the walk that calls the handlers its select found. *)
(* The command exit waits for the tunnels in an event loop of its own,     *)
(* inside the callback that read it, and never returns.                    *)
(***************************************************************************)
EXTENDS Integers, Sequences, FiniteSets, SequencesExt

CONSTANTS Conn,        \* connections that clients open, each once
          NoConn,
          Fd,          \* file descriptors for them, a set of numbers
          State,       \* memory for EventTcpStates, a set of numbers
          Free,
          Tunnels,     \* tunnels at the start
          MayFail,     \* whether accept, EventTcp_ReadBuf and WriteBuf may fail
          MaxExits     \* bound: exit commands inside each other

Acceptor == 0          \* the handler of the listening socket

ASSUME CommandAssumption ==
    /\ IsFiniteSet(Conn) /\ NoConn \notin Conn
    /\ Fd \subseteq Nat \ {0} /\ State \subseteq Nat \ {Acceptor}
    /\ Tunnels \in Nat /\ MayFail \in BOOLEAN /\ MaxExits \in Nat

VARIABLES conn,      \* how far each connection has come
          fds,       \* the connection of each descriptor
          st,        \* the EventTcpStates
          list,      \* their handlers, the newest first
          walking,   \* a walk is in progress (else: select), and what it
          todo,      \* has yet to call
          exits,     \* exit commands in progress
          tunnels,
          exited,    \* how the program has ended
          failed     \* history: a call of ReadBuf or WriteBuf failed

vars == <<conn, fds, st, list, walking, todo, exits, tunnels, exited, failed>>

Connection == <<0, "accept">>
Commands == {"exit", "other"}

(* f is cmd_handler for a read and NULL for a write; owner, a history, is  *)
(* the connection the state was made for.                                  *)
States == [does : {"read", "write"}, socket : Fd, owner : Conn,
           cmd : Commands \cup {"none"}, expired : BOOLEAN, deleted : BOOLEAN]

ASSUME FreeAssumption == Free \notin States

Live(x) == st[x] # Free /\ ~st[x].deleted
InUse == {x \in State : Live(x)}
Waiting == {c \in Conn : conn[c] = "waiting"}

(* The innermost loop waits in select, or calls what its select found.     *)
(* The walks in which exit commands came are never resumed.                *)
Running == exited = "no"
InSelect == Running /\ ~walking
InWalk == Running /\ walking

Init ==
    /\ conn = [c \in Conn |-> "none"] /\ fds = [f \in Fd |-> NoConn]
    /\ st = [x \in State |-> Free] /\ list = <<>> /\ walking = FALSE /\ todo = <<>>
    /\ exits = 0 /\ tunnels = Tunnels
    /\ exited = "no" /\ failed = FALSE

(***************************************************************************)
(* Outside: clients, time and the tunnels.                                 *)
(***************************************************************************)

connect ==
    /\ Running
    /\ \E c \in Conn : conn[c] = "none" /\ conn' = [conn EXCEPT ![c] = "waiting"]
    /\ UNCHANGED <<fds, st, list, walking, todo, exits, tunnels, exited, failed>>

(* mutant: replies have no timeout *)
ReadTimeoutPasses(x) ==
    /\ Running /\ Live(x) /\ ~st[x].expired /\ st[x].does = "read"
    /\ st' = [st EXCEPT ![x].expired = TRUE]
    /\ UNCHANGED <<conn, fds, list, walking, todo, exits, tunnels, exited, failed>>

(* Five seconds after ReadBuf, ten after WriteBuf. *)
TimeoutPasses(x) ==
    /\ Running /\ Live(x) /\ ~st[x].expired
    /\ st' = [st EXCEPT ![x].expired = TRUE]
    /\ UNCHANGED <<conn, fds, list, walking, todo, exits, tunnels, exited, failed>>

(* A handler is left for a closed descriptor: select fails with EBADF. *)
BadDescriptor == \E x \in InUse : fds[st[x].socket] = NoConn

(* A stopped tunnel is freed, in some callback of the loop. *)
TunnelFreed ==
    /\ Running /\ exits > 0 /\ tunnels > 0
    /\ InSelect => ~BadDescriptor
    /\ tunnels' = tunnels - 1
    /\ UNCHANGED <<conn, fds, st, list, walking, todo, exits, exited, failed>>

(***************************************************************************)
(* The event loop.                                                         *)
(***************************************************************************)

Wait == InSelect /\ (exits = 0 \/ tunnels > 0)

(* mutant: the loop goes on after an error *)
ErrorIgnored == Wait /\ BadDescriptor /\ UNCHANGED vars

(* main and tunnel_cleanup exit. *)
SelectFails ==
    /\ Wait /\ BadDescriptor
    /\ exited' = "failure"
    /\ UNCHANGED <<conn, fds, st, list, walking, todo, exits, tunnels, failed>>

(* The handlers of the list that are in xs, in the order of the list. *)
Listed(xs) ==
    LET kept[i \in 0..Len(list)] ==
            IF i = 0 THEN <<>>
            ELSE IF list[i] \in xs THEN Append(kept[i - 1], list[i])
            ELSE kept[i - 1]
    IN  kept[Len(list)]

(* What a select that finds ready calls, in the order of the list; the     *)
(* acceptor, the oldest handler, comes last.                               *)
Calls(ready) ==
    LET called == {x \in InUse : \/ st[x].expired
                                 \/ <<st[x].socket, st[x].does>> \in ready}
    IN  Listed(called) \o (IF Connection \in ready THEN <<Acceptor>> ELSE <<>>)

Watched == {<<st[x].socket, st[x].does>> : x \in InUse}
           \cup (IF Waiting # {} THEN {Connection} ELSE {})

Select ==
    /\ Wait /\ ~BadDescriptor
    /\ \E ready \in SUBSET Watched :
        /\ Calls(ready) # <<>>
        /\ todo' = Calls(ready)
    /\ walking' = TRUE
    /\ UNCHANGED <<conn, fds, st, list, exits, tunnels, exited, failed>>

(* tunnel_cleanup, and with it cmd_exit, is done. *)
CleanupDone ==
    /\ InSelect /\ exits > 0 /\ tunnels = 0
    /\ exited' = "ok"
    /\ UNCHANGED <<conn, fds, st, list, walking, todo, exits, tunnels, failed>>

ToNext == todo' = Tail(todo) /\ UNCHANGED walking
ToSelect == todo' = <<>> /\ walking' = FALSE

EndOfWalk ==
    /\ InWalk /\ todo = <<>> /\ ToSelect
    /\ IF exits = 0
       THEN /\ list' = Listed(InUse)
            /\ st' = [x \in State |-> IF Live(x) THEN st[x] ELSE Free]
       ELSE UNCHANGED <<list, st>>
    /\ UNCHANGED <<conn, fds, exits, tunnels, exited, failed>>

(***************************************************************************)
(* event_tcp.c and cmd.c, as parts of the callbacks below.                 *)
(***************************************************************************)

UnusedStates == {x \in State : st[x] = Free}

(* EventTcp_ReadBuf and EventTcp_WriteBuf make a state, or fail; the       *)
(* callers do not look at the result.  sts is st after what the caller     *)
(* does to its own state.                                                  *)
MakeState(does, fd, sts) ==
    \/ /\ UnusedStates # {}
       /\ LET y == CHOOSE y \in UnusedStates : \A z \in UnusedStates : y <= z
          IN  /\ st' = [sts EXCEPT ![y] = [does |-> does, socket |-> fd,
                                           owner |-> fds'[fd], cmd |-> "none",
                                           expired |-> FALSE, deleted |-> FALSE]]
              /\ list' = <<y>> \o list
       /\ UNCHANGED failed
    \/ /\ MayFail
       /\ failed' = TRUE /\ st' = sts /\ UNCHANGED list

(* mutant: the handler is not deleted *)
KeepHandler(sts, x) == sts

free_state(sts, x) == [sts EXCEPT ![x].deleted = TRUE]

(* close of x's socket, which is another connection's if the descriptor    *)
(* has been closed and opened again; of a closed one it has no effect.     *)
close(x) ==
    LET f == st[x].socket
    IN  /\ fds' = [fds EXCEPT ![f] = NoConn]
        /\ conn' = IF fds[f] = NoConn THEN conn ELSE [conn EXCEPT ![fds[f]] = "closed"]

EventTcp_ReadBuf(fd, sts) == MakeState("read", fd, sts)
EventTcp_WriteBuf(fd, sts) == MakeState("write", fd, sts)

cmd_acceptor(fd) == EventTcp_ReadBuf(fd, st)
cmd_reply(fd, sts) == EventTcp_WriteBuf(fd, sts)

(***************************************************************************)
(* The callbacks.                                                          *)
(***************************************************************************)

(* A state is deleted by its own callback only, and a walk in which an     *)
(* exit command came is not resumed: no deleted state is due to be called. *)
Callback(x) == InWalk /\ todo # <<>> /\ Head(todo) = x

(* cmd_acceptor is its callback; accept takes the lowest free descriptor,  *)
(* or fails.                                                               *)
handle_accept ==
    /\ Callback(Acceptor)
    /\ ToNext
    /\ LET free == {f \in Fd : fds[f] = NoConn}
           fd == CHOOSE f \in free : \A g \in free : f <= g
       IN  \/ /\ free # {}
              /\ \E c \in Waiting :
                    /\ conn' = [conn EXCEPT ![c] = "open"]
                    /\ fds' = [fds EXCEPT ![fd] = c]
              /\ cmd_acceptor(fd)
           \/ /\ free = {} \/ MayFail
              /\ UNCHANGED <<conn, fds, st, list, failed>>
    /\ UNCHANGED <<exits, tunnels, exited>>

(* cmd_handler of an error or a timeout, handle_writeable at its end. *)
CloseAndFree(x) ==
    /\ close(x) /\ st' = free_state(st, x) /\ ToNext
    /\ UNCHANGED <<list, exits, failed>>

(* The reply is queued and tunnel_cleanup's loop begins; the callback does *)
(* not return, and its state and handler stay as they are.                 *)
cmd_exit(x) ==
    /\ exits < MaxExits /\ exits' = exits + 1
    /\ cmd_reply(st[x].socket, [st EXCEPT ![x].cmd = "exit"])
    /\ ToSelect

(* The buffer still begins with the command if it is read again.  After    *)
(* any command but exit the reader's state is freed.                       *)
cmd_handler(x) ==
    /\ UNCHANGED <<conn, fds>>
    /\ \E cmd \in IF st[x].cmd = "none" THEN Commands ELSE {st[x].cmd} :
        \/ /\ cmd = "other"
           /\ cmd_reply(st[x].socket, free_state(st, x))
           /\ UNCHANGED exits /\ ToNext
        \/ cmd = "exit" /\ cmd_exit(x)

(* A timeout, an error, end of file or the end of the line, or EAGAIN.     *)
handle_readable(x) ==
    /\ Callback(x) /\ st[x].does = "read"
    /\ \/ CloseAndFree(x)
       \/ ~st[x].expired /\ fds[st[x].socket] # NoConn /\ cmd_handler(x)
       \/ /\ ~st[x].expired /\ fds[st[x].socket] # NoConn
          /\ ToNext /\ UNCHANGED <<conn, fds, st, list, exits, failed>>
    /\ UNCHANGED <<tunnels, exited>>

(* A timeout, an error or the last byte; or a part of the reply. *)
handle_writeable(x) ==
    /\ Callback(x) /\ st[x].does = "write"
    /\ \/ CloseAndFree(x)
       \/ /\ ~st[x].expired /\ fds[st[x].socket] # NoConn
          /\ ToNext /\ UNCHANGED <<conn, fds, st, list, exits, failed>>
    /\ UNCHANGED <<tunnels, exited>>

Callbacks == handle_accept \/ \E x \in State : handle_readable(x) \/ handle_writeable(x)

Next ==
    \/ connect \/ TunnelFreed \/ \E x \in State : TimeoutPasses(x)
    \/ SelectFails \/ Select \/ CleanupDone \/ EndOfWalk \/ Callbacks

Spec == Init /\ [][Next]_vars

Expired == \E x \in InUse : st[x].expired

(* Time passes; select returns once a timeout has passed; callbacks return *)
(* and a walk comes to its end.  Clients need do nothing.                  *)
Fairness ==
    /\ \A x \in State : WF_vars(TimeoutPasses(x))
    /\ WF_vars(Expired /\ Select) /\ WF_vars(SelectFails)
    /\ WF_vars(EndOfWalk \/ Callbacks)
    /\ WF_vars(TunnelFreed) /\ WF_vars(CleanupDone)

FairSpec == Spec /\ Fairness

(***************************************************************************)
(* Properties.                                                             *)
(***************************************************************************)

(* The connections, descriptors, states and walks have their types. *)
CommandTypeOK ==
    /\ conn \in [Conn -> {"none", "waiting", "open", "closed"}]
    /\ fds \in [Fd -> Conn \cup {NoConn}]
    /\ st \in [State -> States \cup {Free}]
    /\ ToSet(list) = {x \in State : st[x] # Free} /\ IsInjective(list)
    /\ todo \in Seq(State \cup {Acceptor}) /\ walking \in BOOLEAN
    /\ exits \in 0..MaxExits /\ tunnels \in 0..Tunnels
    /\ exited \in {"no", "ok", "failure"}
    /\ failed \in BOOLEAN

(* Until an exit command comes, every open connection has one descriptor,  *)
(* the descriptor one state that reads or writes it, and every state an    *)
(* open descriptor of its own connection: none leaks, none is watched      *)
(* after it was closed, and so the main loop, which ends the program if    *)
(* select fails, never sees EBADF.  A call of ReadBuf or WriteBuf that     *)
(* fails leaks the descriptor.  The types hold throughout.                 *)
OneStatePerDescriptor ==
    /\ CommandTypeOK
    /\ exits = 0 =>
        /\ \A x \in InUse : fds[st[x].socket] = st[x].owner
        /\ \A f \in Fd : fds[f] # NoConn =>
            /\ conn[fds[f]] = "open"
            /\ Cardinality({x \in InUse : st[x].socket = f}) = 1
               \/ (failed /\ \A x \in InUse : st[x].socket # f)

(* Every connection is closed in the end, however slow or silent its       *)
(* client is, unless the program exits or a call of ReadBuf or WriteBuf    *)
(* failed.                                                                 *)
EveryConnectionClosed ==
    \A c \in Conn : (conn[c] = "open") ~> (conn[c] = "closed" \/ ~Running \/ failed)

(* An exit command ends the program, in one way or the other. *)
ExitEndsProgram == (exits > 0) ~> ~Running

(* tunnel_cleanup "Shuts down all tunnels and waits for them to exit": the *)
(* program is not gone before the tunnels are.                             *)
ExitWaitsForTunnels == exited # "no" => tunnels = 0
=============================================================================

---------------------------- MODULE SocketPosix ----------------------------
(***************************************************************************)
(* SocketPosix (rust_net/socket_posix.rs): sockets whose operations either *)
(* complete at once or leave a callback in a slot and a one-shot watch on  *)
(* the descriptor.  Everything runs on the IO thread, so a call of the     *)
(* interface is one step; what interleaves are the calls, in tasks and in  *)
(* callbacks, the batches of events that epoll_wait returned, and the      *)
(* kernel.  A callback is the last thing its caller does: a call that      *)
(* completes at once leaves the IO thread in user code, which may call on. *)
(***************************************************************************)
EXTENDS Naturals, FiniteSets

CONSTANTS Sockets, Fds,
          MaxOps,       \* bound: callbacks that had to wait in a slot
          NoFd, NoEntry, Unbound,
          FullDuplex,   \* user code reads and writes one socket at a time
          Eager         \* user code starts an operation on a descriptor of which the
                        \* current batch still holds an undelivered event

\* The callbacks that had to wait, numbered in the order of the calls.
Ops == 1 .. MaxOps
NoOp == 0

INSTANCE FdWatch WITH Controllers <- Sockets \X {"read", "write"}, Watchers <- Sockets

ASSUME SocketAssumption ==
    /\ NoFd \notin Fds /\ MaxOps \in Nat
    /\ NoEntry \notin Entry /\ Unbound \notin [fd : Fds, generation : Nat]
    /\ FullDuplex \in BOOLEAN /\ Eager \in BOOLEAN

VARIABLES table,      \* the watches of the IoTaskRunner
          life,       \* a socket is unborn, live, or its last reference is gone
          fd,         \* SocketPosix::fd
          slot,       \* pending_read, _write, _connect, _accept
          notify,     \* the ReadOps that are ReadIfReady
          status,     \* history: what became of the callback of a call
          role,       \* the kernel's state of a descriptor
          readiness,
          loop, batch \* run_loop

socketVars == <<life, fd, slot, notify, status>>
kernelVars == <<role, readiness>>
loopVars == <<loop, batch>>
vars == <<table, socketVars, kernelVars, loopVars>>

Slots == {"read", "write", "connect", "accept"}

Init ==
    /\ table = EmptyTable
    /\ life = [s \in Sockets |-> "unborn"]
    /\ fd = [s \in Sockets |-> NoFd]
    /\ slot = [s \in Sockets |-> [x \in Slots |-> NoOp]]
    /\ notify = {}
    /\ status = [o \in Ops |-> "unused"]
    /\ role = [f \in Fds |-> "closed"]
    /\ readiness = [f \in Fds |-> {}]
    /\ loop = "task" /\ batch = {}

InUserCode == loop \in {"task", "callback"}

-----------------------------------------------------------------------------
(* Watches and descriptors *)

\* arm_read and arm_write: a one-shot watch by the controller of that direction.
\* The result of watch_file_descriptor is ignored, here it never fails.
Armed(s, f, direction) ==
    LET c == <<s, direction>>
        mode == IF direction = "read" THEN "Read" ELSE "Write"
        w == Arm(Draw(Stop(table, c)), f, mode)
    IN Insert(w, c, f, [watcher |-> s, mode |-> mode, persistent |-> FALSE,
                       generation |-> table.next])

\* epoll forgets a descriptor that is closed; the entry stays until it is removed.
Forgotten(w, f) == [w EXCEPT !.interest[f] = {}]

\* The kernel gives a descriptor that is not in use.
Opened(s, f, r, ready) ==
    /\ role[f] = "closed"
    /\ fd' = [fd EXCEPT ![s] = f]
    /\ life' = [life EXCEPT ![s] = "live"]
    /\ role' = [role EXCEPT ![f] = r]
    /\ readiness' = [readiness EXCEPT ![f] = ready]

\* new and open; user code does not open a socket twice without closing it.
Open(s) ==
    /\ InUserCode /\ fd[s] = NoFd /\ life[s] # "dropped"
    /\ \E f \in Fds : Opened(s, f, "fresh", {})
    /\ UNCHANGED <<table, slot, notify, status, loopVars>>

\* bind and listen.
Listen(s) ==
    /\ InUserCode /\ fd[s] # NoFd /\ role[fd[s]] = "fresh"
    /\ role' = [role EXCEPT ![fd[s]] = "listening"]
    /\ UNCHANGED <<table, socketVars, readiness, loopVars>>

-----------------------------------------------------------------------------
(* Operations *)

Opposite(x) == IF x \in {"read", "accept"} THEN {"write", "connect"} ELSE {"read", "accept"}

NextOp(o) == status[o] = "unused" /\ \A q \in 1 .. o - 1 : status[q] # "unused"

\* User code uses a socket when it is connected or listens, waits for the callback
\* of connect, and keeps to what FullDuplex and Eager allow.
MayStart(s, o, x, r) ==
    /\ InUserCode /\ life[s] = "live" /\ NextOp(o)
    /\ fd[s] # NoFd /\ role[fd[s]] = r /\ slot[s]["connect"] = NoOp
    /\ FullDuplex \/ \A y \in Opposite(x) : slot[s][y] = NoOp
    /\ Eager \/ \A ev \in batch : ev.fd # fd[s]

\* The callback was called before the call returned, and left no trace.
CompletedNow == UNCHANGED <<table, slot, notify, status>>

\* A slip to detect: a controller that says it is watching is not armed again.
SuspendUnlessWatching(s, f, o, x, n) ==
    /\ slot' = [slot EXCEPT ![s][x] = o]
    /\ status' = [q \in Ops |-> IF q = o THEN "pending"
                               ELSE IF q = slot[s][x] THEN "done" ELSE status[q]]
    /\ notify' = n
    /\ LET direction == IF x \in {"read", "accept"} THEN "read" ELSE "write" IN
       table' = IF IsWatching(table, <<s, direction>>) THEN table ELSE Armed(s, f, direction)

\* EAGAIN: store the callback, dropping the one stored before, and arm the watch.
Suspend(s, f, o, x, n) ==
    /\ slot' = [slot EXCEPT ![s][x] = o]
    /\ status' = [q \in Ops |-> IF q = o THEN "pending"
                               ELSE IF q = slot[s][x] THEN "done" ELSE status[q]]
    /\ notify' = n
    /\ table' = Armed(s, f, IF x \in {"read", "accept"} THEN "read" ELSE "write")

\* A read or a write may or may not leave more to read or room to write.
Consume(f, direction) ==
    \/ UNCHANGED readiness
    \/ readiness' = [readiness EXCEPT ![f] = @ \ {direction}]

\* connect(2) on a descriptor: at once, EINPROGRESS, or another error.
Connecting(s, f, o) ==
    \/ /\ role' = [role EXCEPT ![f] = "stream"]
       /\ readiness' = [readiness EXCEPT ![f] = {"out"}]
       /\ CompletedNow
    \/ /\ role' = [role EXCEPT ![f] = "connecting"]
       /\ readiness' = [readiness EXCEPT ![f] = {}]
       /\ Suspend(s, f, o, "connect", notify)
    \/ /\ role' = [role EXCEPT ![f] = "fresh"]
       /\ readiness' = [readiness EXCEPT ![f] = {}]
       /\ CompletedNow

Connect(s, o) ==
    /\ MayStart(s, o, "connect", "fresh")
    /\ Connecting(s, fd[s], o)
    /\ UNCHANGED <<life, fd, loopVars>>

ReadIfReady(s, o) ==
    /\ MayStart(s, o, "read", "stream")
    /\ Suspend(s, fd[s], o, "read", notify \cup {o})
    /\ UNCHANGED <<life, fd, kernelVars, loopVars>>

Read(s, o) ==
    /\ MayStart(s, o, "read", "stream")
    /\ IF "in" \in readiness[fd[s]]
       THEN CompletedNow /\ Consume(fd[s], "in")
       ELSE Suspend(s, fd[s], o, "read", notify) /\ UNCHANGED readiness
    /\ UNCHANGED <<life, fd, role, loopVars>>

Write(s, o) ==
    /\ MayStart(s, o, "write", "stream")
    /\ IF "out" \in readiness[fd[s]]
       THEN CompletedNow /\ Consume(fd[s], "out")
       ELSE Suspend(s, fd[s], o, "write", notify) /\ UNCHANGED readiness
    /\ UNCHANGED <<life, fd, role, loopVars>>

\* A socket that adopts a connected descriptor.
FromFd(p, g) ==
    /\ life[p] = "unborn"
    /\ life' = [life EXCEPT ![p] = "live"]
    /\ fd' = [fd EXCEPT ![p] = g]

\* do_accept: a socket for the peer, or an error such as EMFILE.
AcceptPeer(f) ==
    \/ /\ \E p \in Sockets, g \in Fds :
             /\ FromFd(p, g)
             /\ role[g] = "closed"
             /\ role' = [role EXCEPT ![g] = "stream"]
             /\ \E left \in {readiness[f], readiness[f] \ {"in"}} :
                   readiness' = [readiness EXCEPT ![f] = left, ![g] = {"out"}]
    \/ Consume(f, "in") /\ UNCHANGED <<life, fd, role>>

Accept(s, o) ==
    /\ MayStart(s, o, "accept", "listening")
    /\ IF "in" \in readiness[fd[s]]
       THEN CompletedNow /\ AcceptPeer(fd[s])
       ELSE Suspend(s, fd[s], o, "accept", notify) /\ UNCHANGED <<life, fd, kernelVars>>
    /\ UNCHANGED loopVars

\* The callbacks of these slots are dropped without having been called.
Discard(s, xs) ==
    LET gone == {slot[s][x] : x \in xs} IN
    /\ slot' = [slot EXCEPT ![s] = [x \in Slots |-> IF x \in xs THEN NoOp ELSE @[x]]]
    /\ status' = [o \in Ops |-> IF o \in gone THEN "done" ELSE status[o]]
    /\ notify' = notify \ gone

StopBoth(w, s) == Stop(Stop(w, <<s, "read">>), <<s, "write">>)

Twin(x) == CASE x = "read" -> "accept" [] x = "accept" -> "read"
             [] x = "write" -> "connect" [] x = "connect" -> "write"

\* A slip to detect: cancelling a read stops a pending write, and the other way round.
CancelBoth(s, x) ==
    /\ InUserCode /\ life[s] = "live" /\ x # "connect" /\ slot[s][Twin(x)] = NoOp
    /\ Discard(s, {x})
    /\ table' = StopBoth(table, s)
    /\ UNCHANGED <<life, fd, kernelVars, loopVars>>

\* cancel_accept, cancel_read and cancel_write; user code does not call the one for
\* a kind of operation while the other kind that uses the same watch is pending.
Cancel(s, x) ==
    /\ InUserCode /\ life[s] = "live" /\ x # "connect" /\ slot[s][Twin(x)] = NoOp
    /\ Discard(s, {x})
    /\ table' = Stop(table, <<s, IF x = "write" THEN "write" ELSE "read">>)
    /\ UNCHANGED <<life, fd, kernelVars, loopVars>>

CloseFd(s) ==
    IF fd[s] = NoFd THEN UNCHANGED kernelVars
    ELSE /\ role' = [role EXCEPT ![fd[s]] = "closed"]
         /\ readiness' = [readiness EXCEPT ![fd[s]] = {}]

\* A slip to detect: the descriptor is closed and stays in the socket.
CloseKeepingFd(s) ==
    /\ InUserCode /\ life[s] = "live"
    /\ table' = StopBoth(table, s)
    /\ Discard(s, Slots)
    /\ CloseFd(s)
    /\ UNCHANGED <<life, fd, loopVars>>

\* A slip to detect: only the watch for reading is stopped.
CloseReadSide(s) ==
    /\ InUserCode /\ life[s] = "live"
    /\ table' = IF fd[s] = NoFd THEN table
                ELSE Forgotten(Stop(table, <<s, "read">>), fd[s])
    /\ Discard(s, Slots)
    /\ CloseFd(s)
    /\ fd' = [fd EXCEPT ![s] = NoFd]
    /\ UNCHANGED <<life, loopVars>>

Close(s) ==
    /\ InUserCode /\ life[s] = "live"
    /\ table' = StopBoth(table, s)
    /\ Discard(s, Slots)
    /\ CloseFd(s)
    /\ fd' = [fd EXCEPT ![s] = NoFd]
    /\ UNCHANGED <<life, loopVars>>

\* The last reference goes: Drop closes the descriptor, then the controllers stop.
DropSocket(s) ==
    /\ InUserCode /\ life[s] = "live"
    /\ table' = StopBoth(IF fd[s] = NoFd THEN table ELSE Forgotten(table, fd[s]), s)
    /\ Discard(s, Slots)
    /\ CloseFd(s)
    /\ fd' = [fd EXCEPT ![s] = NoFd]
    /\ life' = [life EXCEPT ![s] = "dropped"]
    /\ UNCHANGED loopVars

-----------------------------------------------------------------------------
(* Readiness *)

\* Take the callback out of the slot and call it.
Fire(s, x) ==
    /\ status' = [status EXCEPT ![slot[s][x]] = "done"]
    /\ notify' = notify \ {slot[s][x]}
    /\ slot' = [slot EXCEPT ![s][x] = NoOp]
    /\ loop' = "callback"

NothingToFire == UNCHANGED <<life, fd, slot, notify, status, kernelVars, loop>>

\* on_file_can_read_without_blocking: an attempt that finds nothing hands EAGAIN to
\* the callback as an error.
OnCanRead(s, f) ==
    IF slot[s]["accept"] # NoOp
    THEN /\ Fire(s, "accept")
         /\ IF "in" \in readiness[f] THEN AcceptPeer(f) ELSE UNCHANGED <<life, fd, kernelVars>>
    ELSE IF slot[s]["read"] # NoOp
    THEN /\ Fire(s, "read")
         /\ IF slot[s]["read"] \in notify THEN UNCHANGED readiness ELSE Consume(f, "in")
         /\ UNCHANGED <<life, fd, role>>
    ELSE NothingToFire

\* on_file_can_write_without_blocking
OnCanWrite(s, f) ==
    IF slot[s]["connect"] # NoOp
    THEN Fire(s, "connect") /\ UNCHANGED <<life, fd, kernelVars>>
    ELSE IF slot[s]["write"] # NoOp
    THEN /\ Fire(s, "write")
         /\ Consume(f, "out")
         /\ UNCHANGED <<life, fd, role>>
    ELSE NothingToFire

-----------------------------------------------------------------------------
(* The loop of the IoTaskRunner and the kernel *)

\* The events of a batch; none if the loop was woken to run tasks.
EpollWait ==
    /\ loop = "wait"
    /\ batch' = {[fd |-> f, flags |-> readiness[f] \cap table.interest[f]] :
                    f \in {g \in Fds : readiness[g] \cap table.interest[g] # {}}}
    /\ loop' = "batch"
    /\ UNCHANGED <<table, socketVars, kernelVars>>

Dispatch(ev) ==
    /\ loop = "batch" /\ ev \in batch
    /\ batch' = batch \ {ev}
    /\ LET e == table.entry[ev.fd] IN
       IF e = NoEntry
       THEN UNCHANGED table /\ NothingToFire
       ELSE /\ table' = Extract(table, ev.fd)
            /\ CASE CanRead(e, ev.flags) -> OnCanRead(e.watcher, ev.fd)
                 [] CanWrite(e, ev.flags) -> OnCanWrite(e.watcher, ev.fd)
                 [] OTHER -> NothingToFire

\* A slip to detect: an event without an entry ends the batch.
EndBatchEarly ==
    /\ loop = "batch"
    /\ \E ev \in batch : table.entry[ev.fd] = NoEntry
    /\ loop' \in {"task", "wait"}
    /\ UNCHANGED <<table, socketVars, kernelVars, batch>>

\* The batch is done; the loop runs tasks that were posted, if any, and waits.
EndBatch ==
    /\ loop = "batch" /\ batch = {}
    /\ loop' \in {"task", "wait"}
    /\ UNCHANGED <<table, socketVars, kernelVars, batch>>

EndUserCode ==
    /\ InUserCode
    /\ loop' = IF loop = "task" THEN "wait" ELSE "batch"
    /\ UNCHANGED <<table, socketVars, kernelVars, batch>>

LoopStep == EpollWait \/ EndBatch \/ EndUserCode \/ \E ev \in batch : Dispatch(ev)

\* A peer sends or connects; the peer takes data from a full buffer.
BecomesReady(f, direction) ==
    /\ role[f] = "stream" \/ (role[f] = "listening" /\ direction = "in")
    /\ direction \notin readiness[f]
    /\ readiness' = [readiness EXCEPT ![f] = @ \cup {direction}]
    /\ UNCHANGED <<table, socketVars, role, loopVars>>

\* The connection is made, or fails, which makes the socket readable as well.
ConnectionDone(f) ==
    /\ role[f] = "connecting"
    /\ \/ /\ role' = [role EXCEPT ![f] = "stream"]
          /\ readiness' = [readiness EXCEPT ![f] = {"out"}]
       \/ /\ role' = [role EXCEPT ![f] = "failed"]
          /\ readiness' = [readiness EXCEPT ![f] = {"in", "out"}]
    /\ UNCHANGED <<table, socketVars, loopVars>>

Call(s, o) == Connect(s, o) \/ ReadIfReady(s, o) \/ Read(s, o) \/ Write(s, o) \/ Accept(s, o)

Next == \/ \E s \in Sockets :
              \/ Open(s) \/ Listen(s) \/ Close(s) \/ DropSocket(s)
              \/ \E x \in Slots : Cancel(s, x)
              \/ \E o \in Ops : Call(s, o)
        \/ LoopStep
        \/ \E f \in Fds : ConnectionDone(f) \/ \E x \in Directions : BecomesReady(f, x)

Spec == Init /\ [][Next]_vars

-----------------------------------------------------------------------------
(* Properties *)

Event == [fd : Fds, flags : SUBSET Directions]

TypeOK ==
    /\ table \in Table
    /\ life \in [Sockets -> {"unborn", "live", "dropped"}]
    /\ fd \in [Sockets -> Fds \cup {NoFd}]
    /\ slot \in [Sockets -> [Slots -> Ops \cup {NoOp}]]
    /\ notify \subseteq Ops
    /\ status \in [Ops -> {"unused", "pending", "done"}]
    /\ role \in [Fds -> {"closed", "fresh", "connecting", "stream", "listening", "failed"}]
    /\ readiness \in [Fds -> SUBSET Directions]
    /\ loop \in {"task", "callback", "batch", "wait"}
    /\ batch \subseteq Event /\ (loop \in {"task", "wait"} => batch = {})

WatchFor(x) == IF x \in {"read", "accept"} THEN "Read" ELSE "Write"

\* A callback in a slot is never stranded: the descriptor of its socket has a watch
\* in the right direction, and epoll was told of it.
PendingArmed ==
    \A s \in Sockets, x \in Slots : slot[s][x] # NoOp =>
        /\ fd[s] # NoFd
        /\ LET e == table.entry[fd[s]] IN
           /\ e # NoEntry /\ e.watcher = s /\ e.mode = WatchFor(x)
           /\ table.interest[fd[s]] = Events(e.mode)

\* A watch does not outlive its descriptor: an entry belongs to the live socket that
\* has the descriptor now, also when the kernel gave the same number out again.
WatchOwned ==
    \A f \in Fds : table.entry[f] # NoEntry =>
        life[table.entry[f].watcher] = "live" /\ fd[table.entry[f].watcher] = f

\* Every open descriptor is in exactly one socket, and sockets have open ones only:
\* nothing leaks, and nothing is closed twice.
OneOwner ==
    /\ \A f \in Fds : role[f] # "closed" => \E s \in Sockets : fd[s] = f
    /\ \A s \in Sockets : fd[s] # NoFd =>
          /\ role[fd[s]] # "closed"
          /\ \A q \in Sockets \ {s} : fd[q] # fd[s]

Direction(x) == IF x \in {"read", "accept"} THEN "in" ELSE "out"

Due(o) == \E s \in Sockets, x \in Slots :
             slot[s][x] = o /\ fd[s] # NoFd /\ Direction(x) \in readiness[fd[s]]

\* A waiting callback whose descriptor is ready is called, unless the data is gone or
\* the operation is given up before.
OpCompletes == \A o \in Ops : Due(o) ~> ~Due(o)
=============================================================================
